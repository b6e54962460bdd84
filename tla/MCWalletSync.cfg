CONSTANTS
    Bills = {b1, b2}
    Peers = {p1}
    Returning = {b1}
    Quorum = FALSE
    MaxSeq = 3
    MaxTime = 2
    PageLimit = 1
    MaxTries = 1
    MaxClicks = 2
SPECIFICATION LiveSpec
CHECK_DEADLOCK FALSE
INVARIANTS
    
    SpentOnce

    
