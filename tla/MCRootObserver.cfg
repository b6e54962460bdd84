CONSTANTS
    a1 = a1
    a2 = a2
    again = again
    fork = fork
    m1 = m1
    m2 = m2
    Roots = {a1, a2, again, fork}
    Tree <- MCTrees
    Time <- MCTimes
    Violating = {fork}
    Mirrors <- MCMirrors
    MinMirrors = 2
    NoRoot = NoRoot
    Anchors = {a2, NoRoot}
    Observers = {o}
    Gossips = {g, h}
    Peers = {p, q}
    PeerCap = 1
    Horizon = 3
    MaxRounds = 1
    MaxGossip = 2
    MaxStops = 1
SPECIFICATION Spec
SYMMETRY MCSymmetry
CHECK_DEADLOCK FALSE
INVARIANTS
    
    PeerCollisionsAreCaught
    
