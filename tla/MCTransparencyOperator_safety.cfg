CONSTANTS
    t1 = t1
    t2 = t2
    t3 = t3
    k1 = k1
    k2 = k2
    Transfers = {t1, t2}
    Checkpoints = {c1}
    SpendKeyOf <- MCSpendKeyOf
    FeedRank <- MCFeedRank
    Requests = {q1, q2}
    Publishers = {p1}
    RecoveryThread = pr
    NoRoot = NoRoot
    Idle = Idle
    RecoveryRequired = TRUE
    WriteArchives = TRUE
    MaxClock = 0
    MaxIdleRoots = 0
    MaxCrashes = 1
    MaxRestoreCrashes = 0
    MaxDiskLosses = 0
SPECIFICATION Spec
CHECK_DEADLOCK FALSE
SYMMETRY MCSymmetry
INVARIANTS
    TypeOK
    ClaimsPointAtLog
    
    
PROPERTIES
    HistoryOnlyGrows
    FailSafeIsSticky
