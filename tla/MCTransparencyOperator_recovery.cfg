CONSTANTS
    t1 = t1
    t2 = t2
    t3 = t3
    k1 = k1
    k2 = k2
    Transfers = {t1, t2}
    Checkpoints = {}
    SpendKeyOf <- MCSpendKeyOf
    FeedRank <- MCFeedRank
    Requests = {q1}
    Publishers = {p1}
    RecoveryThread = pr
    NoRoot = NoRoot
    Idle = Idle
    RecoveryRequired = TRUE
    WriteArchives = TRUE
    MaxClock = 0
    MaxIdleRoots = 0
    MaxCrashes = 0
    MaxRestoreCrashes = 0
    MaxDiskLosses = 1
SPECIFICATION LiveSpec
CHECK_DEADLOCK FALSE
INVARIANTS
    MirroredHistoryKept
    
    AcceptedClaimsHonoured
PROPERTIES
    ImplementsRegistry
    RecoveryEnds
    
