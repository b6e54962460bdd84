CONSTANTS
    n1 = n1
    n2 = n2
    a = a
    b = b
    c = c
    d = d
    Idle = Idle
    Nodes = {n1, n2}
    PeersOf <- MCNoPeers
    Finalizers = {f1}
    Operators = {o1, o2}
    Core = {}
    Fanout = 5
    ConfiguredProofs = 0
    MinConfirmations = 0
    SubmitAsync = TRUE
    RequireTransparency = TRUE
    StaleAttempts = 1
    Transfers = {a, b}
    Ancestors <- MCAncestors
    Deliveries <- MCSplit
    Own = {}
    Strays <- MCStrayFirst
    MaxStale = 0
    MaxCrashes = 0
SPECIFICATION Spec
CHECK_DEADLOCK FALSE
SYMMETRY MCSymmetry
INVARIANTS
    RivalsNeverSettle
    
