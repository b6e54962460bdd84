CONSTANTS
    n1 = n1
    n2 = n2
    a = a
    b = b
    c = c
    d = d
    Idle = Idle
    Nodes = {n1, n2}
    PeersOf <- MCPeers
    Finalizers = {f1}
    Operators = {o1}
    Core = {}
    Fanout = 5
    ConfiguredProofs = 0
    MinConfirmations = 1
    SubmitAsync = FALSE
    RequireTransparency = FALSE
    StaleAttempts = 2
    Transfers = {a, b}
    Ancestors <- MCAncestors
    Deliveries <- MCReceiver
    Own <- MCOwnFirst
    Strays <- MCAnyOperator
    MaxStale = 2
    MaxCrashes = 1
SPECIFICATION LiveSpec
CHECK_DEADLOCK FALSE
PROPERTIES
    
    ProvenIsKept
