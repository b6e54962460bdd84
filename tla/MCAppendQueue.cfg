CONSTANTS
    j1 = j1
    j2 = j2
    j3 = j3
    j4 = j4
    p1 = p1
    p2 = p2
    Requests = {j1, j2, j3, j4}
    Peers = {p1, p2}
    PeerOf <- MCPeerOf
    Workers = {w1, w2}
    QueueMax = 3
    PerIpMax = 2
    Nothing = Nothing
SPECIFICATION LiveSpec
CHECK_DEADLOCK FALSE
INVARIANTS
    LimitsHold
    NoLostWakeup
PROPERTIES
    AdmittedIsRun
    WorkersStop
