SPECIFICATION LiveSpec
CONSTANTS
    t1 = t1
    t2 = t2
    c = c
    rep = rep
    Transfers = {t1, t2}
    Reports = {rep}
    Proofs = {c}
    Exposes <- MCExposes
    Bad = {}
    Handlers = {h}
    Workers = {w1, w2}
    Db = db
    SeenMax = 2
    LaneMax = 1
    PoolMax = 4
    BatchMax = 2
    LoadMax = 2
    MaxTries = 2
    Window = 2
    MaxArrivals = 3
    MaxStops = 1
    Nothing = Nothing
INVARIANTS
    SeenIsHeldOrKnown
    StoredEvidenceIsRelayed
    RivalsAreExposed

    
CHECK_DEADLOCK FALSE
