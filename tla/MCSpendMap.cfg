CONSTANTS
    c1 = c1
    c2 = c2
    c3 = c3
    Claims = {c1, c2, c3}
    KeyOf <- MCKeyOf
    Depth = 2
    Handlers = {h}
    Publisher = p
    MaxAppends = 3
    Nothing = Nothing
SPECIFICATION LiveSpec
CHECK_DEADLOCK FALSE
INVARIANTS
    CacheIsATree
    AnswersVerify

    
