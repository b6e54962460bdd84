CONSTANTS
    n1 = n1
    n2 = n2
    n3 = n3
    issue = issue
    a = a
    b = b
    c = c
    d = d
    Nodes = {n1, n2}
    Transfers = {issue, a, b, c}
    Genesis = Genesis
    Issued = issue
    Parent <- MCParent
    Recipient <- MCRecipient
    Time <- MCTime
    DayLength = 10
    MaxPerDay = 2
    Interval = 1
    MinConfirmations = 1
    MaxFailures = 1
    None = None
    Invalid = Invalid
SPECIFICATION BillSpec
CHECK_DEADLOCK FALSE
INVARIANTS
    StoresStandAlone
    DailyLimitHolds
    WhoHeardAllGoesOn
