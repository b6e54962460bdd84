CONSTANTS
    b1 = b1
    b2 = b2
    t1 = t1
    t2 = t2
    Bills <- MCBills
    Transfers <- MCTransfers
    BillOf <- MCBillOf
    SendJob = send
    Jobs = {send}
    MaxFiles = 2
    MaxTries = 1
    MaxStops = 1
    Nothing = Nothing
SPECIFICATION LiveSpec
INVARIANT CancelOwnsTheQueue
PROPERTIES  SendEnds
CHECK_DEADLOCK FALSE
