CONSTANTS
    Intents = {i1, i2}
    Jobs = {j1, j2}
    Amounts = {1}
    Evidence = {e1}
    Limits <- MCLimits
    MaxIntents = 2
    MaxDay = 1
    DaysPerMonth = 9
    Workers = {w1}
    OwnerOf <- MCOneOwner
    Batches = {b1, b2}
    Garbage = {}
    LeaseTime = 1
    UsefulUntil = 2
    MaxLeases = 2
    MaxReceipts = 2
SYMMETRY MCSymmetry
SPECIFICATION BatchSpec
INVARIANTS ReportedIsUndisputed
CHECK_DEADLOCK FALSE
