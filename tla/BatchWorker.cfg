CONSTANTS
    Intents = {i1}
    Jobs = {j1}
    Amounts = {1}
    Evidence = {e1}
    Limits <- MCLimits
    MaxIntents = 1
    MaxDay = 2
    DaysPerMonth = 9
    Workers = {w1, w2, w3}
    OwnerOf <- MCTwoOwners
    Batches = {b1, b2}
    Garbage = {g1}
    LeaseTime = 1
    UsefulUntil = 2
    MaxLeases = 3
    MaxReceipts = 2
SPECIFICATION BatchSpec
INVARIANTS BatchTypeOK CreatedOnceAndCharged DoubtIsShared
PROPERTIES ViewNeverGoesBack
CHECK_DEADLOCK FALSE
