CONSTANTS
    Intents = {i1, i2, i3}
    Jobs = {j1, j2}
    Amounts = {0, 1, 2}
    Evidence = {e1}
    Limits <- MCLimits
    MaxIntents = 3
    MaxDay = 2
    DaysPerMonth = 2
SYMMETRY MCSymmetry
SPECIFICATION Spec
INVARIANTS ExposureWithinAllowance GrantedOnceAndCharged
PROPERTY OverrunStopsSpending
CHECK_DEADLOCK FALSE
