CONSTANTS
    e1 = e1
    e2 = e2
    o1 = o1
    o2 = o2
    f1 = f1
    f2 = f2
    f3 = f3
    m1 = m1
    m2 = m2
    v1 = v1
    v2 = v2
    Executors <- MCExecutors
    Owners <- MCOwners
    OwnerOf <- MCOwnerOf
    Files <- MCFiles
    MeaningOf <- MCMeaningOf
    Views <- MCViews
    Fitting <- MCFitting
    Allowance = 3
    LeaseTime = 1
    ReadBudget = 0
    DayLength = 2
    UsefulUntil = 3
    MaxTime = 3
SYMMETRY MCSymmetry
SPECIFICATION ChecksSpec
INVARIANTS ChecksTypeOK ExecutedOnceInOrder ChecksAreOfTheChoice
PROPERTIES RecordedStays NothingOnDisputedEvidence
CHECK_DEADLOCK FALSE
