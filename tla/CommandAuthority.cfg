CONSTANTS
    Drafts = {d1, d2}
    Texts = {t1, t2}
    Actors = {a1}
    Ids = {1, 2, 3}
    Initial <- MCInitial
    Choices <- MCChoices
    Epochs = {1}
    Lifetime = 1
    MaxSent = 3
    MaxTime = 1
    MaxRev = 3
SPECIFICATION AuthoritySpec
INVARIANTS AuthorityTypeOK ApprovedAsSeen ResultsInOrder
PROPERTIES ImplementsDecisions
CHECK_DEADLOCK FALSE
