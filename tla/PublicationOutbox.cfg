CONSTANTS
    Drafts = {d1, d2}
    Events = {e1}
    Texts = {t1}
    EventOf <- MCOneEvent
    Epochs <- MCEpochs
    Serialized = TRUE
    MaxRev = 1
    MaxDec = 3
    MaxIntents = 1
    MaxAttempts = 2
    MaxFaults = 1
SYMMETRY MCSymmetry
SPECIFICATION Spec
PROPERTIES ImplementsOutbox
CHECK_DEADLOCK FALSE
