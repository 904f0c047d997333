CONSTANTS
    Drafts = {d1}
    Events = {e1}
    Texts = {t1}
    EventOf <- MCOneEvent
    Epochs <- MCTwoEpochs
    Serialized = TRUE
    MaxRev = 1
    MaxDec = 4
    MaxIntents = 2
    MaxAttempts = 2
    MaxFaults = 1
SPECIFICATION FairSpec
INVARIANTS EvidenceBeforeEgress
PROPERTIES RetiredForGood ReceiptReachesDraft
CHECK_DEADLOCK FALSE
