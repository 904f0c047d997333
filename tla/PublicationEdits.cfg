CONSTANTS
    Drafts = {d1}
    Events = {e1}
    Texts = {t1, t2}
    EventOf <- MCOneEvent
    Epochs <- MCNoEpochs
    Serialized = FALSE
    MaxRev = 2
    MaxDec = 5
    MaxIntents = 2
    MaxAttempts = 2
    MaxFaults = 1
SPECIFICATION Spec
INVARIANTS EvidenceBeforeEgress AtMostOncePerEvent AuthorityAtSend MergeKeepsEvidence
PROPERTIES AuthorityOnlyByNewDecision
CHECK_DEADLOCK FALSE
