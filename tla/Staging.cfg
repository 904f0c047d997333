CONSTANTS
    Fields = {"f"}
    Cap = 2
    Window = 1
    Serial <- MCSerial
    Concurrent <- MCConcurrent
    Budget = 1
    MaxWorkers = 2
    BreakerN = 3
    Unreliable = {"a"}
    ScriptsOf <- MCScriptsOf
    MaxDay = 2
    Seen <- MCSeen
SPECIFICATION StagingSpec
INVARIANTS StagingTypeOK LiveIsSerial RefusedForCause LateIsDiscarded
PROPERTIES StageEnds
CHECK_DEADLOCK FALSE
