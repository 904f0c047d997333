CONSTANTS
    Intents = {i1}
    MaxActive = 1
    MaxAttempts = 5
    MaxDispatches = 1
    MaxActivation = 2
    MaxFaults = 3
SPECIFICATION FairSpec
INVARIANTS NoBlindResend RunsAreJournaled
PROPERTIES EveryEntryMovesOn
