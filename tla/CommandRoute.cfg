CONSTANTS
    Drafts <- MCDrafts
    Scripts <- MCScripts
    Resubmitted = {1}
    Lifetime = 1
    Horizon = 1
    Retention = 0
    MaxPerDrain = 2
    MaxRuns = 3
    MaxDay = 2
    MaxFaults = 1
SPECIFICATION FairSpec
INVARIANTS RouteTypeOK NothingDroppedUnsettled
PROPERTIES ImplementsDecisions StrandedForGood EveryCommandSettles
CHECK_DEADLOCK FALSE
