SPECIFICATION FairRollupSpec
CONSTANTS
    Loops <- OneLoop
    MaxIndex = 3
    MaxInvalidSanity = 0
    MaxPending = 1
    Events <- RollupEvents
    MaxFaults = 1
    MaxTakenBack = 2
INVARIANTS
    RollupTypeOK
    RootsBacked
    FallbackNeverRuns
PROPERTIES
    EveryBlockProposed
