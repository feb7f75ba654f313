SPECIFICATION FairScanSpec
CONSTANTS
    RootScans <- RootCalls
    PositionScans <- PositionCalls
    RootInterval = 3
    PositionInterval = 2
    Deployed = 1
    MaxHead = 9
INVARIANTS
    ScanTypeOK
    FindsNewestRoot
    StartsBeforeNewestRoot
PROPERTIES
    ScansEnd
CHECK_DEADLOCK FALSE
