SPECIFICATION FairSpec
CONSTANTS
    l1 = l1
    l2 = l2
    Loops <- OneLoop
    MaxIndex = 5
    MaxInvalidSanity = 1
    MaxPending = 2
    Events <- SingleEvents
INVARIANTS
    TypeOK
    NeverRejected
    NoBlockDropped
PROPERTIES
    DerivedGetsProposed
