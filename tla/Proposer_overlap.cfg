SPECIFICATION Spec
CONSTANTS
    l1 = l1
    l2 = l2
    Loops <- TwoLoops
    MaxIndex = 3
    MaxInvalidSanity = 0
    MaxPending = 1
    Events <- OperatorEvents
INVARIANTS
    StoreOK
    DataAvailable
    RootsInFlightAvailable
SYMMETRY LoopSymmetry
