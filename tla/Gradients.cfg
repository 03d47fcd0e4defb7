CONSTANTS
    NParams = 2
    Kits <- AllKits
    MaxPasses = 2
    AnyShapes = FALSE
    AnyLoss = FALSE
SPECIFICATION Spec
INVARIANTS GradientExact RefsCoverHolders
CHECK_DEADLOCK FALSE
