CONSTANTS
    NParams = 2
    Kits <- AllKits
    MaxPasses = 2
    AnyShapes = TRUE
    AnyLoss = FALSE
SPECIFICATION Spec
INVARIANTS GradientExact
CHECK_DEADLOCK FALSE
