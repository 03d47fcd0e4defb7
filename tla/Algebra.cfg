CONSTANTS
    MaxIterations = 100
    MaxDerivativeDepth = 20
    MaxParts = 4
    MaxHopital = 4
    MaxPolyDeg = 8
    MaxRoot = 20
    Coeffs <- MCCoeffs
    Centers <- MCCenters
    Wider = {}
SPECIFICATION AlgebraSpec
INVARIANTS SimplifySound CalculusSound SolutionsSound
CHECK_DEADLOCK FALSE
