CONSTANTS
    Obj = {o1, o2, o3}
    Edge = {e1}
    GcInterval = 2
    LeaseMs = {1}
    Margin = 1
    Pressures = {0}
    DeferredMax = 1
    CacheHits = {}
    MaxHolds = 1
    MaxInEdges = 1
    MaxTime = 1
    MaxNodes = 2
    Vpts = 2
    Hashes = {0, 1, 2, 3, 4}
    Keys = {1, 4}
    NodeCap = 1
    LinksLeased = FALSE
    MaxDrift = 1
    Values = {"x", "y", "z"}
    HashOf = {0, 3}
    InitCap = 2
    MaxLen = 3
    Texts <- ListTexts
    MaxList = 3
    MaxDim = 3
    Dims = {1, 2, 3}
    AnyLists = FALSE
SPECIFICATION MCSpec
SYMMETRY MCSymmetry
INVARIANTS HeldUnexpiredIsLive ListsSound LinearAlgebraSound TensorsAgree
PROPERTY KeepsContainer
CHECK_DEADLOCK FALSE
