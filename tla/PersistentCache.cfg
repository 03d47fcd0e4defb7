SPECIFICATION Spec
CONSTANTS
    Obj = {o1, o2}
    Edge = {e1}
    GcInterval = 2
    LeaseMs = {2}
    Margin = 1
    Pressures = {0}
    DeferredMax = 1
    CacheHits = {"kept"}
    MaxHolds = 1
    MaxInEdges = 1
    MaxTime = 2
PROPERTY GcKeepsLiveLeases
CHECK_DEADLOCK FALSE
