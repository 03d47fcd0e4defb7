SPECIFICATION MCSpec
CONSTANTS
    Obj = {o1, o2, o3}
    Edge = {e1, e2}
    GcInterval = 2
    LeaseMs = {2}
    Margin = 1
    Pressures = {0, 85, 90}
    DeferredMax = 1
    CacheHits = {"kept"}
    MaxHolds = 1
    MaxInEdges = 2
    MaxTime = 2
    AuditCap = 3
    BaseCap = 4
    Limit = 10
    Align = 2
    EscMax = 1
    LowScopes = 2
    Sizes = {1, 5}
    Nested = TRUE
    Moves = TRUE
    MaxAllocs = 3
    MaxScopes = 2
    Vars = {"a", "b"}
    Blocks = 2
    DblSlots = 2
    Aliases = FALSE
    FreesStatic = FALSE
    MaxTexts = 5
    MaxDoubles = 2
SYMMETRY MCSymmetry
INVARIANTS TypeOK Accounting UsableIsLive QueueIsLive
INVARIANTS IntactUntilRewind EmptyAfterReturn AuditVerifies TextKept
PROPERTY GcCollectsGarbage
CHECK_DEADLOCK FALSE
