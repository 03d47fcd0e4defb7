CONSTANTS
    StackMax = 4
    PoolCap = 1
    PoolMax = 2
    Heartbeat = 1
    Response = 1
    VecCap = 1
    VecMax = 3
    Chunks = {0, 3, 7}
    AnyNesting = FALSE
    MaxDepth = 4
    MaxTime = 3
SPECIFICATION Spec
INVARIANTS BoundaryKept WorkersQuiet
PROPERTY GrantsFollowInnermost
CHECK_DEADLOCK FALSE
