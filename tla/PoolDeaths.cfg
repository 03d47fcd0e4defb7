SPECIFICATION Spec
CONSTANTS
    Slots = 2
    PoolCap = 1
    PoolMax = 2
    BigArgs = FALSE
    Faults = {"idledeath", "fork"}
    MaxCalls = 2
    MaxTicks = 0
    MaxSpawn = 8
INVARIANTS ReadyIdleIsQuiet
PROPERTY KeepsPromise
CHECK_DEADLOCK FALSE
