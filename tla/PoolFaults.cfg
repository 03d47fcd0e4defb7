SPECIFICATION FairSpec
CONSTANTS
    Slots = 2
    PoolCap = 1
    PoolMax = 2
    BigArgs = FALSE
    Faults = {"crash", "fork", "pipe"}
    MaxCalls = 2
    MaxTicks = 1
    MaxSpawn = 8
PROPERTY CallReturns
INVARIANTS NoneBusyBetweenCalls
PROPERTY KeepsPromise
CHECK_DEADLOCK FALSE
