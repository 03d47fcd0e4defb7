SPECIFICATION Spec
CONSTANTS
    MaxTasks = 1
    Threshold = 64
    Acts = {"worker"}
    Ctxs = {}
    Prios = {1}
    Cancels = {}
INVARIANT WorkersComplete
CHECK_DEADLOCK FALSE
