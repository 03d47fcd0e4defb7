SPECIFICATION MCSpec
CONSTANTS
    MaxTasks = 4
    Threshold = 64
    Acts = {"a", "b"}
    Ctxs = {"c"}
    Prios = {1}
    Cancels = {"step"}
    ModeTasks = 7
    ModeThreshold = 1
    ModePrios = {0, 1}
INVARIANTS AwaitMatched ScheduledIsLive PlacedOnce PqIsHeap
PROPERTY TasksEnd
CHECK_DEADLOCK FALSE
