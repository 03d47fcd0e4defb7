SPECIFICATION Spec
CONSTANTS
    Storms = {"ZERO", "LOCK"}
    AnyStorm = "ANY"
    Clauses = {{"ZERO"}, {"ANY"}}
    Handles = {"h1"}
    Objects = {"o"}
    ExitMax = 1
    MaxFrames = 3
    MaxDepth = 5
    Uses = {}
INVARIANTS HeadIsOpen StormsDelivered StormsPassedOn HandlesFreedOnce CalmOnce
CHECK_DEADLOCK FALSE
