SPECIFICATION Spec
CONSTANTS
    i1 = i1  i2 = i2
    None = None
    Issue <- Issue1
    MaxConcurrent = 2
    MaxRuntimeFailures = 2
    MaxStartFailures = 2
    ForceCleanup = TRUE
    MaxChild = 2
    MaxMoves = 2
    Env = {"startError", "cleanupError", "hang", "stop", "restart"}
INVARIANT TypeOK
INVARIANT OneChildPerTree
INVARIANT TreeKept
INVARIANT LabelHeld
CHECK_DEADLOCK FALSE
