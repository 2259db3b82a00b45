SPECIFICATION FairSpec
CONSTANTS
    i1 = i1  i2 = i2
    None = None
    Issue <- Issue2
    MaxConcurrent = 1
    MaxRuntimeFailures = 1
    MaxStartFailures = 1
    ForceCleanup = FALSE
    MaxChild = 2
    MaxMoves = 0
    Env = {"claimError", "stop"}
INVARIANT WithinLimit
INVARIANT IssuesSettle
PROPERTY LoopIsWoken
CHECK_DEADLOCK FALSE
