SPECIFICATION FairSpec
CONSTANTS
    i1 = i1  i2 = i2  i3 = i3
    None = None
    Issue <- Issue2
    BlockedBy <- Blocked
    StateLimit <- NoLimit
    MaxConcurrent = 1
    MaxTurns = 1
    MaxDispatch = 2
    MaxChanges = 1
    Env = {"error", "silent", "stop"}
INVARIANT RunningWithinLimit
CHECK_DEADLOCK FALSE
PROPERTY RetryResolved
