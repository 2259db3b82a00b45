SPECIFICATION Spec
CONSTANTS
    i1 = i1  i2 = i2  i3 = i3
    None = None
    Issue <- Issue1
    BlockedBy <- Unblocked
    StateLimit <- NoLimit
    MaxConcurrent = 1
    MaxTurns = 2
    MaxDispatch = 3
    MaxChanges = 1
    Env = {"stall", "silent"}
INVARIANT TypeOK
INVARIANT MapsAgree
INVARIANT NoStrayWorker
INVARIANT WorkspaceKept
CHECK_DEADLOCK FALSE
