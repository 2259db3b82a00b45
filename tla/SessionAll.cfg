SPECIFICATION Spec
CONSTANTS
    r1 = r1  r2 = r2  r3 = r3
    o1 = o1  o2 = o2  o3 = o3
    c1 = c1  c2 = c2
    None = None
    Run <- Runs2
    Obj <- Obj2
    Caller <- Caller2
    Env = {"delegator", "restart", "delete"}
SYMMETRY Symmetry
INVARIANT TypeOK
INVARIANT OneLoopPerSession
INVARIANT SessionIsServed
INVARIANT StoreIsRight
CHECK_DEADLOCK FALSE
