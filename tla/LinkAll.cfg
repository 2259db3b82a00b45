SPECIFICATION Spec
CONSTANTS
    Tab = {t1, t2}
    Scenarios <- Few
INVARIANT StreamsAgree
PROPERTY LinkRecovers
CHECK_DEADLOCK FALSE
