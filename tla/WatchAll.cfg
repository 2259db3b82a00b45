SPECIFICATION Spec
CONSTANTS
    Settings <- Few
    Scenarios <- Some
    MaxFailures = 2
    MaxFlat = 1
    MaxCommits = 3
INVARIANT CountersKept
INVARIANT BrakesHold
INVARIANT FeedbackReachesAgent
CHECK_DEADLOCK FALSE
