SPECIFICATION FairSpec
CONSTANTS
    n1 = n1  n2 = n2  c1 = c1
    Worker <- TwoWorkers
    Client <- OneClient
    Scenarios <- AllScenarios
    TmuxExitOnQuit = FALSE
PROPERTY DeliveriesAgree
PROPERTY RecordKept
PROPERTY SessionIsFollowed
CHECK_DEADLOCK FALSE
