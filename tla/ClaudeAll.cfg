SPECIFICATION FairSpec
CONSTANTS
    a1 = a1  a2 = a2
    Caller <- TwoCallers
    MaxTurns = 3
    MaxBudget = 4
    Scenarios <- TurnScenarios
INVARIANT OwnAnswer
INVARIANT ReportedOnce
INVARIANT SuppressionHolds
PROPERTY ResultsArePromises
PROPERTY AskReturns
CHECK_DEADLOCK FALSE
