CONSTANTS
    Task = {t1, t2}
    Scenarios <- AllScenarios
SPECIFICATION FairSpec
PROPERTY OutcomeIsTrue
PROPERTY GraceIsOwed
PROPERTY TurnEnds
CHECK_DEADLOCK FALSE
