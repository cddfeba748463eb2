SPECIFICATION LSpec
CONSTANTS
    MaxAsks = 2
    MaxSays = 1
    Dashboards <- MCDashboards
INVARIANTS AnswersOwnQuestion
PROPERTIES AskEnds ReleasedWaitsEnd
CHECK_DEADLOCK FALSE
