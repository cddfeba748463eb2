SPECIFICATION CSpec
CONSTANTS
    MaxGoals = 2
    MaxCalls = 2
    Skills <- MCSkills
    MaxStops = 1
    HasTimeout = TRUE
INVARIANTS AnswersOwnGoal
PROPERTIES CancelledGoalsEnd StoppedWaitsEnd
CHECK_DEADLOCK FALSE
