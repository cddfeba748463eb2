SPECIFICATION MCSpec
CONSTANTS
    c1 = c1
    Client = {c1}
    MaxRuns = 2
    MaxSections = 1
    Fragile = {1}
PROPERTIES LeftBehindSendsNothing
CHECK_DEADLOCK FALSE
