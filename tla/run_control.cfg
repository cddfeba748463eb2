SPECIFICATION MCSpec
CONSTANTS
    c1 = c1
    Client = {c1}
    MaxRuns = 2
    MaxSections = 2
    Fragile = {1}
PROPERTIES SectionsRespected NoSendAfterStop CancelsCarriedOut CancelsEndRuns
CHECK_DEADLOCK FALSE
