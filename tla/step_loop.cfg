SPECIFICATION FairSpec
CONSTANTS
    a = a
    b = b
    p = p
    q = q
    Object <- MCOneObject
    Place <- MCPlace
    NoObject = NoObject
    NoPlace = NoPlace
    Stranger = Stranger
    Task <- MCTask
    Failure <- MCFailure
    MaxReplans = 2
    PickRetries = 0
    SearchMax = 0
    MaxChanges = 1
    MaxPauses = 1
INVARIANTS SuccessEarned PlannedPickLooksFirst
PROPERTIES RunEnds
CHECK_DEADLOCK FALSE
