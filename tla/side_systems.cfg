SPECIFICATION MCSpec
CONSTANTS
    move = move
    grab = grab
    tidy = tidy
    day = day
    loop = loop
    ghost = ghost
    none = none
    unbound = unbound
    c1 = c1
    c2 = c2
    Client <- MCClient
    MaxPauses = 2
    MaxTasks = 1
    Observers = {"observer"}
    MaxProgress = 1
    MaxCalls = 1
    MaxVisits = 2
    MaxFrames = 1
    Kinds = {"topic", "webrtc", "ondemand"}
    MaxSends = 4
    MaxConnects = 4
    Uses <- MCUses
    Code = {move, grab}
    Agent = {move}
    Names = {move, grab, tidy, day, loop, ghost, none, unbound}
    Skills <- MCSkills
    Commands <- MCCommands
    Plans <- MCPlans
    NoOp = none
    Unbindable = unbound
    MaxDepth = 3
    MaxReplans = 2
INVARIANTS NoStepFromCancelledHold OneWorker AnswersOwnRequest NoFailureHidden
PROPERTIES ResumeReconciled ObserversEnd ViewerServed EstopEnds PlanEnds
CHECK_DEADLOCK FALSE
