SPECIFICATION MCSpec
CONSTANTS
    owner = owner
    guest = guest
    table = table
    drawer = drawer
    cup = cup
    Place = {table, drawer}
    Container = {drawer}
    Object = {cup}
    None = None
    Thing = Thing
    Torn = Torn
    Readable = {}
    Refutable = {"Place"}
    MaxSteps = 2
    MaxEvents = 1
    Client <- MCClient
    NoClient = NoClient
    RolePriority <- MCPriority
    MaxRuns = 2
    MaxFinished = 0
    MaxPending = 1
    MaxFrames = 1
    Fragile = {1}
INVARIANTS FramesOfLiveRuns ActsThere
PROPERTIES ImplementsRobotRuns RolesAlwaysRespected
CHECK_DEADLOCK FALSE
