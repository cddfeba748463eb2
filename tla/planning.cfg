SPECIFICATION MCSpec
CONSTANTS
    cup = cup
    pen = pen
    table = table
    shelf = shelf
    drawer = drawer
    kitchen = kitchen
    hello = hello
    take = take
    none = none
    Object = {cup}
    Place = {table, shelf}
    None = none
    TaskPlaces = {table}
    ClarifyRounds = 2
    Samples = 2
    Retries = 1
    Reasks = 1
    Confirms = 2
    ConfirmTask = FALSE
    Budget = 6
    Thing = {cup, pen}
    Spot = {table, shelf, drawer}
    Container = {drawer}
    Named = {kitchen, hello, take}
    PlanActions <- MCPlanActions
    Foreign = {"Fly"}
    Unbindable = {}
    Tasks <- MCTasks
    Worlds <- MCWorlds
    Plans <- MCPlans
    Edits <- MCEdits
    Fresh <- MCFresh
    DeliveryText = take
    GateBudget = 6
    Spent = {1, 5}
    EditRounds = 3
    EditReserve = 6
    Sought = {cup}
    Env <- MCEnv
    Containers <- MCContainers
    CanOpen = TRUE
    Sightings <- MCSightings
    Habits <- MCHabits
    Rankings <- MCRankings
    SearchMax = 2
    MaxReplans = 2
INVARIANTS HeardIsConfirmed DoubtsAreConfirmed CertifiedPlansWork TidyIsHarmless EditsLeaveReserve SteeredPlansRun GivesUpLast
PROPERTIES TalkEnds
CHECK_DEADLOCK FALSE
