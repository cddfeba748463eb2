SPECIFICATION Spec
CONSTANTS
    cup = cup
    table = table
    shelf = shelf
    drawer = drawer
    None = none
    Object = {cup}
    Place <- MCPlace
    Containers <- MCContainers
    CanOpen = TRUE
    Sightings <- MCSightings
    Habits <- MCHabits
    Rankings <- MCRankings
    SearchMax = 2
    MaxReplans = 2
INVARIANTS NoLookTwice
CHECK_DEADLOCK FALSE
