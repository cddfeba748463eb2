SPECIFICATION Spec
CONSTANTS
    Place = {table, drawer}
    Container = {drawer}
    Object = {cup}
    None = none
    Thing = thing
    Torn = torn
    Readable = {}
    Refutable = {"Place"}
    MaxSteps = 2
    MaxEvents = 1
INVARIANTS SensorMeansRead
CHECK_DEADLOCK FALSE
