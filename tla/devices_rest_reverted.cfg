SPECIFICATION Spec
CONSTANTS
    x = x
    y = y
    z = z
    v1 = v1
    s1 = s1
    t1 = t1
    boot = boot
    Conn = {x, y, z}
    Value = {v1}
    Bot = {x, y}
    Model = {z}
    NoConn = NoConn
    NoDoc = NoDoc
    Site = {s1}
    BootSite = s1
    Thread = {t1}
    Async = FALSE
    MaxCalls = 2
    MaxOthers = 1
PROPERTIES RestIsKept
CHECK_DEADLOCK FALSE
