SPECIFICATION MCSpec
CONSTANTS
    p1 = p1
    p2 = p2
    k1 = k1
    k2 = k2
    v1 = v1
    t1 = t1
    t2 = t2
    a = a
    b = b
    c = c
    d = d
    r1 = r1
    r2 = r2
    lab = lab
    home = home
    None = None
    Process = {p1, p2}
    Machines <- MCMachines
    Key = {k1, k2}
    Value = {v1}
    MaxEdits = 3
    MaxFaults = 1
    NoValue = NoValue
    NoDoc = NoDoc
    Torn = Torn
    Thread <- MCThread
    MaxServers = 2
    Pools <- MCPools
    Recovering = {2}
    Spelling = {a, b, c, d}
    Norm <- TwoSpellings
    Configs = {{a}, {a, b}}
    MaxCalls = 2
    MaxAliases = 1
    MaxChanges = 3
    Package = {r1, r2}
    Identifier <- Words
    Site = {lab, home}
    Default = home
    Start <- MCStart
    MaxTools = 2
SYMMETRY Symmetry
INVARIANTS OneCopyWhole OrderRight
PROPERTIES SaveMerges RecoveredStaysUsed EditsKeepPlans OthersStay
CHECK_DEADLOCK FALSE
