SPECIFICATION PartSpec
CONSTANTS
    Sessions = {"s1", "s2"}
    Tasks = {"t1", "t2"}
    Outs = {"o1", "o2"}
    UpTask = "t1"
    UpOut = "o1"
    UpUni = "up"
    HasUpstream = FALSE
    ReadAuthRequired = TRUE
    Creds = {"write"}
    MaxFails = 0
    MaxReports = 2
    Callers = {"c1", "c2"}
    Workers = {"w1"}
    Waiters = {}
    Items = {"i1"}
    MaxConns = 2
    QueueSize = 1
    Legs = {1}
    MaxFaults = 1
    Keys = {"k1", "k2"}
    Flushers = {"tick", "now"}
    Cap = 2
    Staleness = 1
    MaxTime = 2
    MaxFlushFails = 1
    MaxFlushes = 2
INVARIANTS
    EqualOutputsConverge
    
    PoolIsSound
    ReadsReachTheTable
PROPERTIES
    HashservStepsAreSound
