SPECIFICATION FairSpec
CONSTANTS
    Jobs = {j1, j2}
    Callers = {c1, c2}
    Conns = {s1}
    NoConn = NoConn
    MaxJobs = 1
    MaxParallelism = 1
    MaxRetries = 0
    MaxGeneration = 2
    MaxUnwinding = 1
INVARIANTS
    DisconnectIsFinal
    DrainedIsIdle
PROPERTIES
    HistoryIsKept
    StopIsHonoured
    DisconnectDrains
CHECK_DEADLOCK FALSE
