SPECIFICATION Spec
CONSTANTS
    Jobs = {j1, j2, j3}
    Callers = {c1}
    Conns = {s1}
    NoConn = NoConn
    MaxJobs = 2
    MaxParallelism = 2
    MaxRetries = 1
    MaxGeneration = 2
    MaxUnwinding = 1
SYMMETRY Symmetry
INVARIANTS
    CountersExact
    NoLostPump
CHECK_DEADLOCK FALSE
