SPECIFICATION FairSpec
CONSTANTS
    Threads = {t1, t2, t3}
    Conns = {c1, c2, c3}
    MaxIdle = 2
    MaxIdleTime = None
    MaxConns = 2
    PoolTimeout = TRUE
    None = None
INVARIANTS
    OpenCap
PROPERTIES
    CallsReturn
    CloseIsFinal
