SPECIFICATION Spec
CONSTANTS
    Threads = {t1, t2, t3}
    Conns = {c1, c2, c3, c4}
    MaxIdle = 2
    MaxIdleTime = 1
    MaxConns = 2
    PoolTimeout = FALSE
    None = None
SYMMETRY Symmetry
INVARIANTS
    OpenCap
