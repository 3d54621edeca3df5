SPECIFICATION FairSpec
CONSTANTS
    Tasks = {t1, t2, t3}
    Conns = {c1, c2, c3}
    MaxIdle = 2
    MaxIdleTime = 0
    MaxConns = 2
    PoolTimeout = TRUE
    None = None
INVARIANTS
    ExclusiveOwner
    NothingElseLeaks
    PermitsConserved
    NoPermitIdles
    OwnedCap
PROPERTIES
    CallsReturn
