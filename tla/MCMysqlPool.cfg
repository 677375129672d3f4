SPECIFICATION Spec
CONSTANTS
    Threads = {t1, t2}
    Conns = {c1, c2, c3, c4}
    PoolSize = 1
    UsesSchema = TRUE
    MaxCalls = 2
    MaxFaults = 2
    Nobody = Nobody
    NoConn = NoConn
SYMMETRY Symmetry
INVARIANTS
    ConnectionsAccounted
    PoolIsCurrent
    NoLostWakeup
    GrowthBounded
    OneFailureCostsOneOpening
