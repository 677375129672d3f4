SPECIFICATION FairSpec
CONSTANTS
    Threads = {t1, t2}
    Conns = {c1, c2, c3}
    PoolSize = 1
    UsesSchema = TRUE
    MaxCalls = 1
    MaxFaults = 2
    Nobody = Nobody
    NoConn = NoConn
PROPERTIES
    QueriesReturn
