SPECIFICATION FairSpec
CONSTANTS
    Threads = {t1, t2}
    Descriptors = {d1}
    Posts = {p1}
    Outside = Outside
    None = None
    MaxArrivals = 2
INVARIANTS
    WorkIsCounted
    IdleThreadIsCalled
    EventsKept
PROPERTIES
    KeepsThePromise
    NothingWaitsForEver
    StopEndsTheLoop
