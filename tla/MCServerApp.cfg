SPECIFICATION FairSpec
CHECK_DEADLOCK FALSE
CONSTANTS
    Workers = {w1}
    Main = main
    Ports = {https}
    Tls = {https}
    Sessions = {s1, s2}
    Silent = {s1}
    MaxRequests = 2
    MaxFailures = 1
    None = None
INVARIANTS
    ServesUntilStopped
    OneOfEach
    OrderlyEnd
PROPERTIES
    ClientsServed
    StopEndsTheProgram
    UsesTheLoop
