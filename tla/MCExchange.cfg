SPECIFICATION Spec
CONSTANTS
    v1 = v1
    v2 = v2
    Paths = {p1}
    Methods = {get, post}
    Names = {n1, n2}
    Values = {v1, v2}
    Data <- MCData
    Lengths = {1}
    Needed = n1
    MaxRegistrations = 2
    MaxCalls = 3
    MaxSends = 2
INVARIANTS
    FirstEndpointLastHandler
    OnlyEndpointsAreGuarded
    GuardsAreHeard
    WrongLengthHasACause
PROPERTIES
    FirstSendArrives
