SPECIFICATION Spec
CONSTANTS
    small = small
    middle = middle
    large = large
    Nil = Nil
    Keys = {k1, k2, k3}
    Values <- MCValues
    KeySize <- MCKeySize
    ValueSize <- MCValueSize
    Capacity = 6
    TTLs <- MCTTLs
    TicksPerMs = 2
    TimeMax = 99
    MaxTime = 3
INVARIANTS
    Consistent
    CapacityAtRest
    PruneMissesNothing
PROPERTIES
    SetKeepsItsKey
    Refines
