SPECIFICATION FairSpec
CONSTANTS
    Day = 3
    Change = 44
    Shift = 1
    Jobs = {j1}
    Lead = 1
    MaxTime = 47
CHECK_DEADLOCK FALSE
INVARIANTS
    PointsAreNext
    NeverEarly
PROPERTIES
    JobsRun
