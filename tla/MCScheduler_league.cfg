SPECIFICATION Spec
CONSTANTS
    Day = 4
    Change = 0
    Shift = 0
    Jobs = {}
    Lead = 0
    MaxTime = 30
CHECK_DEADLOCK FALSE
INVARIANT LeagueLastsItsPeriod
