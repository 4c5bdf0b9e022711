CONSTANTS
    Keys = {1, 2}
    Vals = {a}
    Absent = Absent
    Untouched = Untouched
    IgnoreLag = FALSE
    MaxCommit = 2
    MaxTick = 2
SPECIFICATION NoTickerSpec
PROPERTIES LockReleased
CHECK_DEADLOCK FALSE
