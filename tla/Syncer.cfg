CONSTANTS
    Keys = {1, 2}
    Vals = {a, b}
    Absent = Absent
    Untouched = Untouched
    IgnoreLag = FALSE
    MaxCommit = 2
    MaxTick = 2
SPECIFICATION LiveSpec
INVARIANTS TypeOK IInv SnapshotsAgree FixesExact RepairConverges
PROPERTIES CleanRowsKept LockReleased
CHECK_DEADLOCK FALSE
