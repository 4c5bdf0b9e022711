SPECIFICATION Spec
CONSTANTS
    Keys = {k1, k2}
    Vals = {a, b}
    Absent = Absent
    SqlLimit = 2
    BulkStatements = FALSE
    MergedKeyOnly = FALSE
    MaxEvent = 4
    MaxFail = 1
INVARIANTS TypeOK Exact NoConflict
CHECK_DEADLOCK FALSE
SYMMETRY KeySymmetry
