SPECIFICATION Spec
CONSTANTS
    Keys = {k1, k2}
    Vals = {a, b}
    Absent = Absent
    SqlLimit = 2
    BulkStatements = TRUE
    MergedKeyOnly = FALSE
    MaxEvent = 4
    MaxFail = 1
INVARIANTS Exact
CHECK_DEADLOCK FALSE
SYMMETRY KeySymmetry
