SPECIFICATION SpecMissing
CONSTANTS
    Tables = {t1, t2}
    Main = main
    ParallelCopies = 1
    OkBatchLimit = 1
    BatchCollect = FALSE
    CarefulAdmin = TRUE
    MaxCommit = 2
    MaxTick = 5
    MaxFault = 0
    MaxAdmin = 0
INVARIANTS CopiesBounded
PROPERTIES KeepsPromise
SYMMETRY TableSymmetry
