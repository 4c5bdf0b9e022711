SPECIFICATION SpecCopiedEmpty
CONSTANTS
    Tables = {t1, t2}
    Main = main
    ParallelCopies = 2
    OkBatchLimit = 1
    BatchCollect = TRUE
    CarefulAdmin = TRUE
    MaxCommit = 0
    MaxTick = 4
    MaxFault = 0
    MaxAdmin = 0
PROPERTIES HandOverAligned
SYMMETRY TableSymmetry
