SPECIFICATION SpecCopiedEmpty
CONSTANTS
    Tables = {t1, t2}
    Main = main
    ParallelCopies = 2
    OkBatchLimit = 1
    BatchCollect = FALSE
    CarefulAdmin = TRUE
    MaxCommit = 0
    MaxTick = 6
    MaxFault = 0
    MaxAdmin = 0
PROPERTIES OwnerOnly
SYMMETRY TableSymmetry
