SPECIFICATION SpecMissing
CONSTANTS
    Tables = {t1}
    Main = main
    ParallelCopies = 1
    OkBatchLimit = 1
    BatchCollect = FALSE
    CarefulAdmin = FALSE
    MaxCommit = 0
    MaxTick = 4
    MaxFault = 0
    MaxAdmin = 1
INVARIANTS NoMutualWait
