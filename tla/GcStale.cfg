SPECIFICATION SpecMissing
CONSTANTS
    Tables = {t1}
    Main = main
    ParallelCopies = 1
    OkBatchLimit = 3
    BatchCollect = FALSE
    CarefulAdmin = FALSE
    MaxCommit = 1
    MaxTick = 7
    MaxFault = 0
    MaxAdmin = 1
PROPERTIES SnapshotOutlived
