SPECIFICATION SpecSync
CONSTANTS
    Tables = {t1}
    Main = main
    ParallelCopies = 1
    OkBatchLimit = 1
    BatchCollect = FALSE
    CarefulAdmin = TRUE
    MaxCommit = 2
    MaxTick = 6
    MaxFault = 1
    MaxAdmin = 1
INVARIANTS TypeOK IInv AppliedOnce ExactPrefix
PROPERTIES SnapshotOutlived HandOverAligned OwnerOnly
