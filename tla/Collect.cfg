SPECIFICATION SpecCopied
CONSTANTS
    Tables = {t1}
    Main = main
    ParallelCopies = 1
    OkBatchLimit = 1
    BatchCollect = TRUE
    CarefulAdmin = TRUE
    MaxCommit = 2
    MaxTick = 6
    MaxFault = 1
    MaxAdmin = 0
INVARIANTS IInv CollectedPrefix SyncTickMet
