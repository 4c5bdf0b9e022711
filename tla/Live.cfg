SPECIFICATION LiveSpec
CONSTANTS
    Tables = {t1, t2}
    Main = main
    ParallelCopies = 1
    OkBatchLimit = 1
    BatchCollect = FALSE
    CarefulAdmin = TRUE
    MaxCommit = 1
    MaxTick = 8
    MaxFault = 1
    MaxAdmin = 0
PROPERTIES SyncsEventually EventsArrive
