SPECIFICATION LiveSpec
CONSTANTS
  Part = {1, 2, 3}
  Parallel = 2
  NBlock = 3
  MaxFault = 2
  AnyFault = FALSE
  LateWorkers = FALSE
INVARIANTS TypeOK CopyWhole ObjectsKept FkeysWhole
PROPERTIES AllCopied
CHECK_DEADLOCK FALSE
