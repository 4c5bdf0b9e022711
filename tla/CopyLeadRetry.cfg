SPECIFICATION Spec
CONSTANTS
  Part = {1, 2}
  Parallel = 1
  NBlock = 1
  MaxFault = 1
  AnyFault = TRUE
  LateWorkers = FALSE
INVARIANT CopyWhole
CHECK_DEADLOCK FALSE
