SPECIFICATION Spec
CONSTANTS
  Part = {1}
  Parallel = 2
  NBlock = 2
  MaxFault = 1
  AnyFault = FALSE
  LateWorkers = FALSE
INVARIANT ObjectsBack
CHECK_DEADLOCK FALSE
