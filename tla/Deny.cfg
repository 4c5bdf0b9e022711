SPECIFICATION LiveSpec
CONSTANTS
  Table = {t1, t2}
  Main = main
  Copy = {c}
  Filter = {f1, f2}
  None = none
  MaxFault = 1
  MaxChange = 1
  Running = FALSE
  AsMarked = TRUE
INVARIANTS Recorded Enforced
PROPERTIES Settled
CHECK_DEADLOCK FALSE
