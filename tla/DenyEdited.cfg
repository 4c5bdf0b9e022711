SPECIFICATION Spec
CONSTANTS
  Table = {t1, t2}
  Main = main
  Copy = {c}
  Filter = {f1, f2}
  None = none
  MaxFault = 1
  MaxChange = 1
  Running = TRUE
  AsMarked = TRUE
INVARIANT Enforced
CHECK_DEADLOCK FALSE
