SPECIFICATION Spec
CONSTANTS
  Table = {t1}
  Main = main
  Copy = {c}
  Filter = {f1}
  None = none
  MaxFault = 1
  MaxChange = 0
  Running = FALSE
  AsMarked = FALSE
INVARIANT Recorded
CHECK_DEADLOCK FALSE
