SPECIFICATION SpecNew
CONSTANTS
  Depth = 3
  Table = {t1, t2}
  Seqs = {s}
  MaxEvent = 3
  MaxCmd = 2
  Careful = TRUE
SYMMETRY TableSymmetry
INVARIANT SetsEqual
CHECK_DEADLOCK FALSE
