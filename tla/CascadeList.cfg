SPECIFICATION SpecNew
CONSTANTS
  Depth = 3
  Table = {t1, t2}
  Seqs = {s}
  MaxEvent = 3
  MaxCmd = 2
  Careful = FALSE
SYMMETRY TableSymmetry
INVARIANT SetsAgree
CHECK_DEADLOCK FALSE
