SPECIFICATION SpecCascade
CONSTANTS
  Depth = 3
  Table = {t1, t2}
  Seqs = {s}
  MaxEvent = 3
  MaxCmd = 2
  Careful = TRUE
SYMMETRY TableSymmetry
INVARIANTS TypeOK SetsAgree NeverBlocked VersionExact
PROPERTIES Kept
CHECK_DEADLOCK FALSE
