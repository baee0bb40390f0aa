SPECIFICATION LogSpec
CONSTANTS
  d1 = d1
  d2 = d2
  Removers <- TwoRemovers
  MaxBytes = 4
  CAP = 3
  FLUSH = 2
SYMMETRY SymRemovers
INVARIANTS EntriesAreWhole DeletedStaysGone
CHECK_DEADLOCK FALSE
