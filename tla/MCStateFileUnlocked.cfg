SPECIFICATION Spec
CONSTANTS
  Writer = {w1, w2}
  Inode = {i1, i2, i3}
  None = None
  Torn = Torn
  Empty = Empty
  MutexHeld = FALSE
  EmptyIsFresh = TRUE
  MaxUpdates = 4
SYMMETRY Symmetry
INVARIANTS
  AckedDurable
CHECK_DEADLOCK FALSE
