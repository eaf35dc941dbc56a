SPECIFICATION MCSpec
CONSTANTS
  None = None
  c1 = c1
  c2 = c2
  u1 = u1
  u2 = u2
  Client = {c1, c2}
  Sock = {u1, u2}
  GiveUp = 2
  MaxDatagrams = 3
  Editor = {c1, c2}
  Section = {"target", "listen"}
  Patched = {"target"}
  Value = {"new"}
SYMMETRY MCSymmetry
INVARIANTS
  RelayReloadTypeOK
  NoBlackHole
  RoutesKept
  InOrder
  EditsKept
  ReloadApplied
CHECK_DEADLOCK FALSE
