SPECIFICATION Spec
CONSTANTS
  Conn = {c1}
  Plain = {"http", "admin"}
  HasTLS = TRUE
  HasQUIC = TRUE
  HasScheduler = TRUE
INVARIANTS
  TypeOK
  NeverStuck
PROPERTIES
  ConnsResolved
  DrainEnds
CHECK_DEADLOCK FALSE
