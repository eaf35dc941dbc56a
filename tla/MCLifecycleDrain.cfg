SPECIFICATION Spec
CONSTANTS
  Conn = {}
  Plain = {"http"}
  HasTLS = TRUE
  HasQUIC = FALSE
  HasScheduler = FALSE
PROPERTIES
  ShutdownCompletes
CHECK_DEADLOCK FALSE
