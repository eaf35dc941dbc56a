SPECIFICATION Spec
CONSTANTS
  Domain = {d1}
  Threshold = 2
  Req = {r1}
  Name = {"beacon-204", "ad"}
  Safe = "beacon-204"
  NoName = ""
  File <- FilesSplice
  TempAction = {}
  TLS = TRUE
  ClientAborts = TRUE
SYMMETRY Symmetry
INVARIANTS
  StubOnlyNoContact
