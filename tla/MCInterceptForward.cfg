SPECIFICATION Spec
CONSTANTS
  Domain = {d1}
  Threshold = 2
  Req = {r1, r2, r3}
  Name = {"beacon-204"}
  Safe = "beacon-204"
  NoName = ""
  File <- FilesForward
  TempAction = {}
  TLS = FALSE
  ClientAborts = FALSE
SYMMETRY Symmetry
INVARIANTS
  OpenIffBroken
