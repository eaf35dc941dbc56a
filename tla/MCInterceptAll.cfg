SPECIFICATION Spec
CONSTANTS
  Domain = {d1}
  Threshold = 2
  Req = {r1, r2}
  Name = {"beacon-204", "ad"}
  Safe = "beacon-204"
  NoName = ""
  File <- FilesAll
  TempAction = {"unknown"}
  TLS = TRUE
  ClientAborts = TRUE
SYMMETRY Symmetry
INVARIANTS
  TypeOK
  GatedNoContact
  RuleStubServed
