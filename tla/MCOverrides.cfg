SPECIFICATION Spec
CONSTANTS
  None = None
  Unset = Unset
  s1 = s1
  s2 = s2
  e1 = e1
  e2 = e2
  Src = {s1, s2}
  Entry = {e1, e2}
  Key = {"ads.example"}
  Importable <- MCImportable
  Priority <- MCPriority
  KeyOf <- MCKeyOf
  Imported <- MCImported
  Patch <- MCPatch
  Value <- MCValue
  MaxRollbacks = 2
  Bounded = TRUE
  PresetChoice = {"aggressive"}
INVARIANTS
  TypeOK
  RollbackChain
PROPERTIES
  PriorityResolves
