SPECIFICATION EditorsSpec
CONSTANTS
  Editor = {e1, e2}
  Section = {"target", "scheduler", "listen"}
  Patched = {"target", "scheduler"}
  Value = {"new"}
INVARIANTS
  AckedKept
