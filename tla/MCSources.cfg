SPECIFICATION Spec
CONSTANTS
  None = None
  s1 = s1
  s2 = s2
  e1 = e1
  e2 = e2
  Src = {s1, s2}
  Entry = {e1, e2}
  Conf = {on}
  EnabledConf = {on}
  Importable <- MCImportable
  Worker = {w1, w2}
  RequiresReview = TRUE
  ThresholdCount = 2
  ThresholdPercent = 50
SYMMETRY Symmetry
INVARIANTS
  TypeOK
  EntriesOwned
PROPERTIES
  LargeRemovalsReviewed
