SPECIFICATION Spec
CONSTANTS
  Ids = {e1, e2}
  Texts = {fail, bad}
  Invalid = {bad}
  Failing = {fail, bad}
  Absent = Absent
  Torn = Torn
  Tags = {t1}
  Platforms = {p1}
  Digests = {d1, d2}
  None = None
  MaxWrites = 2
  MaxRuns = 3
SYMMETRY Alike
INVARIANTS TypeOK RebuildRefreshes VerifyTells
PROPERTIES DriverFactsKept
CHECK_DEADLOCK FALSE
