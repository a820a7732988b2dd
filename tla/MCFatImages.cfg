SPECIFICATION Spec
CONSTANTS
  MILESTONES <- Milestones
  MILESTONE_RELEASE_DATES <- ReleaseDates
  MILESTONE_DEBIAN_SUPPORTED <- Supported
  DEBIAN_CUTOVERS <- DebianCutovers
  MSRV_FLOOR_CUTOVERS <- FloorCutovers
  Undeclared = Undeclared
  Unparsed = Unparsed
  Silent = Silent
  None = None
  Sessions = {s1, s2}
  Host <- OneHost
  Cands = {c1}
  Pool <- Candidates
  HubAnswers = {Silent, 20210209, 20260113}
  MaxDate = 20251231
  MaxOps = 3
  MaxFaults = 1
INVARIANTS TypeOK RightImage ServedUnlessAhead DriftOnlyWhenLifted NoTagTwice LedgerComplete
SYMMETRY SessionSymmetry
CHECK_DEADLOCK FALSE
