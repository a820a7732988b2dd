SPECIFICATION FairSpec
CONSTANTS
  Lines = {1, 2}
  Keys = {"a#1"}
  EntryIds = {"ea", "eb"}
  KeyOf <- SameKey
  EntryOf <- TwoEntries
  Late = {}
  Tags = {"t1", "t2"}
  NoTag = "none"
  Bucketings <- SteadyBuckets
  Prior <- Fresh
  Registered = {"t2"}
  Workers = {w1, w2}
  NoWorker = NoWorker
  Limit = 0
  Attempts = 2
  ForceTag = "t2"
  BuildMissing = FALSE
  ReassembleFrom = 0
  RelaxLocked = TRUE
  RegenerateVerify = FALSE
  WithDb = TRUE
  SameRunId = TRUE
  Faults = {"signal", "crash", "error"}
  MaxRuns = 2
  MaxFaults = 2
  MaxRedrives = 0
INVARIANTS MirrorComplete TaxonomyWithStatus
PROPERTIES MirrorInOrder ShutdownEnds
