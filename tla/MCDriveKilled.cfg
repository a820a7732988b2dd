SPECIFICATION Spec
CONSTANTS
  Lines = {1, 2}
  Keys = {"a#1", "b#2"}
  EntryIds = {"ea", "eb"}
  KeyOf <- TwoKeys
  EntryOf <- TwoEntries
  Late = {}
  Tags = {"t1", "t2"}
  NoTag = "none"
  Bucketings <- SteadyBuckets
  Prior <- Fresh
  Registered = {"t1"}
  Workers = {w1, w2}
  NoWorker = NoWorker
  Limit = 0
  Attempts = 1
  ForceTag = "none"
  BuildMissing = FALSE
  ReassembleFrom = 0
  RelaxLocked = FALSE
  RegenerateVerify = FALSE
  WithDb = FALSE
  SameRunId = TRUE
  Faults = {"signal", "crash", "error", "preflight"}
  MaxRuns = 2
  MaxFaults = 1
  MaxRedrives = 0
INVARIANTS KilledNeverAssembled
