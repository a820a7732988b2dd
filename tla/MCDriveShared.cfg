SPECIFICATION Spec
CONSTANTS
  Lines = {1, 2}
  Keys = {"a#1", "b#2"}
  EntryIds = {"ea"}
  KeyOf <- TwoKeys
  EntryOf <- SharedEntry
  Late = {}
  Tags = {"t1", "t2"}
  NoTag = "none"
  Bucketings <- SteadyBuckets
  Prior <- Fresh
  Registered = {"t1"}
  Workers = {w1, w2}
  NoWorker = NoWorker
  Limit = 0
  Attempts = 2
  ForceTag = "none"
  BuildMissing = FALSE
  ReassembleFrom = 0
  RelaxLocked = TRUE
  RegenerateVerify = TRUE
  WithDb = TRUE
  SameRunId = TRUE
  Faults = {"signal", "crash", "error", "preflight", "torn"}
  MaxRuns = 2
  MaxFaults = 2
  MaxRedrives = 0
INVARIANTS TypeOK KilledNeverRecorded EvidenceForOutcome TaxonomyOnlyOfFailures
PROPERTIES KeepsPromise
