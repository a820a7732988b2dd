SPECIFICATION FairSpec
CONSTANTS
  Lines = {1, 2, 3}
  Keys = {"a#1", "b#2", "c#3"}
  EntryIds = {"ea", "eb", "ec"}
  KeyOf <- ThreeKeys
  EntryOf <- ThreeEntries
  Late = {3}
  Tags = {"t1", "t2"}
  NoTag = "none"
  Bucketings <- ShiftingBuckets
  Prior <- PublishedOnce
  Registered = {}
  Workers = {w1}
  NoWorker = NoWorker
  Limit = 2
  Attempts = 1
  ForceTag = "none"
  BuildMissing = TRUE
  ReassembleFrom = 2
  RelaxLocked = FALSE
  RegenerateVerify = TRUE
  WithDb = FALSE
  SameRunId = TRUE
  Faults = {"signal", "crash", "error", "preflight"}
  MaxRuns = 3
  MaxFaults = 1
  MaxRedrives = 1
INVARIANTS SuccessHasEntry
PROPERTIES NoSilentOverwrite ServesEveryone
