SPECIFICATION Spec
CONSTANTS
  Keys = {"a#1", "b#2"}
  Shorts = {"s"}
  ShortOf <- OneShort
  Listed = {"a#1"}
  RelaxLocked = TRUE
  PreLogs <- NarrowPreLogs
  RetryLogs <- StaleLocks
  PostLogs <- TestsFail
  Samples <- ShortLogs
  MaxAttempts = 2
  MaxRuns = 2
INVARIANTS CompilationMeansError
CHECK_DEADLOCK FALSE
