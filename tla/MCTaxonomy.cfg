SPECIFICATION Spec
CONSTANTS
  Keys = {"a#1", "b#2"}
  Shorts = {"s"}
  ShortOf <- OneShort
  Listed = {"a#1"}
  RelaxLocked = TRUE
  PreLogs <- WidePreLogs
  RetryLogs <- StaleLocks
  PostLogs <- DoesNotCompile
  Samples <- ShortLogs
  MaxAttempts = 2
  MaxRuns = 2
INVARIANTS TypeOK RowsTellOwnLog NoiseIgnored
CHECK_DEADLOCK FALSE
