SPECIFICATION FairSpec
CONSTANTS
  Threads = {t1}
  Free = Free
  Handler = Handler
  Attempts = 1
  KillsFail = FALSE
  Calls = 1
CHECK_DEADLOCK FALSE
PROPERTIES SignalEnds
