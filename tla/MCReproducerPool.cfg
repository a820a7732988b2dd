SPECIFICATION Spec
CONSTANTS
  Threads = {t1, t2}
  Free = Free
  Handler = Handler
  Attempts = 2
  KillsFail = TRUE
  Calls = 1
SYMMETRY ThreadSymmetry
INVARIANTS TypeOK KeepsContract NoOrphans
