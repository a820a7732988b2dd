SPECIFICATION Spec
CONSTANTS
  Calls = {c1, c2}
  Hosts = {"h1", "h2"}
  PlatformOf <- TwoPlatforms
  Digests = {"d1", "d2"}
  None = None
  Assembled <- AssembledOnOne
  Shapes <- SomeShapes
  Flags <- AllFlags
  Faults = {"interrupt", "crash", "prune", "rebuild", "daemon", "timeout"}
  MaxCalls = 2
  MaxFaults = 1
SYMMETRY Symmetry
INVARIANTS TypeOK RecordsMatchPrints VerificationsKept TestedWhatWasFingerprinted ExitTellsTheFile ThinsRemoved
PROPERTIES PrintsAreFinal
