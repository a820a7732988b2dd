SPECIFICATION FairSpec
CONSTANTS
  PRs = {"p1", "p2", "p3"}
  Labels <- Queries
  Matches <- SomeMatches
  Horizon = 2
  Cap = 2
  Floor = 1
  Ends = {1, 2}
  Sizes = {1, 2}
  Garbled = Garbled
  Faults = {"stop", "torn log", "torn row", "refused"}
  MaxRuns = 3
  MaxFaults = 2
CHECK_DEADLOCK FALSE
INVARIANTS TypeOK NoRowTwice DoneMeansFound FinishedMeansFound
PROPERTIES SearchEnds
