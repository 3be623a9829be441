\* After the last run nothing is started.
CHECK_DEADLOCK FALSE
CONSTANTS
  MaxRuns = 3
  Places = {here, there}
  None = None
  Cut = Cut
  MaxTrace = 4
  Points <- MCPoints
  Near <- MCNear
SPECIFICATION FairSpec
INVARIANTS
  DrawnIsOfThisRun
  CompletedMeansDrawn
  NothingLost
PROPERTIES
  RunsEnd
