\* The call stops when the route was given up or the
\* points beside one of its samples were found.
CHECK_DEADLOCK FALSE
CONSTANTS
  Scale = 100
  ChangeDistance = 8
  Spacing = 3
  Tolerance = 5
  Threshold = 100
  Maps <- MCMaps
  Tasks <- MCTasks
  Ends <- MCEnds
  Centre <- MCCentre
SPECIFICATION AdjacentSpec
INVARIANTS
  AdjacentPointsAreBeside
  NoGaps
  RecordsFollowRoute
  EveryStepSampled
