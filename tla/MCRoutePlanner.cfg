\* The planner stops when the call has returned or raised.
CHECK_DEADLOCK FALSE
CONSTANTS
  Scale = 100
  Penalty = 2
  ChangeDistance = 8
  LaneWidth = 3
  Maps <- MCMaps
  Requests <- MCRequests
SPECIFICATION Spec
INVARIANTS
  BestOfAllPairs
  SnapPointsOnRoute
