SPECIFICATION DriveSpec
CONSTANTS
  Scale = 4
  MinDistance = 1
  MinDuration = 1
  Tolerance = 1
  MaxCalls = 1
  Maps <- MCMaps
  Requests <- MCRequests
  Positions <- MCPositions
  OpposingPoints <- MCOpposing
  Distances <- MCDistances
  Destinations <- MCDestinations
INVARIANTS
  LaneChangeLeadsToAnotherLane
