SPECIFICATION Spec
CONSTANTS
  Scale = 2
  MinDistance = 1
  MinDuration = 1
  Maps <- MCMaps
  Requests <- MCRequests
INVARIANTS
  ShortestRouteIsFound
  RouteIsOneWay
  SegmentsAreLinked
  PlanKeepsItsEnds
  OffsetsCountLanes
PROPERTIES
  SearchesAdvance
