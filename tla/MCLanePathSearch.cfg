\* The search stops when the call has returned.
CHECK_DEADLOCK FALSE
CONSTANTS
  Scale = 2
  Penalty = 1
  Inf = Inf
  Maps <- MCMaps
  Queries <- MCQueries
SPECIFICATION Spec
INVARIANTS
  PathsAreLegal
PROPERTIES
  SettledCostsAreFinal
  ImplementsLanePath
