\* The call stops when it has returned.
CHECK_DEADLOCK FALSE
CONSTANTS
  Scale = 1
  Maps <- MCMaps
  Centers <- MCCenters
SPECIFICATION Spec
INVARIANTS
  FindsCarriageway
PROPERTIES
  Terminates
