\* The builder stops when the call has returned or raised.
CHECK_DEADLOCK FALSE
CONSTANTS
  Scale = 100
  ChangeDistance = 8
  Maps <- MCMaps
  Tasks <- MCTasks
SPECIFICATION Spec
INVARIANTS
  NeverDrivesBack
  FailuresExplained
PROPERTIES
  ImplementsLegalDrive
