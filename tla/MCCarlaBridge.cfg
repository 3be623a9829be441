\* The process ends.
CHECK_DEADLOCK FALSE
CONSTANTS
  Timeout = 3
  ReadyTimeout = 10
  RetryInterval = 1
  Horizon = 20
  MaxChanges = 1
  Objects <- MCObjects
  Actors <- MCActors
  ObjectName <- MCObjectName
  ActorNames <- MCActorNames
  StartsWith <- MCStartsWith
  NameOf <- MCNameOf
SPECIFICATION FairSpec
INVARIANTS
  GivesUpInTime
  ReadyServerIsFound
  PositionsOfTheNamed
PROPERTIES
  ImplementsBridgeCall
  Ends
