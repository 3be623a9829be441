CONSTANTS
  Drawings <- MCDrawings
  Files <- MCFiles
SPECIFICATION ImportSpec
INVARIANTS
  DropsOnlyRepeats
  DescribesTheLane
  ForwardMovesMeet
  LinksAreAnswered
  NeighborsLieSideBySide
