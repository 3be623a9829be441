CONSTANTS
  Files <- MCFiles
SPECIFICATION Spec
INVARIANTS
  PrintedIdsMatch
