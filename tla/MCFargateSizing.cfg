SPECIFICATION SizingSpec
CONSTANTS
  TaskArgs <- MCTaskArgs
  NotGiven = NotGiven
INVARIANTS
  CheapestThatCovers
  RefusedOnlyBeyondMaximum
CHECK_DEADLOCK FALSE
