SPECIFICATION Spec
CONSTANTS
  Requests <- MCRequests
  MaxWidth = 4
  MaxHeight = 3
  MaxWidgets = 3
INVARIANTS
  NoOverlap
  WithinGrid
  ShownInOrder
CHECK_DEADLOCK FALSE
