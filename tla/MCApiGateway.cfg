SPECIFICATION Spec
CONSTANTS
  Requests <- MCRequests
  MaxFailures = 1
  Undefined = Undefined
INVARIANTS
  DocumentIsAsGiven
  ApiIsWhole
PROPERTIES
  ApiComesUp
CHECK_DEADLOCK FALSE
