SPECIFICATION Spec
CONSTANTS
  Requests <- MCRequests
  Regions = {"home", "west"}
  Accounts = {"a"}
  NewBucket <- MCNewBucket
  NewGroup <- MCNewGroup
  HomeRegion = "home"
  Account = "a"
  MaxFailures = 1
  Undefined = Undefined
INVARIANTS
  TrailIsAllowed
  IdentityIsKept
PROPERTIES
  TrailComesUp
CHECK_DEADLOCK FALSE
