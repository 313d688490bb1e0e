SPECIFICATION ComposedSpec
CONSTANTS
  Programs <- MCPrograms
  Requests <- MCRequests
  Names = {"container", "web", "side"}
  TargetGroups = {"default", "blue", "green"}
  Ports = {80, 443, 8080}
  Regions = {"home"}
  Accounts = {"a"}
  HomeRegion = "home"
  Account = "a"
  MaxFailures = 1
  Undefined = Undefined
INVARIANTS
  ServiceIsWellFormed
  PortsAgree
  EndpointsAgree
  RefusalsAreClean
PROPERTIES
  ServedOnceGroupHasPort
  ServiceComesUp
CHECK_DEADLOCK FALSE
