SPECIFICATION Spec
CONSTANTS
  Configs <- MCConfigs
  MaxIpv6Index = 2
  MaxFailures = 1
INVARIANTS
  TypeOK
  RefusalsAreClean
  EgressInOwnZone
  GatewaysHaveOwnAddress
  Ipv6BlocksAreDistinct
  EndpointReachesEveryZone
PROPERTIES
  KeepsPromise
  NetworkComesUp
CHECK_DEADLOCK FALSE
