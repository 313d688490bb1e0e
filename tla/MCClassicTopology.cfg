SPECIFICATION Spec
CONSTANTS
  Width = 8
  BlockSize <- MCBlockSize
  Requests <- MCRequests
  Names = {"n2", "n3", "n4", "n5", "n6"}
  Zones = {1, 2, 3, 4}
  SubnetMasks = {2, 3, 4, 5, 6}
  Undefined = Undefined
INVARIANTS
  BlocksAreSound
  EgressIsSound
CHECK_DEADLOCK FALSE
