SPECIFICATION Spec
CONSTANTS
  Width = 6
  BlockSize <- MCBlockSize
  Requests <- MCRequests
  Names = {"private", "public", "app"}
  DefaultTypes <- MCDefaultTypes
  LargestDefaultMask = 2
  SmallestAzMask = 4
  Undefined = Undefined
INVARIANT
  ZonesDisjoint
CHECK_DEADLOCK FALSE
