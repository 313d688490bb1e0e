SPECIFICATION ConversionSpec
CONSTANTS
  Width = 8
  BlockSize <- MCBlockSize
  Requests <- DistantRequests
  Names = {"a", "b", "c", "d", "e", "f"}
  DefaultMasks <- MCDefaultMasks
  LargestDefaultMask = 2
  SmallestAzMask = 6
  Undefined = Undefined
INVARIANT
  GapsAvoidSubnets
CHECK_DEADLOCK FALSE
