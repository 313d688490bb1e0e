SPECIFICATION ConversionSpec
CONSTANTS
  Width = 8
  BlockSize <- MCBlockSize
  Requests <- MCRequests
  Names = {"a", "b", "c", "d", "e", "f"}
  DefaultMasks <- MCDefaultMasks
  LargestDefaultMask = 2
  SmallestAzMask = 6
  Undefined = Undefined
INVARIANTS
  LayoutIsRegular
  GapsAreFilled
  AutoKeepsLayout
CHECK_DEADLOCK FALSE
