SPECIFICATION LayoutSpec
CONSTANTS
  Width = 6
  BlockSize <- MCBlockSize
  Inputs <- MCInputs
  Requests = {}
  Names = {"public", "private", "isolated", "unused", "app"}
  DefaultTypes <- MCDefaultTypes
  LargestDefaultMask = 2
  SmallestAzMask = 4
  Undefined = Undefined
INVARIANTS
  InOrder
  FitsWhenDescending
  SpillBounded
  PublishedIsPerSpec
  AcceptedIsDisjoint
  ExactTiles
  SpecsHonoured
CHECK_DEADLOCK FALSE
