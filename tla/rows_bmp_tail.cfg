SPECIFICATION FairSpec
CONSTANTS
  MaxWidth = 6
  MaxWidthOfTwo = 2
  Images <- SmallImages
  MaxPacket = 4
  Stored <- LastBitLost
  MaxRun = 7
  MaxLiteral = 6
PROPERTY BmpFinishes
CHECK_DEADLOCK FALSE
