SPECIFICATION FairSpec
CONSTANTS
  MaxWidth = 10
  MaxWidthOfTwo = 5
  Images <- SmallImages
  MaxPacket = 4
  Stored <- LastBitLost
  MaxRun = 7
  MaxLiteral = 6
INVARIANTS TypeOK RoundTrip NothingLeft NeverExpands
PROPERTIES TgaFinishes
CHECK_DEADLOCK FALSE
