SPECIFICATION Spec
CONSTANTS
  MaxText = 6
  MaxArgument = 3
  MaxSwitch = 5
  Char <- SmallChars
  Texts <- SmallTexts
  ArgLists <- SmallArgLists
  Inserted <- SmallInserted
  MaxArgs = 2
  SwitchNames <- SmallNames
  Small <- SmallLetters
  Bits = 6
  TWIST_SIZE = 5
  TWIST_PERIOD = 3
  XOR_MASK = 38
  Tempering <- SmallTempering
  Multiplier = 13
  Increment = 7
  SeedMultiplier = 29
  Seeds = {0, 1, 27, 38}
  Limits <- SmallLimits
  Draws = 11
  BitXor <- XorOf
  BitAnd <- AndOf
  BitOr <- OrOf
  Days <- SmallDays
  Hours <- SmallHours
  FirstDays <- FirstSmallDays
  FirstHours <- FirstSmallHours
  TimeZones <- SmallZones
  Block = 4
  LengthBytes = 2
  Pad = 128
  Bytes = {0, 128}
  ChunkLengths = {0, 1, 3, 6}
  Chunks <- SmallChunks
  MaxMessage = 9
  Games <- SmallGames
  Payloads <- SmallPayloads
  ReadSize = 8
  Sites <- SmallSites
  Layouts <- SmallLayouts
  Files <- SmallFiles
  MaxWrites = 2
INVARIANTS TypeOK TextSplitsBack SplitsAtWhite SwitchAnswers
  TwistIsTheRecurrence EveryNumberComes DaysOfCalendar SummerTime
  DigestOfMessage HooksOfThisGame PutBack PicturesKept
CHECK_DEADLOCK FALSE
