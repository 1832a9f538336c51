SPECIFICATION FairSpec
CONSTANTS
  BufferLength = 4
  ByteValues = 16
  FF = 15
  D9 = 9
  APP13 = 13
  APPn = 14
  SOS = 10
  MARKER_CONST <- ThreeByteMark
  Pictures <- SmallPictures
  Foreign <- ForeignFiles
  MarkEnd <- AfterMark
  Rooms = {0, 3, 6, 8, 9, 11, 14, 99}
  MaxFiles = 2
INVARIANTS TypeOK WrittenWhole MarkRecognised
PROPERTIES ImplementsByteStream ReadReturnsAtLast
