SPECIFICATION Spec
CONSTANTS
  gFunctions <- Table
  Extensions <- Names
  MaxFailures = 1
  Rows = 2
  Rooms = {0, 1, 3, 5, 6, 7, 8}
  Sources <- AllSources
INVARIANTS TypeOK FindsBest Converts UndefinedOnly MemoryReturned
CHECK_DEADLOCK FALSE
