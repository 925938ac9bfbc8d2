CONSTANTS
  Elems = {e1, e2, e3, e4}
  NULL = NULL
  Fds = {0, 1, 2}
  Events = {"IN", "OUT"}
  MaxCount = 3
  Steps = {1, 2}
  Chars = {"a", "b", "c"}
  Strings <- MCStrings
  MaxLen = 3
  MaxBufs = 3
  Junk = "junk"
  Zero = "zero"
  Paths = {"log"}
  MaxFiles = 3
  MaxLines = 3
  Width <- MCWidth
  ByteMax = 4
  Files <- MCFiles
  Names <- MCNames
  Users <- MCUsers
  MaxCells = 27
  MaxChanges = 3
SPECIFICATION MCSpec
INVARIANTS
  ListWhole
  TreeRight
  MemoryRight
  PollRight
  LinesRight
  MetadataRight
PROPERTIES
  SeqSpec
  TextSpec
CHECK_DEADLOCK FALSE
