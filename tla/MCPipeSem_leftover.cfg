SPECIFICATION Spec
CONSTANTS
  ByteBase = 4
  HdrLen = 2
  Msgs <- ShortMsgs
  PipeCap = 8
  HighHalf = {0}
  Interrupts = FALSE
  FreeInherited = FALSE
  MaxWrites = 2
  MaxOns = 1
CHECK_DEADLOCK FALSE
PROPERTY NoDataMeansEmpty
