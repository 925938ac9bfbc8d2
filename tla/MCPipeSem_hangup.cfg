SPECIFICATION Spec
CONSTANTS
  ByteBase = 4
  HdrLen = 2
  Msgs <- ShortMsgs
  PipeCap = 8
  HighHalf = {0, 1}
  Interrupts = FALSE
  FreeInherited = FALSE
  MaxWrites = 1
  MaxOns = 1
CHECK_DEADLOCK FALSE
PROPERTY HangUpReported
