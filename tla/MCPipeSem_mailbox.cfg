SPECIFICATION FairSpec
CONSTANTS
  ByteBase = 4
  HdrLen = 2
  Msgs <- OneMsgSet
  PipeCap = 4
  HighHalf = {0}
  Interrupts = FALSE
  FreeInherited = FALSE
  MaxWrites = 1
  MaxOns = 2
CHECK_DEADLOCK FALSE
PROPERTIES
  BoxSpec
  Delivered
  DeathNoticed
