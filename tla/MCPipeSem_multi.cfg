SPECIFICATION FairSpec
CONSTANTS
  ByteBase = 4
  HdrLen = 2
  Msgs <- LongMsgs
  PipeCap = 5
  HighHalf = {0, 1}
  Interrupts = TRUE
  FreeInherited = TRUE
  MaxWrites = 2
  MaxOns = 2
CHECK_DEADLOCK FALSE
INVARIANTS
  MutualExclusion
  WritesPaidFor
  IInv
PROPERTIES
  TurnSpec
  WriteReturns
