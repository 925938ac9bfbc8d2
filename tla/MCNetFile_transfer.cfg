CONSTANTS
  MaxBlocks = 2
  MaxEdits = 1
  MaxTransfers = 2
  Capacity = 2
  GivesMetadata = TRUE
SPECIFICATION FairSpec
INVARIANTS
  TypeOK
  InStep
  Quiet
  Agree
  PrefixConsistent
PROPERTIES
  CallsReturn
CHECK_DEADLOCK FALSE
