CONSTANTS
  MaxBlocks = 2
  MaxEdits = 1
  MaxTransfers = 1
  Capacity = 2
  GivesMetadata = FALSE
SPECIFICATION Spec
INVARIANT SnapshotSent
CHECK_DEADLOCK FALSE
