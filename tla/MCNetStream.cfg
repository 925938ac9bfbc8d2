CONSTANTS
  Peers = {"a", "b"}
  Data = {"x", "y", "z"}
  Scripts <- MCScripts
  HeaderLen = 2
  MaxSize = 2
  Room = 3
SPECIFICATION FairSpec
INVARIANTS
  TypeOK
  HeaderRight
PROPERTIES
  StreamSpec
  CallsReturn
  Completed
CHECK_DEADLOCK FALSE
