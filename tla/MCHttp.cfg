CONSTANTS
  Junk <- MCJunk
  Zero = 0
  Registrations <- MCRegistrations
  Asks <- MCAsks
  FileAsks <- MCFileAsks
  Headers = {7}
  Bodies <- MCBodies
  OldFile <- MCOldFile
  Format = "JSON"
  MaxMoves = 3
  MaxHandlers = 2
  MaxChanges = 2
  MaxSettings = 2
  MaxCalls = 2
SPECIFICATION HttpSpec
INVARIANTS
  RoutedRight
  OwnAnswer
  FileRight
CHECK_DEADLOCK FALSE
