CONSTANTS
  Sigs <- Two
  SIGHUP <- Low
  Watched <- Two
  Apps <- Handlers
SPECIFICATION FairSpec
INVARIANTS
  TypeOK
  Settled
  HandledRight
  HarmOnlyInRestore
  Daemonized
PROPERTY HandledAtAccept
CHECK_DEADLOCK FALSE
