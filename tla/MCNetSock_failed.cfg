CONSTANTS
  A = A
  B = B
  Procs <- TwoProcs
  Talkers <- OneTalker
  MaxFd = 2
  Attempts = 2
  ClosesFailed = TRUE
SPECIFICATION Spec
INVARIANTS
  OwnKept
