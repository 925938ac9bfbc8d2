CONSTANTS
  A = A
  B = B
  Procs <- TwoProcs
  Talkers <- OneTalker
  MaxFd = 2
  Attempts = 2
  ClosesFailed = FALSE
SPECIFICATION Spec
INVARIANTS
  TypeOK
  HeldOnce
  Ready
  PathRight
