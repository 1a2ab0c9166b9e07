CONSTANTS
  MaxFd = 14
  Lines <- RouteLines
  MaxLines = 3
  MaxStages = 4
  MaxNum = 2
  Capacity = 2
  CloseInLoop <- MCKinds
  UnknownTo = "stderr"
  ForkFailures = 0
SPECIFICATION Spec
CHECK_DEADLOCK FALSE
INVARIANTS
  Wired
