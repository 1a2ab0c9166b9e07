CONSTANTS
  MaxFd = 14
  Lines <- RouteLines
  MaxLines = 3
  MaxStages = 4
  MaxNum = 2
  Capacity = 2
  CloseInLoop <- MCNormalFile
  UnknownTo = "stdout"
  ForkFailures = 1
SPECIFICATION Spec
CHECK_DEADLOCK FALSE
INVARIANTS
  TypeOK
  Wired
  Delivered
