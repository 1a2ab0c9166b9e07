CONSTANTS
  MaxFd = 12
  Lines <- LargeLines
  MaxLines = 3
  MaxStages = 3
  MaxNum = 2
  Capacity = 1
  CloseInLoop <- MCNormalFile
  UnknownTo = "stdout"
  ForkFailures = 0
SPECIFICATION FairSpec
CHECK_DEADLOCK FALSE
PROPERTIES
  LineEnds
