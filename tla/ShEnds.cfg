CONSTANTS
  MaxFd = 12
  Lines <- EndLines
  MaxLines = 3
  MaxStages = 3
  MaxNum = 2
  Capacity = 2
  CloseInLoop <- MCNormalFile
  UnknownTo = "stdout"
  ForkFailures = 0
SPECIFICATION FairSpec
CHECK_DEADLOCK FALSE
INVARIANTS
  ShellHolds
  ReaderNotWriter
PROPERTIES
  LineEnds
