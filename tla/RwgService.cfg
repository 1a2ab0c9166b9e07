CONSTANTS
  Clients = {c1, c2, c3}
  NoClient = NoClient
  MaxID = 2
  Names <- MCNames
  EnvVars <- MCVars
  Values <- MCValues
  MaxNum = 2
  Lines <- ServiceLines
  MaxOnline = 2
  Fds = {4, 5}
  SockFd = 3
  Garbage <- MCZero
  MaxLines = 3
  Hangups = FALSE
  ForkFailures = 1
SPECIFICATION FairSpec
CHECK_DEADLOCK FALSE
INVARIANTS
  NumberPipesAreOwn
PROPERTIES
  ServiceSpec
  NumberPipeTarget
  LineServed
  ConnectionAccepted
