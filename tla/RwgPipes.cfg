CONSTANTS
  Clients = {c1, c2, c3}
  NoClient = NoClient
  MaxID = 3
  Names <- MCNames
  EnvVars <- MCVars
  Values <- MCValues
  MaxNum = 2
  Lines <- PipeLines
  MaxOnline = 3
  Fds = {4, 5, 6}
  SockFd = 3
  Garbage <- MCZero
  MaxLines = 4
  Hangups = FALSE
  ForkFailures = 1
SYMMETRY AnySymmetry
SPECIFICATION Spec
CHECK_DEADLOCK FALSE
INVARIANTS
  NamesDistinct
  SlotsClean
  PipeReceiverIsHolder
  UserFindsSlot
  BroadcastReachesAll
