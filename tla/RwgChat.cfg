CONSTANTS
  Clients = {c1, c2, c3}
  NoClient = NoClient
  MaxID = 2
  Names <- MCNames
  EnvVars <- MCVars
  Values <- MCValues
  MaxNum = 2
  Lines <- ChatLines
  MaxOnline = 3
  Fds = {4, 5, 6}
  SockFd = 3
  Garbage <- MCGarbage
  MaxLines = 2
  Hangups = TRUE
  ForkFailures = 0
SYMMETRY AnySymmetry
SPECIFICATION Spec
CHECK_DEADLOCK FALSE
INVARIANTS
  TypeOK
  FdsAgree
  MaxFdCovers
  ReadyIsReadable
  SlotsAgree
