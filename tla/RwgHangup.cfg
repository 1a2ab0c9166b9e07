CONSTANTS
  Clients = {c1, c2}
  NoClient = NoClient
  MaxID = 2
  Names <- MCNames
  EnvVars <- MCVars
  Values <- MCValues
  MaxNum = 2
  Lines <- HangupLines
  MaxOnline = 2
  Fds = {4, 5}
  SockFd = 3
  Garbage <- MCZero
  MaxLines = 1
  Hangups = TRUE
  ForkFailures = 0
SPECIFICATION FairSpec
CHECK_DEADLOCK FALSE
PROPERTIES
  DisconnectedUserLeaves
