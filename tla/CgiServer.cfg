CONSTANTS
  c1 = c1
  c2 = c2
  Connections <- MCConnections
  Columns = 2
  Asks <- MCAsks
  NoQuery = NoQuery
  Unset = NoQuery
  FileLines <- MCFileLines
  EndsInExit <- MCEndsInExit
  MaxTexts = 1
  Room = 2
SPECIFICATION FairSpec
CHECK_DEADLOCK FALSE
INVARIANTS
  TypeOK
  OwnSessions
  PageInOrder
PROPERTIES
  ResponseEnds
