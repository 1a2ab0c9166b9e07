CONSTANTS
  Connections = {c1, c2}
  Programs <- MCPrograms
  Requests <- MCRequests
  Unset <- MCUnset
  Pieces = 2
  LineBuffered = TRUE
SPECIFICATION FairSpec
CHECK_DEADLOCK FALSE
INVARIANTS
  TypeOK
  OwnAnswer
  EofIsComplete
PROPERTIES
  ResponseEnds
