CONSTANTS
  Requests <- MCRequests
  Capacity = 2
  MaxRead = 2
  MaxData = 3
SPECIFICATION FairSpec
CHECK_DEADLOCK FALSE
INVARIANTS
  TypeOK
  Relayed
  EndIsComplete
  GrantsHold
PROPERTIES
  Answered
  Passes
  SessionEnds
