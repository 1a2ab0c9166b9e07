CONSTANTS
  s1 = s1
  s2 = s2
  s3 = s3
  Sessions <- MCSessions
  File <- MCFile
  Proxied <- MCProxied
  MaxRead = 3
  NoClient = NoClient
  Processes <- MCProcesses
  ForkFailures = 1
SPECIFICATION FairSpec
CHECK_DEADLOCK FALSE
INVARIANTS
  TypeOK
  PageIsTranscript
  ExitCloses
PROPERTIES
  Finishes
