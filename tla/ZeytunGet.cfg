\* Two calls, with the process reconfigured between them.
SPECIFICATION FairSpec
CONSTANTS
  Args <- MCArgs
  PathCap = 7
  RequestMax = 6
  Pages <- MCPages
  Chunk = 3
  MaxGets = 2
INVARIANTS
  NothingLeft
  SentInsideSession
  Faithful
PROPERTY NoTimeoutNeeded
CHECK_DEADLOCK FALSE
