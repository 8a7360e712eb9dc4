\* Buffers smaller than the longest value, a load larger than its window.
SPECIFICATION FairSpec
CONSTANTS
  OutSize = 4
  InSize = 3
  MaxString = 2
  MaxText = 5
  LittleEndian = TRUE
  VecCap = 1
  Calls <- MCCalls
  Answers = {"done", "rows", "exception", "null", "str", "txt", "vec"}
  Window = 2
  Burst = 5
  SocketSize = 6
  PutSize = 3
  MaxAsked = 6
  MaxBreaks = 1
INVARIANTS
  InStep
PROPERTY CallReturns
CHECK_DEADLOCK FALSE
