SPECIFICATION Spec
CONSTANTS
  a = a
  b = b
  NumWorkers = 2
  MaxTasks = 4
  Chans = {a}
  Cap <- Rendezvous
  Ops = {"go", "await", "child", "nested", "yield"}
  MaxOps = 5
INVARIANT OneEngine
INVARIANT NotFreedInside
INVARIANT NoMissedWake
PROPERTY StatusIsFinal
