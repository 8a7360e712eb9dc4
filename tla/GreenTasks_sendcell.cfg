SPECIFICATION Spec
CONSTANTS
  a = a
  b = b
  NumWorkers = 2
  MaxTasks = 2
  Chans = {a}
  Cap <- Rendezvous
  Ops = {"go", "send", "recv", "close", "await", "child", "early"}
  MaxOps = 3
PROPERTY StatusInItsCell
