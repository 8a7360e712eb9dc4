SPECIFICATION FairSpec
CONSTANTS
  a = a
  b = b
  NumWorkers = 2
  MaxTasks = 3
  Chans = {a}
  Cap <- Rendezvous
  Ops = {"go", "send", "recv", "close", "yield", "nested"}
  MaxOps = 4
PROPERTY ReadyRuns
PROPERTY DeadlockReported
PROPERTY AnswerArrives
