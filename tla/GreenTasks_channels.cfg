SPECIFICATION Spec
CONSTANTS
  a = a
  b = b
  NumWorkers = 2
  MaxTasks = 3
  Chans = {a, b}
  Cap <- Mixed
  Ops = {"go", "send", "recv", "close", "await", "child", "early"}
  MaxOps = 5
INVARIANT ChannelShape
INVARIANT WaitersWait
PROPERTY ChannelsKeepOrder
