SPECIFICATION Spec
CONSTANTS
  w0 = w0
  w1 = w1
  w2 = w2
  Workers = {w0, w1, w2}
  Host = w0
  Nobody = Nobody
  ForeignWorkers = {w1}
  NestWorkers = {}
  MainAwaitsAll = FALSE
  EndlessTasks = TRUE
  MaxOps = 4
INVARIANT WriteExclusive
