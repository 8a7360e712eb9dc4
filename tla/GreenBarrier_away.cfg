SPECIFICATION FairSpec
CONSTANTS
  w0 = w0
  w1 = w1
  Workers = {w0, w1}
  Host = w0
  Nobody = Nobody
  ForeignWorkers = {w0, w1}
  NestWorkers = {w0, w1}
  MainAwaitsAll = TRUE
  EndlessTasks = FALSE
  MaxOps = 4
INVARIANT WriteExclusive
PROPERTY AckedStandsStill
PROPERTY WriteLands
PROPERTY Returns
