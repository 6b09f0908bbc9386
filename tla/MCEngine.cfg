SPECIFICATION FairSpec
CONSTANTS
  w1 = w1  w2 = w2
  j1 = j1  j2 = j2
  d1 = d1  d2 = d2
  k1 = k1  k2 = k2
  NoKey = NoKey
  NoItem = NoItem
  Worker = {w1, w2}
  Job = {j1, j2}
  Domain = {d1, d2}
  DomainOf <- MCDomainOf
  RenderKey = {k1, k2}
  MaxRetries = 1
  BusyRetryMaxAttempts = 1
  MaxConcurrency = 1
  MaxStarts = 2
INVARIANTS OnePlace NoStrandedRender
PROPERTIES StopCompletes JobsEnd
CHECK_DEADLOCK FALSE
