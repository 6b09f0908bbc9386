SPECIFICATION CachesSpec
CONSTANTS
  w1 = w1  w2 = w2  d1 = d1  e1 = e1  e2 = e2  e3 = e3
  NoWorker = NoWorker  NoDomain = NoDomain  NoEntry = NoEntry
  Worker = {w1, w2}
  Domain = {d1}
  Denied = {d1}
  Entry = {e1, e2, e3}
  MaxStarts = 2
INVARIANT SingleFlight
PROPERTIES RulesApplyInTheEnd CachesPassed
CHECK_DEADLOCK FALSE
