SPECIFICATION FetcherSpec
CONSTANTS
  w1 = w1  w2 = w2  d1 = d1
  NoWorker = NoWorker  NoDomain = NoDomain
  Worker = {w1, w2}
  Domain = {d1}
  Proxies <- MCProxies
  ProxyFailThreshold = 2
  MaxRetries = 1
  BackoffDelay <- MCBackoffDelay
  BackoffMax = 2
  BackoffJitter = 1
  MaxStarts = 1
INVARIANT BackoffHonoured
PROPERTIES Failover Recovery StopReturns
CHECK_DEADLOCK FALSE
