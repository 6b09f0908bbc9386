SPECIFICATION FairSpec
CONSTANTS
  w1 = w1  w2 = w2
  d1 = d1  d2 = d2
  u1 = u1  u2 = u2  f1 = f1
  NoFingerprint = NoFingerprint
  NoJob = NoJob
  Worker <- MCWorker
  Domain <- MCDomain
  Url <- MCUrl
  DomainOf <- MCDomainOf
  Fingerprint <- MCFingerprint
  Score = {1, 2}
  MaxJobs = 2
  MaxBatch = 2
INVARIANTS PriorityOrder AtMostOnce NoLostWakeup
PROPERTIES RefinesPool ShutdownCompletes JobsServed
CHECK_DEADLOCK FALSE
