SPECIFICATION FairSpec
CONSTANTS
  s = s  u = u  d1 = d1  d2 = d2
  Url = {s, u}
  Domain = {d1, d2}
  DomainOf <- MCDomainOf
  Seed = {s}
  MinPages = 1
  Interval = {0, 1}
  Never = 2
  MaxRequests = 1
  MaxPages <- MCMaxPages
  MaxFails = 1
  MaxCrashes = 1
INVARIANTS RequestKept RecrawlOnce CountsExact
PROPERTIES RequestsHandedOver SeedsRecrawled
CHECK_DEADLOCK FALSE
