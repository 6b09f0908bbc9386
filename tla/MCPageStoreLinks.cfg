SPECIFICATION Spec
CONSTANTS
  u1 = u1
  u2 = u2
  i1 = i1
  Url <- Urls
  Image <- Images
  NoUrl = NoUrl
  MaxVersions = 2
  MaxFails = 1
  MaxStarts = 1
INVARIANTS
  LinksBelong
CHECK_DEADLOCK FALSE
