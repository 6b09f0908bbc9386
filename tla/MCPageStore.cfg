SPECIFICATION FairSpec
CONSTANTS
  u1 = u1
  u2 = u2
  i1 = i1
  Url <- Urls
  Image <- Images
  NoUrl = NoUrl
  MaxVersions = 2
  MaxFails = 2
  MaxStarts = 2
INVARIANTS
  TypeOK
  NoPageLost
  LinksComplete
  ImagesBelong
PROPERTIES PagesStored
CHECK_DEADLOCK FALSE
