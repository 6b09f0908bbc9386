SPECIFICATION FairSpec
CONSTANTS
  c1 = c1
  c2 = c2
  Main = Main
  Caller <- TwoCallers
  Workers = 2
  AutoStart = FALSE
  Patient = FALSE
  MaxRequests = 2
PROPERTIES
  Exits
CHECK_DEADLOCK FALSE
