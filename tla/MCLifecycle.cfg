SPECIFICATION FairSpec
CONSTANTS
  c1 = c1
  c2 = c2
  Main = Main
  Caller <- TwoCallers
  Workers = 3
  AutoStart = TRUE
  Patient = TRUE
  MaxRequests = 5
INVARIANTS
  WorkerLimit
  NothingForgotten
PROPERTIES
  Exits
CHECK_DEADLOCK FALSE
