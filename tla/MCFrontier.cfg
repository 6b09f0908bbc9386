SPECIFICATION Spec
CONSTANTS
  c1 = c1  c2 = c2  Main = Main
  s = s  u1 = u1  u2 = u2  x = x  f = f
  NoUrl = NoUrl
  Caller = {c1, c2}
  Url = {s, u1, u2, x}
  Key = {s, u1, u2, x, f}
  KeyOf <- MCKeyOf
  Final <- MCFinal
  Refused = {x}
  Seed = {s}
  FalsePositives = {s}
  MaxPagesPerFingerprint = 2
  MaxLinks = 1
  MaxCalls = 1
  MaxFails = 2
  MaxStarts = 2
SYMMETRY CallerSymmetry
INVARIANTS KnownNotAdmitted AdmittedOnce
CHECK_DEADLOCK FALSE
