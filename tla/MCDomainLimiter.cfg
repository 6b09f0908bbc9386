SPECIFICATION Spec
CONSTANTS
  w1 = w1  w2 = w2
  d1 = d1
  NoDomain = NoDomain
  Worker = {w1, w2}
  Domain = {d1}
  Parallelism = 2
  Delay = 2
  RandomDelay = 2
  Cooldown = 2
  Cooldowns = {1, 2}
  MaxTime = 6
  MaxGrants = 3
SYMMETRY WorkerSymmetry
INVARIANTS PoliteRate NoGrantInCooldown
PROPERTY CooldownKept
CHECK_DEADLOCK FALSE
