SPECIFICATION Spec
CONSTANTS
  c1 = c1
  Keys = {1, 2, 3}
  Poison = {2}
  Oversize = {1}
  Clients = {c1}
  ClientKeys = {3}
  MaxPerTick = 1
  MAX_DRAIN_ATTEMPTS = 2
  Retention = 0
  MaxCaptures = 2
  MaxPosts = 2
  MaxUpsets = 2
INVARIANTS NothingLost ExactlyOnce
PROPERTY SpoolDrains
CHECK_DEADLOCK FALSE
