SPECIFICATION Spec
CONSTANTS
  j1 = j1
  j2 = j2
  o1 = o1
  o2 = o2
  Jobs = {j1, j2}
  Kind <- MCTierKinds
  Broken = {j2}
  NumLanes = 2
  MAX_ATTEMPTS = 2
  Operators = {o1}
  AgingStep = 1
  NoJob = NoJob
  MaxClock = 4
  MaxRestarts = 1
  MaxRequeued = 2
  MaxFaults = 2
INVARIANT NothingForgotten
PROPERTY OvertakingBounded
CHECK_DEADLOCK FALSE
