SPECIFICATION PauseSpec
CONSTANTS
  j1 = j1
  j2 = j2
  o1 = o1
  Jobs = {j1, j2}
  Kind <- MCDistillKinds
  Broken = {}
  NumLanes = 2
  MAX_ATTEMPTS = 2
  Operators = {o1}
  AgingStep = 1
  NoJob = NoJob
  MaxClock = 0
  MaxRestarts = 1
  MaxRequeued = 0
  MaxFaults = 0
  Cap = 1
  Threshold = 2
  w1 = w1
  w2 = w2
  Workers = {w1, w2}
SYMMETRY MCSymmetry
INVARIANTS CommittedSpendBounded StormBurnsFewAttempts
CHECK_DEADLOCK FALSE
