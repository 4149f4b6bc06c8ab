SPECIFICATION FairSpec
CONSTANTS
  j1 = j1
  j2 = j2
  o1 = o1
  o2 = o2
  Jobs = {j1, j2}
  Kind <- MCPairKinds
  Broken = {}
  NumLanes = 2
  MAX_ATTEMPTS = 2
  Operators = {o1}
  AgingStep = 1
  NoJob = NoJob
  MaxClock = 0
  MaxRestarts = 2
  MaxRequeued = 3
  MaxFaults = 0
INVARIANT NoDoubleExecution
PROPERTIES RetryLimit CompletedIsFinal PendingSettles ImplementsWorkQueue
CHECK_DEADLOCK FALSE
