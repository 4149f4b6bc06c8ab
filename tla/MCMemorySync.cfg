SPECIFICATION Spec
CONSTANTS
  d1 = d1
  d2 = d2
  a1 = a1
  a2 = a2
  a3 = a3
  NoAtom = NoAtom
  Devices = {d1, d2}
  Atoms = {a1, a2, a3}
  Shared = {a1, a2}
  Content <- MCDistinct
  Skew <- MCSkew
  Ops = {"create", "supersede", "invalidate", "erase"}
  BatchSize = 3
  MaxDepth = 3
  MaxSpent = 3
  MaxBatches = 1
SYMMETRY MCSymmetry
INVARIANTS ErasureWins NoGap Converged
CHECK_DEADLOCK FALSE
