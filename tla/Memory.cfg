SPECIFICATION Spec
CONSTANTS
  d1 = d1
  d2 = d2
  a1 = a1
  a2 = a2
  a3 = a3
  NoAtom = NoAtom
  Devices = {d1}
  Atoms = {a1, a2}
  Shared = {a1}
  Content <- MCDistinct
  Skew <- MCNoSkew
  Ops = {"create", "usefulness", "invalidate", "supersede", "archive", "restore", "unsupersede",
         "promote", "erase", "purge", "unpurge", "finalize"}
  BatchSize = 2
  MaxDepth = 3
  MaxSpent = 4
  MaxBatches = 1
INVARIANTS SyncedMeansStored EnvelopesAreShared NoOverlap
PROPERTIES UndoMatches SyncCatchesUp
CHECK_DEADLOCK FALSE
