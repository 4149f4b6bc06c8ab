SPECIFICATION Spec
CONSTANTS
  eng = eng
  conv = conv
  x = x
  y = y
  NoJob = NoJob
  NoAtom = NoAtom
  Jobs = {eng, conv}
  ProfileOf <- MCProfileOf
  Chunks = {1, 2, 3}
  Small = {2}
  Atoms = {x, y}
  Yields <- MCYields
  Concurrency = 2
  Worlds <- MCTriage
  MaxAttempts = 2
INVARIANT ErasedStaysErased
