SPECIFICATION Spec
CONSTANTS
  eng = eng
  conv = conv
  x = x
  y = y
  NoJob = NoJob
  NoAtom = NoAtom
  Jobs = {eng, conv}
  ProfileOf <- MCProfileOf
  Chunks = {1, 2, 3}
  Small = {2}
  Atoms = {x, y}
  Yields <- MCYields
  Concurrency = 2
  Worlds <- MCWorlds
  MaxAttempts = 2
INVARIANTS TypeOK OwnProfile CallsBounded ErasedUnlessRaced
PROPERTIES RetryKeepsPaidWork DoneMeansWhole JobsSettle SearchableInTheEnd
