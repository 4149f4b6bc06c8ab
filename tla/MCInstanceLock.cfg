SPECIFICATION FairSpec
CONSTANTS
  p1 = p1
  p2 = p2
  Procs = {p1, p2}
  PortOf <- MCSamePort
  Strict = {p1}
  NoProc = NoProc
  QueryFails = {p1}
  MaxCrashes = 1
  MaxWedges = 1
  MaxRecycled = 1
INVARIANT FilesKeepOneWriter
PROPERTY StaleFilesNeverBlock
CHECK_DEADLOCK FALSE
