SPECIFICATION Spec
CONSTANTS
  p1 = p1
  p2 = p2
  Procs = {p1, p2}
  PortOf <- MCSamePort
  Strict = {p1, p2}
  NoProc = NoProc
  QueryFails = {}
  MaxCrashes = 0
  MaxWedges = 0
  MaxRecycled = 0
INVARIANT SingleWriter
CHECK_DEADLOCK FALSE
