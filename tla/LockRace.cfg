SPECIFICATION Spec
CONSTANTS
  p1 = p1
  p2 = p2
  NoFile = NoFile
  NoOne = NoOne
  Procs <- TwoProcs
  Paths <- OnePath
  MaxFiles = 3
  MaxFaults = 0
INVARIANTS
  MutualExclusion
CHECK_DEADLOCK FALSE
