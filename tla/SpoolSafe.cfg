SPECIFICATION Spec
CONSTANTS
  k1 = k1
  k2 = k2
  r1 = r1
  r2 = r2
  NoKey = NoKey
  Keys <- TwoKeys
  Requests <- TwoRequests
  TornSteps <- TearAny
  MaxFaults = 1
  MaxReplays = 1
INVARIANTS
  TypeOK
  AcceptedIsKept
PROPERTIES
  ImplementsDurableQueue
CHECK_DEADLOCK FALSE
