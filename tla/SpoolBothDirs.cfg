SPECIFICATION FairSpec
CONSTANTS
  k1 = k1
  k2 = k2
  r1 = r1
  r2 = r2
  NoKey = NoKey
  Keys <- OneKey
  Requests <- TwoRequests
  TornSteps <- NoTear
  MaxFaults = 1
  MaxReplays = 0
PROPERTIES
  AllAreHandled
CHECK_DEADLOCK FALSE
