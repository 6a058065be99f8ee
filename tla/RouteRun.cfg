SPECIFICATION FairRouteSpec
CONSTANTS
  p1 = p1
  p2 = p2
  NoFile = NoFile
  NoOne = NoOne
  Procs <- TwoProcs
  Paths <- TwoPaths
  Mode <- PollAndPush
  Commands <- StayAndTry
  MaxFiles = 4
  MaxFaults = 1
INVARIANTS
  WorkIsLocked
  NoMutualRefusal
PROPERTIES
  RefusedOnlyByLive
  PollErrorsAreLocal
  RouteEnds
CHECK_DEADLOCK FALSE
