SPECIFICATION Spec
CONSTANTS
  Written <- Topologies
  Drafts <- DraftsEntered
  Cleaned <- FileNames
  MaxEdits = 2
INVARIANTS
  LocksMatchState
  LoginServesRuns
PROPERTIES
  EditsAreLocal
CHECK_DEADLOCK FALSE
