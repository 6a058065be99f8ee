SPECIFICATION Spec
CONSTANTS
  m1 = m1
  m2 = m2
  m3 = m3
  Mails <- ThreeMails
  IncludeExisting = TRUE
  DeleteSource = TRUE
  OmitsUIDNext = FALSE
  UserExpunges <- NoExpunge
  MaxUID = 3
  MaxValidity = 2
  MaxExpunges = 1
  MaxFaults = 1
INVARIANTS
  DeletedWasHandled
CHECK_DEADLOCK FALSE
