SPECIFICATION FairSpec
CONSTANTS
  m1 = m1
  m2 = m2
  m3 = m3
  Mails <- ThreeMails
  IncludeExisting = FALSE
  DeleteSource = TRUE
  OmitsUIDNext = FALSE
  UserExpunges <- ExpungeAny
  MaxUID = 3
  MaxValidity = 1
  MaxExpunges = 2
  MaxFaults = 2
INVARIANTS
  ExistingIsLeftAlone
PROPERTIES
  EveryMailIsHandled
CHECK_DEADLOCK FALSE
