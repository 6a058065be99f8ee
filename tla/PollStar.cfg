SPECIFICATION FairSpec
CONSTANTS
  m1 = m1
  m2 = m2
  m3 = m3
  Mails <- ThreeMails
  IncludeExisting = TRUE
  DeleteSource = FALSE
  OmitsUIDNext = FALSE
  UserExpunges <- ExpungeUnpolled
  MaxUID = 3
  MaxValidity = 1
  MaxExpunges = 1
  MaxFaults = 0
PROPERTIES
  NothingGetsStuck
CHECK_DEADLOCK FALSE
