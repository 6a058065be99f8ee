SPECIFICATION Spec
CONSTANTS
  m1 = m1
  m2 = m2
  m3 = m3
  Mails <- ThreeMails
  IncludeExisting = TRUE
  DeleteSource = TRUE
  OmitsUIDNext = TRUE
  UserExpunges <- ExpungeAny
  MaxUID = 3
  MaxValidity = 2
  MaxExpunges = 1
  MaxFaults = 1
INVARIANTS
  TypeOK
  PendingHasNext
  NothingIsSkipped
  DeletesOnlyHandled
PROPERTIES
  LinkNeverMovesBack
CHECK_DEADLOCK FALSE
