SPECIFICATION FairSpec
CONSTANTS
  daemon = daemon
  command1 = command1
  command2 = command2
  NoOne = NoOne
  NoRecord = NoRecord
  Services = {daemon}
  Commands = {command1}
  Imported = TRUE
  MaxTokens = 2
  MaxFaults = 1
INVARIANTS
  TypeOK
  RefreshIsSerialised
  StaysRenewable
  RevokeIsPossible
PROPERTIES
  OnlyMemoryOutlivesRevoke
  EveryErrandEnds
CHECK_DEADLOCK FALSE
