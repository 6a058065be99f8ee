SPECIFICATION Spec
CONSTANTS
  daemon = daemon
  command1 = command1
  command2 = command2
  NoOne = NoOne
  NoRecord = NoRecord
  Services = {daemon}
  Commands = {command1, command2}
  Imported = TRUE
  MaxTokens = 2
  MaxFaults = 0
INVARIANTS
  TypeOK
  RefreshIsSerialised
  StaysRenewable
  RevokeIsPossible
PROPERTIES
  OnlyMemoryOutlivesRevoke
CHECK_DEADLOCK FALSE
