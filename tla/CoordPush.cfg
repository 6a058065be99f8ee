SPECIFICATION FairSpec
CONSTANTS
  run = run  cmd = cmd  tmp = tmp
  archive = archive  backup = backup
  mailbox = mailbox  elsewhere = elsewhere
  NoStore = NoStore  NoReceipt = NoReceipt
  Procs = {run}
  Kind <- PushKind
  Durable = {run}
  Keys <- MCKeys
  Consumers <- MCKeys
  Stores = {mailbox, elsewhere}
  Configs <- CopyConfigs
  MaxFaults = 3
  MaxCommands = 0
  MaxReoffers = 2
INVARIANTS ReleaseIsRecorded
PROPERTIES EventuallyReleased
CHECK_DEADLOCK FALSE
