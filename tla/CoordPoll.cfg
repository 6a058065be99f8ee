SPECIFICATION Spec
CONSTANTS
  run = run  cmd = cmd  tmp = tmp
  archive = archive  backup = backup
  mailbox = mailbox  elsewhere = elsewhere
  NoStore = NoStore  NoReceipt = NoReceipt
  Procs = {run}
  Kind <- PollKind
  Durable = {run}
  Keys <- MCKeys
  Consumers <- MCKeys
  Stores = {mailbox, elsewhere}
  Configs <- EditedConfigs
  MaxFaults = 3
  MaxCommands = 0
  MaxReoffers = 1
INVARIANTS TypeOK
PROPERTIES NoRecommit DurableProgress ImplementsMailTransaction DeleteAfterDurableReceipts
CHECK_DEADLOCK FALSE
