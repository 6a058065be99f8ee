SPECIFICATION Spec
CONSTANTS
  run = run  cmd = cmd  tmp = tmp
  archive = archive  backup = backup
  mailbox = mailbox  elsewhere = elsewhere
  NoStore = NoStore  NoReceipt = NoReceipt
  Procs = {run, cmd, tmp}
  Kind <- MixedKind
  Durable = {run, cmd}
  Keys <- MCKeys
  Consumers <- MCKeys
  Stores = {mailbox, elsewhere}
  Configs <- MoveEitherWay
  MaxFaults = 2
  MaxCommands = 1
  MaxReoffers = 0
INVARIANTS NoLossOnDelete NoSilentDrop
CHECK_DEADLOCK FALSE
