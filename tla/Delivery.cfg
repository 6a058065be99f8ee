SPECIFICATION FairSpec
CONSTANTS
  Configs <- AllConfigs
  Mails <- AllMails
  MaxCopies = 5
  MaxFaults = 2
INVARIANTS
  TypeOK
  OneCopyPerMail
  NeverTheLastCopy
  ReceiptIsBacked
PROPERTIES
  Settles
CHECK_DEADLOCK FALSE
