CONSTANTS
  resetRequested = resetRequested
  k1 = k1
  k2 = k2
  k3 = k3
  Msg <- MCMsg
  Rpc = {}
  Guarded = {}
  Slot <- MCSlot
  Consumers = 2
  MaxRetries = 3
  RetryQueue = TRUE
  DeadLetterQueue = TRUE
  MaxPublish = 2
  MaxFaults = 1
  MaxDoubts = 1
SPECIFICATION FairSpec
INVARIANTS
  NeverSilentlyDropped
  ParkedAfterRetries
  MailsExplained
PROPERTIES
  MailedOrParked
CHECK_DEADLOCK FALSE
