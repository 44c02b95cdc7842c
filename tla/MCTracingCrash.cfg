CONSTANTS
  crop = crop
  k1 = k1
  k2 = k2
  Msg <- MCMsg
  Rpc = {}
  Guarded = {}
  Slot <- MCSlot
  Consumers = 1
  MaxRetries = 3
  RetryQueue = TRUE
  DeadLetterQueue = TRUE
  MaxPublish = 1
  MaxFaults = 1
  StoreFaults = {}
SPECIFICATION Spec
INVARIANTS
  NotSwallowed
CHECK_DEADLOCK FALSE
