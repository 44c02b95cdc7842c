CONSTANTS
  crop = crop
  k1 = k1
  k2 = k2
  Msg <- MCMsg
  Rpc = {}
  Guarded = {}
  Slot <- MCSlot
  Consumers = 2
  MaxRetries = 1
  RetryQueue = TRUE
  DeadLetterQueue = TRUE
  MaxPublish = 2
  MaxFaults = 2
  StoreFaults <- MCStoreFaults
SPECIFICATION FairSpec
INVARIANTS
  OneWriter
  OneDocPerEvent
PROPERTIES
  RecordedOrParked
CHECK_DEADLOCK FALSE
