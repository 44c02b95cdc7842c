CONSTANTS
  u1 = u1
  u2 = u2
  north = north
  south = south
  k1 = k1
  k2 = k2
  User <- MCUser
  Value <- MCValue
  Slot <- MCSlot
  Msg <- MCMsg
  Rpc <- MCMsg
  Guarded = {}
  Consumers = 2
  MaxId = 2
  Detach = TRUE
  MaxRetries = 0
  RetryQueue = FALSE
  DeadLetterQueue = FALSE
  MaxPublish = 1
  MaxFaults = 1
SYMMETRY SlotSymmetry
SPECIFICATION Spec
INVARIANTS
  TypeOK
  ChainIntact
  EventsTellTheTruth
  UniqueNames
  CreatedOncePerDelivery
PROPERTIES
  OwnersOnly
CHECK_DEADLOCK FALSE
