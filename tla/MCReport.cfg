CONSTANTS
  ann = ann
  root = root
  north = north
  south = south
  maize = maize
  sown = sown
  reaped = reaped
  k1 = k1
  k2 = k2
  User <- MCUser
  Node <- MCNode
  KindOf <- MCKindOf
  ParentOf <- MCParentOf
  Before <- MCBefore
  Slot <- MCSlot
  Msg <- MCMsg
  Rpc <- MCRpc
  Guarded = {}
  Consumers = 2
  MaxWrites = 1
  MaxRetries = 0
  RetryQueue = FALSE
  DeadLetterQueue = FALSE
  MaxPublish = 1
  MaxFaults = 1
SYMMETRY SlotSymmetry
SPECIFICATION Spec
INVARIANTS
  TypeOK
  KeptIsShown
  FarmersSeeOwn
  AdminsOnly
  OwnersJoined
  LostOnlyByFailure
CHECK_DEADLOCK FALSE
