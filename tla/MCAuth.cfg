CONSTANTS
  ana = ana
  ann = ann
  old = old
  new = new
  k1 = k1
  k2 = k2
  MaxUser = 2
  Email <- MCEmail
  Profile <- MCValue
  Secret <- MCValue
  Admins <- MCAdmins
  AdminSecret = old
  AdminProfile = old
  MaxToken = 3
  Slot <- MCSlot
  Msg <- MCMsg
  Rpc <- MCMsg
  Guarded = {}
  Consumers = 1
  Detach = FALSE
  MaxRetries = 0
  RetryQueue = FALSE
  DeadLetterQueue = FALSE
  MaxPublish = 1
  MaxFaults = 1
SYMMETRY SlotSymmetry
SPECIFICATION Spec
INVARIANTS
  TypeOK
  RotatedOnce
  
  
  
CHECK_DEADLOCK FALSE
