CONSTANTS
  q1 = q1
  q2 = q2
  annToken = annToken
  rootToken = rootToken
  forged = forged
  ann = ann
  root = root
  k1 = k1
  k2 = k2
  NoToken = NoToken
  NoUser = NoUser
  Req <- MCReq
  Token <- MCToken
  Bearer <- MCBearer
  Admin <- MCAdmin
  Traffic <- MCTraffic
  MaxExpired = 1
  Msg <- MCMsg
  Rpc <- MCMsg
  Guarded <- MCGuarded
  Slot <- MCSlot
  Consumers = 1
  MaxRetries = 0
  RetryQueue = FALSE
  DeadLetterQueue = FALSE
  MaxPublish = 1
  MaxFaults = 1
SPECIFICATION FairSpec
INVARIANTS
  EveryRouteHandled
  OnlyForBearer
  RefusedForCause
  StatusSurvives
PROPERTIES
  AnsweredOrStuck
CHECK_DEADLOCK FALSE
