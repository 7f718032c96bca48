SPECIFICATION Spec
CONSTANTS
  Requests = {1, 2}
  Big = {1}
  None = None
  IdsBufferSize = 1
  RetryNow = TRUE
  MaxMsgId = 4
  MaxFaults = 1
INVARIANTS
  TypeOK
  NoLostRequest
  OnlyIdsOfSession
CHECK_DEADLOCK FALSE
