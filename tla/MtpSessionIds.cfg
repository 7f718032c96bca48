SPECIFICATION Spec
CONSTANTS
  Requests = {1, 2}
  Big = {}
  None = None
  IdsBufferSize = 8
  RetryNow = TRUE
  MaxMsgId = 4
  MaxFaults = 1
INVARIANTS
  SingleSendIsFresh
  IdHasOneOwner
CHECK_DEADLOCK FALSE
