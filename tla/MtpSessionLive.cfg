SPECIFICATION FairSpec
CONSTANTS
  Requests = {1}
  Big = {}
  None = None
  IdsBufferSize = 8
  RetryNow = FALSE
  MaxMsgId = 7
  MaxFaults = 2
PROPERTY Settles
CHECK_DEADLOCK FALSE
