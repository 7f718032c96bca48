SPECIFICATION Spec
CONSTANTS
  f = f
  v = v
  Files = {f}
  Streams = {v}
  Parts <- MCParts
  FrontParts <- MCFront
  StartWaited = 1
  MaxWaited = 2
  MaxSessions = 2
  RemoveAfter = 2
  RetrySuccesses = 1
  MaxRemoves = 2
  MaxSignals = 2
  MaxErrors = 1
  MaxLoads = 3
INVARIANTS
  TypeOK
  PartsAreCounted
  RoomIsUsed
  IdleSessionsAreStopped
CHECK_DEADLOCK FALSE
