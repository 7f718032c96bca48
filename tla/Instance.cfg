SPECIFICATION Spec
CONSTANTS
  m = m
  n = n
  k = k
  f = f
  None = None
  Requests <- MCRequests
  MainBound <- MCMainBound
  After <- MCAfter
  FileDc <- MCFileDc
  Dcs = {1, 2}
  FirstMain = 1
  FatalFor <- MCFatalFor
  MaxErrors = 2
  MaxMoves = 1
INVARIANTS
  TypeOK
  InOnePlace
  NoLostRequest
  DependentIsReleased
  WaitersAreServed
PROPERTIES
  HandlersKeepPromise
CHECK_DEADLOCK FALSE
