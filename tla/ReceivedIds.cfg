SPECIFICATION Spec
CONSTANTS
  IdsBufferSize = 2
  MsgIds <- MCMsgIds
  NeedAck <- MCNeedAck
  InfoIds <- MCInfoIds
  InfoAbout <- MCInfoAbout
  MaxInner = 2
  MaxBreaks = 1
INVARIANTS
  TypeOK
  HandledIsRemembered
  WindowIsNewest
  AckedWasHandled
PROPERTY PromiseKept
CHECK_DEADLOCK FALSE
