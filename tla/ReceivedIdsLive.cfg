SPECIFICATION FairSpec
CONSTANTS
  IdsBufferSize = 2
  MsgIds <- LiveMsgIds
  NeedAck <- LiveNeedAck
  InfoIds <- MCInfoIds
  InfoAbout <- MCInfoAbout
  MaxInner = 2
  MaxBreaks = 1
PROPERTY PendingSettles
CHECK_DEADLOCK FALSE
