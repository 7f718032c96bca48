SPECIFICATION FairSpec
CONSTANTS
  a = a
  b = b
  Sessions = {a, b}
  RealType <- Regular
  Killable = {}
  OldKeys = FALSE
  MaxKey = 6
  MaxFaults = 2
PROPERTY GetsKey
CHECK_DEADLOCK FALSE
