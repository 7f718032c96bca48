SPECIFICATION Spec
CONSTANTS
  a = a
  b = b
  Sessions = {a, b}
  RealType <- CdnOnly
  Killable = {a, b}
  OldKeys = FALSE
  MaxKey = 4
  MaxFaults = 2
INVARIANT OneCreator
CHECK_DEADLOCK FALSE
