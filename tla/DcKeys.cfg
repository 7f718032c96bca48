SPECIFICATION Spec
CONSTANTS
  a = a
  b = b
  Sessions = {a, b}
  RealType <- Mixed
  Killable = {a, b}
  OldKeys = TRUE
  MaxKey = 5
  MaxFaults = 2
INVARIANTS
  TypeOK
  OneCreator
  BoundToPersistent
  RightWithCreator
CHECK_DEADLOCK FALSE
