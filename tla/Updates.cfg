SPECIFICATION FairSpec
CONSTANTS
  c1 = c1
  c2 = c2
  h1 = h1
  h2 = h2
  Events <- MCEvents
  BoxOf <- MCBoxOf
  PtsOf <- MCPtsOf
  CountOf <- MCCountOf
  Log <- MCLog
  MerePts = {1, 3}
  MaxFaults = 1
INVARIANTS
  TypeOK
  NothingSkipped
  GapIsTimed
  NoStuckRequest
PROPERTIES
  AppliedInOrder
  GapCloses
CHECK_DEADLOCK FALSE
