SPECIFICATION Spec
CONSTANTS
  a = a
  b = b
  Chats = {a, b}
  MaxTill <- MCMaxTill
  MaxRequests = 3
  MaxAsks = 1
  MaxEntries = 2
  MaxToggles = 1
INVARIANTS
  TypeOK
  HistoryWaitsForDelete
  HistoryComes
  EntryComes
  ReadingComes
  AssertionsHold
CHECK_DEADLOCK FALSE
