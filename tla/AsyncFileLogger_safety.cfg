SPECIFICATION Spec
CONSTANTS
  Capacity = 2
  IndexLimit = 4
  Records <- MCRecords
  Blank = blank
  Levels = {2, 3}
  MinimumLevel = 3
  BatchLimit = 2
  MaxCalls = 5
  Distinct = 6
INVARIANTS
  LoggerTypeOK
  RecordsInOrder
  DropsCountedOnce
  NothingLeftBehind
CHECK_DEADLOCK FALSE
