SPECIFICATION EndlessSpec
CONSTANTS
  Capacity = 2
  IndexLimit = 4
  Records <- MCRecords
  Blank = blank
  Levels = {3}
  MinimumLevel = 3
  BatchLimit = 2
  MaxCalls = 3
  Distinct = 1
PROPERTIES
  DestructorReturns
  RecordsReachTheDisk
CHECK_DEADLOCK FALSE
