SPECIFICATION FairSpec
CONSTANTS
  MaxRecords = 10
  Level <- MCLevel
  Suppressed = {2}
  Malformed = {6}
  Unstorable = {5}
  QueueSize = 3
  Batch = 3
INVARIANTS TypeOK LoggedOrder RecordsAccounted
PROPERTIES EventuallySettled KeepsItsPromise
CHECK_DEADLOCK FALSE
