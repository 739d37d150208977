\* A full and an incremental synchronisation in any order, or overlapping.
SPECIFICATION Spec
CONSTANTS
  Executions = {x1, x2}
  x1 = x1
  Full = {x1}
  Subscriptions = {1, 2}
  MaxChanges = 2
  BatchSize = 1
  QueryAttempts = 1
  FetchAttempts = 1
  AddAttempts = 0
  MaxReceives = 1
INVARIANTS TypeOK NothingLost
CHECK_DEADLOCK FALSE
