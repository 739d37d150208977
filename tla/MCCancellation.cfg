\* Two versions of one subscription in one file.
SPECIFICATION Spec
CONSTANTS
  Executions = {x1}
  Full = {}
  Subscriptions = {1}
  MaxChanges = 2
  BatchSize = 2
  QueryAttempts = 0
  FetchAttempts = 0
  AddAttempts = 0
  MaxReceives = 1
INVARIANT CancellationsComeAfter
CHECK_DEADLOCK FALSE
