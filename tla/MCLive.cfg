\* Every execution ends, and every purchase is answered, when services recover.
SPECIFICATION FairSpec
CONSTANTS
  Requests = {r1}
  Inputs <- LiveInputs
  Codes = {"A"}
  Faults <- LossAndLimit
  LateCommits = FALSE
  MaxSubs = 3
  LimitedAttempts = 1
  EmailAttempts = 0
PROPERTIES EveryExecutionEnds PurchaseIsAnswered
CHECK_DEADLOCK FALSE
