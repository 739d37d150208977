\* The two subscriptions of the third tier, and a Zuora that may execute a call
\* after the lambda gave up on it: what still holds.
SPECIFICATION Spec
CONSTANTS
  Requests = {r1}
  Inputs <- ThreeTierInputs
  Codes = {"A"}
  Faults <- LateFaults
  LateCommits = TRUE
  MaxSubs = 4
  LimitedAttempts = 1
  EmailAttempts = 0
INVARIANTS FulfilmentHasSubscription StatusIsTrue SucceededMeansFulfilled
CHECK_DEADLOCK FALSE
