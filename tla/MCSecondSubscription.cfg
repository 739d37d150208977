\* A lost answer to the second subscribe call of the third tier.
SPECIFICATION Spec
CONSTANTS
  Requests = {r1}
  Inputs <- ThreeTierInputs
  Codes = {"A"}
  Faults <- OnlyLosses
  LateCommits = FALSE
  MaxSubs = 3
  LimitedAttempts = 1
  EmailAttempts = 0
INVARIANT OneSubscriptionPerProduct
CHECK_DEADLOCK FALSE
