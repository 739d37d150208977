\* Two requests whose look-ups both find the gift free.
SPECIFICATION Spec
CONSTANTS
  Requests = {r1, r2}
  r1 = r1
  r2 = r2
  Nobody = Nobody
  Faults <- OnlyTimeouts
  LateCommits = FALSE
  MayExpire = FALSE
  LimitedAttempts = 1
  EmailAttempts = 1
INVARIANT RedeemedInOneRequest
CHECK_DEADLOCK FALSE
