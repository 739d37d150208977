\* Three requests for one code, PUTs executed late, the code running out.
SPECIFICATION Spec
CONSTANTS
  Requests = {r1, r2, r3}
  r1 = r1
  r2 = r2
  r3 = r3
  Nobody = Nobody
  Faults <- RedemptionFaults
  LateCommits = TRUE
  MayExpire = TRUE
  LimitedAttempts = 2
  EmailAttempts = 1
SYMMETRY Symmetry
INVARIANTS TypeOK AnsweredIsWritten UsedByAnother
CHECK_DEADLOCK FALSE
