\* One request: every product the state machine tells apart, every class of error.
SPECIFICATION Spec
CONSTANTS
  Requests = {r1}
  Inputs <- SingleInputs
  Codes = {"A", "B"}
  Faults <- OneOfEachClass
  LateCommits = FALSE
  MaxSubs = 2
  LimitedAttempts = 1
  EmailAttempts = 1
INVARIANTS TypeOK OneSubscriptionPerProduct
  DeclinedBoughtNothing OneVerdictByMail SucceededMeansFulfilled MailsBounded
PROPERTIES SuccessIsFinal ImplementsPromise ImplementsJob
CHECK_DEADLOCK FALSE
