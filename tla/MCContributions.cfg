SPECIFICATION FairSpec
CONSTANTS
  Offers <- EveryVisit
  MaxClicks = 2
  MaxTokens = 1
  MaxPolls = 2
INVARIANTS
  TypeOK
  ThankYouIsTrue
  FailureIsTrue
  OneAttemptPerClick
  PaidOnceInOneOffVisit
  SecondPurchaseOnlyAfterLostPost
PROPERTY WaitingEnds
CHECK_DEADLOCK FALSE
