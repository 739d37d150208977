SPECIFICATION FairSpec
CONSTANTS
  Visits <- EveryLink
  Pricing <- Prices
  MaxSubmits = 2
  MaxApprovals = 1
  MaxTokens = 2
INVARIANTS
  TypeOK
  ThankYouIsTrue
  OneRequestPerAgreement
  PurchasesBounded
  AmountsAreAcceptable
PROPERTIES
  PendingEnds
  ImplementsVisit
CHECK_DEADLOCK FALSE
