SPECIFICATION Spec
CONSTANTS
  Offers <- CardVisit
  MaxClicks = 1
  MaxTokens = 2
  MaxPolls = 2
INVARIANT PaidByAClick
CHECK_DEADLOCK FALSE
