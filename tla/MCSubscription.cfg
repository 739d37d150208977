SPECIFICATION FairSpec
CONSTANTS
  Offers <- EveryOffer
  Postcodes <- Places
  Inside <- London
  Agents <- Couriers
  Served <- Rounds
  Bounds <- EveryBound
  MaxPolls = 2
INVARIANTS
  TypeOK
  PageIsTrue
  OrdersAreDelivered
  PaidByAPress
  SecondPurchase
PROPERTIES
  OverlayEnds
  ImplementsVisit
CHECK_DEADLOCK FALSE
