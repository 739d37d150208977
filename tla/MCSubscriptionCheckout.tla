----------------------- MODULE MCSubscriptionCheckout -----------------------
(***************************************************************************)
(* The orders TLC walks through: collections with the methods of payment    *)
(* whose forms meet, a delivery by card, one by PayPal, and one for the     *)
(* weekend only.                                                            *)
(***************************************************************************)
EXTENDS SubscriptionCheckout

Offer(fulfilment, weekendOnly, methods) ==
  [fulfilment |-> fulfilment, weekendOnly |-> weekendOnly, methods |-> methods]

Card == Offer("Collection", FALSE, {"Stripe"})
Bank == Offer("Collection", FALSE, {"DirectDebit"})
CardOrPayPal == Offer("Collection", FALSE, {"Stripe", "PayPal"})
AnyMethod == Offer("Collection", FALSE, PaymentMethods)
DeliveryByCard == Offer("HomeDelivery", FALSE, {"Stripe"})
DeliveryByPayPal == Offer("HomeDelivery", FALSE, {"PayPal"})
Weekend == Offer("HomeDelivery", TRUE, {"PayPal"})

EveryOffer ==
  {Card, Bank, CardOrPayPal, AnyMethod, DeliveryByCard, DeliveryByPayPal, Weekend}

Bound(e, p, t) == [entries |-> e, presses |-> p, tokens |-> t]

EveryBound ==
  [o \in EveryOffer |->
    CASE o = Card -> Bound(0, 2, 1)
      [] o = Bank -> Bound(0, 2, 2)
      [] o = CardOrPayPal -> Bound(0, 1, 2)
      [] o = AnyMethod -> Bound(0, 1, 1)
      [] o = DeliveryByCard -> Bound(2, 1, 1)
      [] o = DeliveryByPayPal -> Bound(2, 1, 0)
      [] OTHER -> Bound(2, 2, 0)]

\* London has no agents of its own, a village one, and a town two.
Places == {"london", "village", "town"}
London == {"london"}
Couriers == {"first", "second"}
Rounds == [london |-> {}, village |-> {"first"}, town |-> {"first", "second"}]
=============================================================================
