--------------------------- MODULE CheckoutPromise ---------------------------
(***************************************************************************)
(* What a checkout for one subscription promises its customer, without the *)
(* state machine, its lambdas and their retries: a request buys at most    *)
(* one subscription, the customer is thanked only for what has been        *)
(* bought, gets one verdict by mail, and after a declined payment has      *)
(* bought nothing and will not.  An unexplained failure may still be       *)
(* mailed to a customer who has a subscription nobody knows of.            *)
(***************************************************************************)
EXTENDS Naturals

CONSTANTS Requests, Products, Ids

VARIABLES
  purchases,  \* subscriptions: [id, request, product]
  welcomed,   \* [request, product] a thank-you e-mail names
  told,       \* requests whose customer got the failure e-mail
  declined    \* those of them whose payment was declined

vars == <<purchases, welcomed, told, declined>>

Init == purchases = {} /\ welcomed = {} /\ told = {} /\ declined = {}

Bought(r) == \E s \in purchases : s.request = r

Buy(r, p) ==
  /\ ~Bought(r) /\ r \notin told
  /\ \E n \in Ids : purchases' = {[id |-> n, request |-> r, product |-> p]} \cup purchases
  /\ UNCHANGED <<welcomed, told, declined>>

Welcome(r, p) ==
  /\ \E s \in purchases : s.request = r /\ s.product = p
  /\ r \notin told
  /\ welcomed' = welcomed \cup {[request |-> r, product |-> p]}
  /\ UNCHANGED <<purchases, told, declined>>

Unwelcomed(r) == \A w \in welcomed : w.request # r

Fail(r) ==
  /\ Unwelcomed(r)
  /\ told' = told \cup {r}
  /\ UNCHANGED <<purchases, welcomed, declined>>

Decline(r) ==
  /\ ~Bought(r)
  /\ told' = told \cup {r} /\ declined' = declined \cup {r}
  /\ UNCHANGED <<purchases, welcomed>>

Next == \E r \in Requests : Fail(r) \/ Decline(r) \/ \E p \in Products : Buy(r, p) \/ Welcome(r, p)

Spec == Init /\ [][Next]_vars
=============================================================================
