---------------------------- MODULE CheckoutVisit ----------------------------
(***************************************************************************)
(* What a checkout page promises its customer, without forms, overlays and *)
(* payment providers: an order becomes a job at most once and only while   *)
(* the page waits for it or as the answer is lost; the customer is told    *)
(* once how an order went and it is true; the thank-you page, once it is   *)
(* reached, is not taken back.                                             *)
(***************************************************************************)
EXTENDS Naturals, Sequences

CONSTANT ThanksForPending  \* TRUE: the page has thanks for an order that is not final

VARIABLES
  orders,   \* begun in this visit: [job, told], in the order they were begun
  thanked   \* a thank-you page is shown or being navigated to

vars == <<orders, thanked>>

\* "unknown": an answer was lost, or the page gave up waiting for the status.
Order == [job : {"none", "pending", "success", "failure"},
          told : {"waiting", "success", "failure", "unknown"}]

Init == orders = <<>> /\ thanked = FALSE

Begin ==
  /\ orders' = Append(orders, [job |-> "none", told |-> "waiting"])
  /\ UNCHANGED thanked

Job(o, from, to) ==
  /\ orders[o].job = from
  /\ orders' = [orders EXCEPT ![o].job = to]
  /\ UNCHANGED thanked

\* The page still waits for the order, and says now how it went.
Tell(o, told) ==
  /\ orders[o].told = "waiting"
  /\ orders' = [orders EXCEPT ![o].told = told]

Accept(o) == orders[o].told = "waiting" /\ Job(o, "none", "pending")
End(o) == Job(o, "pending", "success") \/ Job(o, "pending", "failure")

Thank(o) ==
  /\ orders[o].job = "success"
  /\ Tell(o, "success") /\ thanked' = TRUE

Refuse(o) ==
  /\ orders[o].job \in {"none", "failure"}
  /\ Tell(o, "failure") /\ UNCHANGED thanked

\* The request may have been accepted all the same.
Lose(o) ==
  /\ UNCHANGED thanked
  /\ \/ Tell(o, "unknown")
     \/ /\ orders[o] = [job |-> "none", told |-> "waiting"]
        /\ orders' = [orders EXCEPT ![o] = [job |-> "pending", told |-> "unknown"]]

GiveUp(o) ==
  /\ ThanksForPending /\ orders[o].job # "none"
  /\ Tell(o, "unknown") /\ thanked' = TRUE

Next ==
  \/ Begin
  \/ \E o \in DOMAIN orders :
       Accept(o) \/ End(o) \/ Thank(o) \/ Refuse(o) \/ Lose(o) \/ GiveUp(o)

Spec == Init /\ [][Next]_vars

-----------------------------------------------------------------------------
(* What follows for the customer.                                          *)

(* An order reported as failed has bought nothing and never will, one      *)
(* reported as a success has; thanks are for a job that succeeded or, if   *)
(* the page has thanks for pending orders, for one that was accepted.      *)
VerdictsAreTrue ==
  /\ \A o \in DOMAIN orders :
       /\ orders[o].told = "failure" => orders[o].job \in {"none", "failure"}
       /\ orders[o].told = "success" => orders[o].job = "success"
  /\ thanked => \E o \in DOMAIN orders :
                  \/ orders[o].told = "success"
                  \/ ThanksForPending /\ orders[o].told = "unknown" /\ orders[o].job # "none"

(* Orders are not forgotten, a verdict is not changed, thanks stay.        *)
VerdictsStay ==
  [][/\ \A o \in DOMAIN orders :
          /\ o \in DOMAIN orders'
          /\ orders[o].told # "waiting" => orders'[o].told = orders[o].told
     /\ thanked => thanked']_vars

(* The status of every order the visit may ever begin, for CheckoutJob.    *)
StatusOf == [o \in Nat |-> IF o \in DOMAIN orders THEN orders[o].job ELSE "none"]
Jobs == INSTANCE CheckoutJob WITH Jobs <- Nat, status <- StatusOf
ReliesOnJobs == Jobs!Spec
=============================================================================
