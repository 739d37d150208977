------------------------- MODULE CheckoutVisitProofs -------------------------
(***************************************************************************)
(* What follows from the promise of a checkout page, for visits with any   *)
(* number of orders: with the refinements proved of the pages it holds of  *)
(* every one of them, and what it needs of the jobs is what the executions *)
(* of support-workers are proved to keep.                                  *)
(***************************************************************************)
EXTENDS CheckoutVisit, TLAPS

VisitTypeOK == orders \in Seq(Order) /\ thanked \in BOOLEAN

(* What a step does to the orders there are: one of them may move, and     *)
(* another may be begun.                                                   *)
Jobbed(o) ==   \* the job moves, the customer is told nothing new
  /\ orders'[o].told = orders[o].told
  /\ \/ orders[o].job = "none" /\ orders'[o].job = "pending" /\ orders[o].told = "waiting"
     \/ orders[o].job = "pending" /\ orders'[o].job \in {"success", "failure"}
Spoken(o) ==   \* the customer is told, the job stays
  /\ orders[o].told = "waiting" /\ orders'[o].job = orders[o].job
  /\ \/ orders'[o].told = "success" /\ orders[o].job = "success"
     \/ orders'[o].told = "failure" /\ orders[o].job \in {"none", "failure"}
     \/ orders'[o].told = "unknown"
LostOnTheWay(o) ==
  /\ orders[o].job = "none" /\ orders[o].told = "waiting"
  /\ orders'[o].job = "pending" /\ orders'[o].told = "unknown"
Moves(o) == Jobbed(o) \/ Spoken(o) \/ LostOnTheWay(o)

ThanksFor(o) ==
  \/ orders[o].told = "success"
  \/ ThanksForPending /\ orders[o].told = "unknown" /\ orders[o].job # "none"

\* What happens to an order, or to none.
MovesOne(o) ==
  /\ DOMAIN orders' = DOMAIN orders
  /\ \A n \in DOMAIN orders : n # o => orders'[n] = orders[n]
  /\ Moves(o)
  /\ thanked' = thanked \/ (thanked' = TRUE /\ ThanksFor(o)')

\* An updated order keeps the others and the types.
LEMMA OrderUpdated ==
  ASSUME VisitTypeOK, NEW o \in DOMAIN orders, NEW x \in Order,
         orders' = [orders EXCEPT ![o] = x]
  PROVE  /\ orders' \in Seq(Order) /\ DOMAIN orders' = DOMAIN orders /\ orders'[o] = x
         /\ \A n \in DOMAIN orders : n # o => orders'[n] = orders[n]
BY DEF VisitTypeOK

\* Telling updates one order.
LEMMA TellUpdates ==
  ASSUME VisitTypeOK, NEW o \in DOMAIN orders, NEW t \in {"success", "failure", "unknown"},
         Tell(o, t)
  PROVE  /\ orders' \in Seq(Order) /\ DOMAIN orders' = DOMAIN orders
         /\ \A n \in DOMAIN orders : n # o => orders'[n] = orders[n]
         /\ orders'[o].job = orders[o].job /\ orders'[o].told = t
<1>1. orders[o] \in Order
  BY DEF VisitTypeOK
<1>2. orders' = [orders EXCEPT ![o] = [orders[o] EXCEPT !.told = t]]
  BY DEF Tell
<1>3. [orders[o] EXCEPT !.told = t] \in Order
  BY <1>1 DEF Order
<1> QED BY <1>1, <1>2, <1>3, OrderUpdated DEF Order

\* So does a step of its job.
LEMMA JobUpdates ==
  ASSUME VisitTypeOK, NEW o \in DOMAIN orders, NEW from,
         NEW to \in {"pending", "success", "failure"}, Job(o, from, to)
  PROVE  /\ orders' \in Seq(Order) /\ DOMAIN orders' = DOMAIN orders
         /\ \A n \in DOMAIN orders : n # o => orders'[n] = orders[n]
         /\ orders[o].job = from /\ orders'[o].job = to /\ orders'[o].told = orders[o].told
         /\ thanked' = thanked
<1>1. orders[o] \in Order
  BY DEF VisitTypeOK
<1>2. orders' = [orders EXCEPT ![o] = [orders[o] EXCEPT !.job = to]] /\ orders[o].job = from
  BY DEF Job
<1>3. [orders[o] EXCEPT !.job = to] \in Order
  BY <1>1 DEF Order
<1>4. thanked' = thanked
  BY DEF Job
<1> QED BY <1>1, <1>2, <1>3, <1>4, OrderUpdated DEF Order

\* Every action but Begin moves the order it is about and no other.
LEMMA OneOrderMoves ==
  ASSUME VisitTypeOK, NEW o \in DOMAIN orders,
         Accept(o) \/ End(o) \/ Thank(o) \/ Refuse(o) \/ Lose(o) \/ GiveUp(o)
  PROVE  VisitTypeOK' /\ MovesOne(o)
<1>1. CASE Accept(o)
  BY <1>1, JobUpdates DEF Accept, VisitTypeOK, MovesOne, Moves, Jobbed
<1>2. CASE End(o)
  BY <1>2, JobUpdates DEF End, VisitTypeOK, MovesOne, Moves, Jobbed
<1>3. CASE Thank(o)
  <2>1. orders[o].told = "waiting"
    BY <1>3 DEF Thank, Tell
  <2> QED BY <1>3, <2>1, TellUpdates DEF Thank, VisitTypeOK, MovesOne, Moves, Spoken, ThanksFor
<1>4. CASE Refuse(o)
  <2>1. orders[o].told = "waiting"
    BY <1>4 DEF Refuse, Tell
  <2> QED BY <1>4, <2>1, TellUpdates DEF Refuse, VisitTypeOK, MovesOne, Moves, Spoken
<1>5. CASE Lose(o) /\ Tell(o, "unknown")
  <2>1. orders[o].told = "waiting"
    BY <1>5 DEF Tell
  <2> QED BY <1>5, <2>1, TellUpdates DEF Lose, VisitTypeOK, MovesOne, Moves, Spoken
<1>6. CASE Lose(o) /\ ~Tell(o, "unknown")
  <2> DEFINE lost == [job |-> "pending", told |-> "unknown"]
  <2>1. /\ orders[o].job = "none" /\ orders[o].told = "waiting" /\ thanked' = thanked
        /\ orders' = [orders EXCEPT ![o] = lost]
    BY <1>6 DEF Lose
  <2>2. lost \in Order /\ lost.job = "pending" /\ lost.told = "unknown"
    BY DEF Order
  <2> HIDE DEF lost
  <2> QED BY <2>1, <2>2, OrderUpdated DEF VisitTypeOK, MovesOne, Moves, LostOnTheWay
<1>7. CASE GiveUp(o)
  <2>1. orders[o].told = "waiting"
    BY <1>7 DEF GiveUp, Tell
  <2> QED BY <1>7, <2>1, TellUpdates DEF GiveUp, VisitTypeOK, MovesOne, Moves, Spoken, ThanksFor
<1> QED BY <1>1, <1>2, <1>3, <1>4, <1>5, <1>6, <1>7

\* Begin adds an order at the end.
LEMMA BeginAdds ==
  ASSUME VisitTypeOK, Begin
  PROVE  /\ VisitTypeOK' /\ thanked' = thanked
         /\ DOMAIN orders' = DOMAIN orders \cup {Len(orders) + 1}
         /\ Len(orders) + 1 \notin DOMAIN orders
         /\ \A o \in DOMAIN orders : orders'[o] = orders[o]
         /\ orders'[Len(orders) + 1] = [job |-> "none", told |-> "waiting"]
<1> DEFINE new == [job |-> "none", told |-> "waiting"]
<1>1. new \in Order
  BY DEF Order
<1>2. orders \in Seq(Order) /\ orders' = Append(orders, new) /\ thanked' = thanked
  BY DEF Begin, VisitTypeOK
<1>3. orders' \in Seq(Order) /\ Len(orders') = Len(orders) + 1
  BY <1>1, <1>2
<1>4. \A o \in 1..Len(orders) : orders'[o] = orders[o]
  BY <1>1, <1>2
<1>5. orders'[Len(orders) + 1] = new
  BY <1>1, <1>2
<1> HIDE DEF new
<1>6. DOMAIN orders = 1..Len(orders) /\ DOMAIN orders' = 1..(Len(orders) + 1)
      /\ Len(orders) \in Nat
  BY <1>2, <1>3
<1>7. /\ DOMAIN orders' = DOMAIN orders \cup {Len(orders) + 1}
      /\ Len(orders) + 1 \notin DOMAIN orders
  BY <1>6
<1> QED BY <1>2, <1>3, <1>4, <1>5, <1>6, <1>7 DEF VisitTypeOK, new

\* The types, and the step's shape.
LEMMA VisitStep ==
  ASSUME VisitTypeOK, [Next]_vars
  PROVE  /\ VisitTypeOK'
         /\ UNCHANGED vars \/ Begin \/ \E o \in DOMAIN orders : MovesOne(o)
<1>1. CASE UNCHANGED vars
  BY <1>1 DEF vars, VisitTypeOK
<1>2. CASE Begin
  BY <1>2, BeginAdds
<1>3. ASSUME NEW o \in DOMAIN orders,
             Accept(o) \/ End(o) \/ Thank(o) \/ Refuse(o) \/ Lose(o) \/ GiveUp(o)
      PROVE  VisitTypeOK' /\ MovesOne(o)
  BY <1>3, OneOrderMoves
<1> QED BY <1>1, <1>2, <1>3 DEF Next

\* The types of a visit.
LEMMA VisitTypeCorrect == Spec => []VisitTypeOK
<1>1. Init => VisitTypeOK
  <2>1. <<>> \in Seq(Order)
    OBVIOUS
  <2>2. FALSE \in BOOLEAN
    OBVIOUS
  <2> QED BY <2>1, <2>2, Zenon DEF Init, VisitTypeOK
<1>2. VisitTypeOK /\ [Next]_vars => VisitTypeOK'
  BY VisitStep
<1> QED BY <1>1, <1>2, PTL DEF Spec

-----------------------------------------------------------------------------
(* The customer is told the truth: what an order is reported as is what    *)
(* its job has come to, and there are thanks only for one that stands.     *)
THEOREM VerdictsCorrect == Spec => []VerdictsAreTrue
<1>1. Init => VerdictsAreTrue
  BY DEF Init, VerdictsAreTrue
<1>2. VisitTypeOK /\ VerdictsAreTrue /\ [Next]_vars => VerdictsAreTrue'
  <2> SUFFICES ASSUME VisitTypeOK, VerdictsAreTrue, [Next]_vars PROVE VerdictsAreTrue'
    OBVIOUS
  <2>1. CASE UNCHANGED vars
    BY <2>1 DEF vars, VerdictsAreTrue
  <2>2. CASE Begin
    BY <2>2, BeginAdds DEF VerdictsAreTrue
  <2>3. ASSUME NEW o \in DOMAIN orders, MovesOne(o) PROVE VerdictsAreTrue'
    <3>1. Moves(o) /\ DOMAIN orders' = DOMAIN orders
      BY <2>3 DEF MovesOne
    <3>2. ThanksFor(o) => ThanksFor(o)'
      BY <3>1 DEF Moves, Jobbed, Spoken, LostOnTheWay, ThanksFor
    <3>3. /\ orders'[o].told = "failure" => orders'[o].job \in {"none", "failure"}
          /\ orders'[o].told = "success" => orders'[o].job = "success"
      BY <3>1 DEF Moves, Jobbed, Spoken, LostOnTheWay, VerdictsAreTrue
    <3>4. thanked' => \E n \in DOMAIN orders : ThanksFor(n)'
      BY <2>3, <3>2 DEF MovesOne, VerdictsAreTrue, ThanksFor
    <3> QED BY <2>3, <3>1, <3>3, <3>4 DEF MovesOne, VerdictsAreTrue, ThanksFor
  <2> QED BY <2>1, <2>2, <2>3, VisitStep
<1> QED BY <1>1, <1>2, VisitTypeCorrect, PTL DEF Spec

(* Nothing the customer was told is taken back, no order is forgotten.     *)
THEOREM VerdictsStayCorrect == Spec => VerdictsStay
<1>1. VisitTypeOK /\ [Next]_vars =>
        [/\ \A o \in DOMAIN orders :
              /\ o \in DOMAIN orders'
              /\ orders[o].told # "waiting" => orders'[o].told = orders[o].told
         /\ thanked => thanked']_vars
  <2> SUFFICES ASSUME VisitTypeOK, [Next]_vars, ~UNCHANGED vars
               PROVE  /\ \A o \in DOMAIN orders :
                           /\ o \in DOMAIN orders'
                           /\ orders[o].told # "waiting" => orders'[o].told = orders[o].told
                      /\ thanked => thanked'
    OBVIOUS
  <2>1. CASE Begin
    BY <2>1, BeginAdds
  <2>2. ASSUME NEW o \in DOMAIN orders, MovesOne(o)
        PROVE  /\ DOMAIN orders' = DOMAIN orders /\ (thanked => thanked')
               /\ \A n \in DOMAIN orders :
                    orders[n].told # "waiting" => orders'[n].told = orders[n].told
    BY <2>2 DEF MovesOne, Moves, Jobbed, Spoken, LostOnTheWay
  <2> QED BY <2>1, <2>2, VisitStep
<1> QED BY <1>1, VisitTypeCorrect, PTL DEF Spec, VerdictsStay

(* All a visit assumes of the jobs of its orders is CheckoutJob: each is   *)
(* accepted once, ends once and keeps its final status.                    *)
THEOREM JobsReliedOn == Spec => ReliesOnJobs
<1>1. Init => Jobs!Init
  BY DEF Init, Jobs!Init, StatusOf
<1>2. VisitTypeOK /\ [Next]_vars => [Jobs!Next]_StatusOf
  <2> SUFFICES ASSUME VisitTypeOK, [Next]_vars PROVE Jobs!Next \/ StatusOf' = StatusOf
    OBVIOUS
  <2>1. CASE UNCHANGED vars
    BY <2>1 DEF vars, StatusOf
  <2>2. CASE Begin
    <3>1. \A n \in Nat : StatusOf'[n] = StatusOf[n]
      BY <2>2, BeginAdds DEF StatusOf
    <3> QED BY <3>1 DEF StatusOf
  <2>3. ASSUME NEW o \in DOMAIN orders, MovesOne(o) PROVE Jobs!Next \/ StatusOf' = StatusOf
    <3>1. o \in Nat /\ StatusOf[o] = orders[o].job /\ StatusOf'[o] = orders'[o].job
      BY <2>3 DEF VisitTypeOK, StatusOf, MovesOne
    <3>2. \A n \in Nat : n # o => StatusOf'[n] = StatusOf[n]
      BY <2>3 DEF StatusOf, MovesOne
    <3>3. StatusOf' = [StatusOf EXCEPT ![o] = orders'[o].job]
      BY <3>1, <3>2 DEF StatusOf
    <3>4. CASE orders'[o].job = orders[o].job
      BY <3>1, <3>3, <3>4 DEF StatusOf
    <3>5. CASE orders[o].job = "none" /\ orders'[o].job = "pending"
      BY <3>1, <3>3, <3>5 DEF Jobs!Next, Jobs!Accept
    <3>6. CASE orders[o].job = "pending" /\ orders'[o].job \in {"success", "failure"}
      BY <3>1, <3>3, <3>6 DEF Jobs!Next, Jobs!End, Jobs!Final
    <3> QED BY <2>3, <3>4, <3>5, <3>6 DEF MovesOne, Moves, Jobbed, Spoken, LostOnTheWay
  <2> QED BY <2>1, <2>2, <2>3, VisitStep
<1> QED BY <1>1, <1>2, VisitTypeCorrect, PTL DEF Spec, ReliesOnJobs, Jobs!Spec
=============================================================================
