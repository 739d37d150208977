------------------------ MODULE GiftRedemptionProofs ------------------------
(***************************************************************************)
(* Proofs about GiftRedemption, for any number of competing requests, any  *)
(* set of faults and any number of attempts.                               *)
(***************************************************************************)
EXTENDS GiftRedemption, TLAPS

\* An error leaves the lambda's variables well typed, whatever it reports.
LEMMA LambdaErrorType ==
  ASSUME TypeOK, NEW r \in Requests, NEW e, NEW what \in Outcomes, LambdaError(r, e, what)
  PROVE  /\ phase' \in [Requests -> Phases]
         /\ retries' \in [Requests -> Nat]
         /\ outcome' \in [Requests -> Outcomes]
<1>1. CASE Retried(FALSE, ToRetryException(e), retries[r])
  <2>1. phase' = [phase EXCEPT ![r] = "waiting"] /\ outcome' = outcome
    BY <1>1 DEF LambdaError
  <2>2. retries' = [retries EXCEPT ![r] = @ + 1] \/ retries' = retries
    BY <1>1 DEF LambdaError
  <2> QED BY <2>1, <2>2 DEF TypeOK, Phases
<1>2. CASE ~Retried(FALSE, ToRetryException(e), retries[r])
  BY <1>2 DEF LambdaError, TypeOK, Phases
<1> QED BY <1>1, <1>2

\* Every step keeps the types.
LEMMA TypeStep == TypeOK /\ [Next]_vars => TypeOK'
<1> SUFFICES ASSUME TypeOK, [Next]_vars PROVE TypeOK'
  OBVIOUS
<1> USE DEF gift, lambda, Phases, Outcomes, Refusals
<1>1. ASSUME NEW r \in Requests, Invoke(r) PROVE TypeOK'
  BY <1>1 DEF TypeOK, Invoke
<1>2. ASSUME NEW r \in Requests, LookUp(r) PROVE TypeOK'
  <2>1. CASE GetSubscriptionState(r) \in Refusals
    <3>1. LambdaError(r, RuntimeException, GetSubscriptionState(r))
      BY <1>2, <2>1 DEF LookUp
    <3>2. GetSubscriptionState(r) \in Outcomes
      BY <2>1
    <3> QED BY <1>2, <3>1, <3>2, LambdaErrorType DEF LookUp, TypeOK
  <2>2. CASE GetSubscriptionState(r) \notin Refusals
    <3>1. GetSubscriptionState(r) \in {"valid_gift_code", "redeemed_in_this_request"}
      BY <2>2 DEF GetSubscriptionState, TypeOK
    <3> QED BY <1>2, <2>2, <3>1 DEF LookUp, TypeOK
  <2> QED BY <2>1, <2>2
<1>3. ASSUME NEW r \in Requests, UpdateSubscriptionRedemptionData(r) PROVE TypeOK'
  BY <1>3 DEF TypeOK, UpdateSubscriptionRedemptionData, Write
<1>4. ASSUME NEW r \in Requests, Answer(r) PROVE TypeOK'
  BY <1>4 DEF TypeOK, Answer
<1>5. ASSUME NEW r \in Requests, LambdaFails(r) PROVE TypeOK'
  <2>1. PICK e \in Faults : LambdaError(r, e, "error")
    BY <1>5 DEF LambdaFails
  <2>2. late' \subseteq Requests
    BY <1>5 DEF LambdaFails, TypeOK
  <2> QED BY <1>5, <2>1, <2>2, LambdaErrorType DEF LambdaFails, TypeOK
<1>6. ASSUME NEW r \in Requests, LateCommit(r) PROVE TypeOK'
  BY <1>6 DEF TypeOK, LateCommit, Write
<1>7. CASE Expire
  BY <1>7 DEF TypeOK, Expire
<1>8. CASE UNCHANGED vars
  BY <1>8 DEF TypeOK, vars
<1> QED BY <1>1, <1>2, <1>3, <1>4, <1>5, <1>6, <1>7, <1>8 DEF Next

\* The initial state has the types.
LEMMA TypeInit == Init => TypeOK
<1> SUFFICES ASSUME Init PROVE TypeOK
  OBVIOUS
<1>1. expired \in BOOLEAN
  BY Zenon DEF Init
<1> QED BY <1>1 DEF Init, TypeOK, Phases, Outcomes

\* The type invariant holds in every reachable state.
THEOREM TypeCorrect == Spec => []TypeOK
<1>1. Init => TypeOK
  BY TypeInit
<1> QED BY <1>1, TypeStep, PTL DEF Spec

-----------------------------------------------------------------------------
(* The subscription names a request if and only if some PUT has been       *)
(* executed, and then one that has executed its own; a lambda that takes   *)
(* the gift for its own has executed its PUT.                              *)
RedeemerHasWritten ==
  /\ redeemer # Nobody => redeemer \in written
  /\ written # {} => redeemer # Nobody
OwnIsWritten ==
  \A r \in Requests :
    (phase[r] = "redeemed_in_this_request" \/ outcome[r] = "answered") => r \in written

WrittenInv == TypeOK /\ RedeemerHasWritten /\ OwnIsWritten /\ UsedByAnother

\* An error moves the phase to the next attempt or to the end, and only an
\* error that ends the state reports anything.
LEMMA LambdaErrorMoves ==
  ASSUME TypeOK, NEW r \in Requests, NEW e, NEW what, LambdaError(r, e, what)
  PROVE  /\ \A q \in Requests \ {r} : phase'[q] = phase[q] /\ outcome'[q] = outcome[q]
         /\ \/ phase'[r] = "waiting" /\ outcome'[r] = outcome[r]
            \/ phase'[r] = "ended" /\ outcome'[r] = what
<1>1. CASE Retried(FALSE, ToRetryException(e), retries[r])
  BY <1>1 DEF LambdaError, TypeOK
<1>2. CASE ~Retried(FALSE, ToRetryException(e), retries[r])
  BY <1>2 DEF LambdaError, TypeOK
<1> QED BY <1>1, <1>2

\* Writing keeps the relation between the redeemer and the executed PUTs.
LEMMA WriteKeeps ==
  ASSUME TypeOK, NEW r \in Requests, Write(r)
  PROVE  RedeemerHasWritten' /\ written \subseteq written' /\ r \in written'
BY RedemptionAssumption DEF Write, RedeemerHasWritten, TypeOK

\* Every step keeps the invariant of the executed PUTs.
LEMMA WrittenStep == WrittenInv /\ [Next]_vars => WrittenInv'
<1> SUFFICES ASSUME WrittenInv, [Next]_vars PROVE WrittenInv'
  OBVIOUS
<1>0. TypeOK /\ TypeOK'
  BY TypeStep DEF WrittenInv
<1> DEFINE Kept == RedeemerHasWritten /\ OwnIsWritten /\ UsedByAnother
<1> SUFFICES Kept'
  BY <1>0 DEF WrittenInv
<1>1. ASSUME NEW r \in Requests, Invoke(r) PROVE Kept'
  BY <1>0, <1>1
     DEF Invoke, WrittenInv, TypeOK, RedeemerHasWritten, OwnIsWritten, UsedByAnother, gift
<1>2. ASSUME NEW r \in Requests, LookUp(r) PROVE Kept'
  <2>0. UNCHANGED <<redeemer, written>>
    BY <1>2 DEF LookUp, gift
  <2>1. CASE GetSubscriptionState(r) \in Refusals
    <3>1. LambdaError(r, RuntimeException, GetSubscriptionState(r))
      BY <1>2, <2>1 DEF LookUp
    <3>2. GetSubscriptionState(r) = "code_already_used" => redeemer \in written /\ redeemer # r
      BY <1>0 DEF GetSubscriptionState, WrittenInv, RedeemerHasWritten, TypeOK
    <3>3. GetSubscriptionState(r) # "answered"
      BY <2>1 DEF Refusals
    <3>4. OwnIsWritten'
      BY <1>0, <2>0, <3>1, <3>3, LambdaErrorMoves DEF WrittenInv, OwnIsWritten
    <3>5. UsedByAnother'
      BY <1>0, <2>0, <3>1, <3>2, LambdaErrorMoves DEF WrittenInv, UsedByAnother, TypeOK
    <3> QED BY <2>0, <3>4, <3>5 DEF WrittenInv, RedeemerHasWritten
  <2>2. CASE GetSubscriptionState(r) \notin Refusals
    <3>1. phase' = [phase EXCEPT ![r] = GetSubscriptionState(r)] /\ outcome' = outcome
      BY <1>2, <2>2 DEF LookUp
    <3>2. GetSubscriptionState(r) = "redeemed_in_this_request" => redeemer = r /\ redeemer # Nobody
      BY <1>0, RedemptionAssumption DEF GetSubscriptionState, TypeOK
    <3>3. OwnIsWritten'
      BY <1>0, <2>0, <3>1, <3>2 DEF WrittenInv, OwnIsWritten, RedeemerHasWritten, TypeOK
    <3> QED BY <2>0, <3>1, <3>3 DEF WrittenInv, RedeemerHasWritten, UsedByAnother
  <2> QED BY <2>1, <2>2
<1>3. ASSUME NEW r \in Requests, UpdateSubscriptionRedemptionData(r) PROVE Kept'
  <2>1. Write(r) /\ outcome' = outcome
        /\ phase' = [phase EXCEPT ![r] = "redeemed_in_this_request"]
    BY <1>3 DEF UpdateSubscriptionRedemptionData
  <2> QED BY <1>0, <2>1, WriteKeeps DEF WrittenInv, OwnIsWritten, UsedByAnother, TypeOK
<1>4. ASSUME NEW r \in Requests, Answer(r) PROVE Kept'
  BY <1>0, <1>4
     DEF Answer, WrittenInv, TypeOK, RedeemerHasWritten, OwnIsWritten, UsedByAnother, gift
<1>5. ASSUME NEW r \in Requests, LambdaFails(r) PROVE Kept'
  <2>1. PICK e \in Faults : LambdaError(r, e, "error")
    BY <1>5 DEF LambdaFails
  <2>2. UNCHANGED <<redeemer, written>>
    BY <1>5 DEF LambdaFails
  <2> QED BY <1>0, <2>1, <2>2, LambdaErrorMoves
          DEF WrittenInv, RedeemerHasWritten, OwnIsWritten, UsedByAnother
<1>6. ASSUME NEW r \in Requests, LateCommit(r) PROVE Kept'
  <2>1. Write(r) /\ UNCHANGED <<phase, outcome>>
    BY <1>6 DEF LateCommit, lambda
  <2> QED BY <1>0, <2>1, WriteKeeps DEF WrittenInv, OwnIsWritten, UsedByAnother
<1>7. CASE Expire
  BY <1>7 DEF Expire, WrittenInv, RedeemerHasWritten, OwnIsWritten, UsedByAnother, lambda
<1>8. CASE UNCHANGED vars
  BY <1>8 DEF vars, gift, lambda, WrittenInv, RedeemerHasWritten, OwnIsWritten, UsedByAnother
<1> QED BY <1>1, <1>2, <1>3, <1>4, <1>5, <1>6, <1>7, <1>8 DEF Next

\* The invariant of the executed PUTs holds in every reachable state.
LEMMA WrittenInvariant == Spec => []WrittenInv
<1>1. Init => WrittenInv
  BY TypeInit DEF Init, WrittenInv, RedeemerHasWritten, OwnIsWritten, UsedByAnother
<1> QED BY <1>1, WrittenStep, PTL DEF Spec

(* Whoever is thanked has been written into the subscription, even when    *)
(* PUTs are executed late or the code expires meanwhile.                   *)
THEOREM AnsweredCorrect == Spec => []AnsweredIsWritten
<1>1. WrittenInv => AnsweredIsWritten
  BY DEF WrittenInv, OwnIsWritten, RedeemerHasWritten, AnsweredIsWritten
<1> QED BY <1>1, WrittenInvariant, PTL

\* A code is called used only when another request has redeemed it.
THEOREM UsedByAnotherCorrect == Spec => []UsedByAnother
<1>1. WrittenInv => UsedByAnother
  BY DEF WrittenInv
<1> QED BY <1>1, WrittenInvariant, PTL

-----------------------------------------------------------------------------
(* Without late PUTs and away from the end of the code's year, a request   *)
(* that has ended writes no more: a refusal is final.                      *)
Calm == ~LateCommits /\ ~MayExpire

RefusedInv ==
  /\ TypeOK
  /\ late = {} /\ ~expired
  /\ \A r \in Requests : outcome[r] # "none" => phase[r] = "ended"
  /\ RefusedHoldsNothing

\* Every step keeps the refusals final.
LEMMA RefusedStep == ASSUME Calm PROVE RefusedInv /\ [Next]_vars => RefusedInv'
<1> SUFFICES ASSUME RefusedInv, [Next]_vars PROVE RefusedInv'
  OBVIOUS
<1>0. TypeOK /\ TypeOK'
  BY TypeStep DEF RefusedInv
<1> USE <1>0
<1>1. ASSUME NEW r \in Requests, Invoke(r) PROVE RefusedInv'
  BY <1>1 DEF Invoke, RefusedInv, RefusedHoldsNothing, TypeOK, gift
<1>2. ASSUME NEW r \in Requests, LookUp(r) PROVE RefusedInv'
  <2>0. UNCHANGED <<redeemer, expired, late>> /\ phase[r] = "running"
    BY <1>2 DEF LookUp, gift
  <2>1. CASE GetSubscriptionState(r) \in Refusals
    <3>1. LambdaError(r, RuntimeException, GetSubscriptionState(r))
      BY <1>2, <2>1 DEF LookUp
    <3>2. redeemer # r
      BY <2>1, RedemptionAssumption DEF GetSubscriptionState, RefusedInv, Refusals, TypeOK
    <3> QED BY <2>0, <3>1, <3>2, LambdaErrorMoves DEF RefusedInv, RefusedHoldsNothing
  <2>2. CASE GetSubscriptionState(r) \notin Refusals
    <3>1. phase' = [phase EXCEPT ![r] = GetSubscriptionState(r)] /\ outcome' = outcome
      BY <1>2, <2>2 DEF LookUp
    <3> QED BY <2>0, <3>1 DEF RefusedInv, RefusedHoldsNothing, TypeOK
  <2> QED BY <2>1, <2>2
<1>3. ASSUME NEW r \in Requests, UpdateSubscriptionRedemptionData(r) PROVE RefusedInv'
  BY <1>3 DEF UpdateSubscriptionRedemptionData, Write, RefusedInv, RefusedHoldsNothing, TypeOK,
              Refusals
<1>4. ASSUME NEW r \in Requests, Answer(r) PROVE RefusedInv'
  BY <1>4 DEF Answer, RefusedInv, RefusedHoldsNothing, TypeOK, Refusals, gift
<1>5. ASSUME NEW r \in Requests, LambdaFails(r) PROVE RefusedInv'
  <2>1. PICK e \in Faults : LambdaError(r, e, "error")
    BY <1>5 DEF LambdaFails
  <2>2. UNCHANGED <<redeemer, expired, late>> /\ phase[r] # "ended"
    BY <1>5 DEF LambdaFails, Calm
  <2> QED BY <2>1, <2>2, LambdaErrorMoves DEF RefusedInv, RefusedHoldsNothing, Refusals
<1>6. ASSUME NEW r \in Requests, LateCommit(r) PROVE RefusedInv'
  BY <1>6 DEF LateCommit, RefusedInv
<1>7. CASE Expire
  BY <1>7 DEF Expire, Calm
<1>8. CASE UNCHANGED vars
  BY <1>8 DEF vars, gift, lambda, RefusedInv, RefusedHoldsNothing
<1> QED BY <1>1, <1>2, <1>3, <1>4, <1>5, <1>6, <1>7, <1>8 DEF Next

\* A request that has been refused does not hold the gift.
THEOREM RefusedCorrect == ASSUME Calm PROVE Spec => []RefusedHoldsNothing
<1>1. Init => RefusedInv
  BY TypeInit, RedemptionAssumption DEF Init, RefusedInv, RefusedHoldsNothing, Refusals
<1>2. RefusedInv => RefusedHoldsNothing
  BY DEF RefusedInv
<1> QED BY <1>1, <1>2, RefusedStep, PTL DEF Spec
=============================================================================
