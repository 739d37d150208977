------------------------ MODULE CheckoutPromiseProofs ------------------------
(***************************************************************************)
(* Theorems about checkouts for one subscription against a Zuora that does *)
(* not execute a call after its caller gave up: one subscription,          *)
(* nothing bought when declined, and that CheckoutExecution implements     *)
(* CheckoutPromise.                                                        *)
(***************************************************************************)
EXTENDS CheckoutExecutionProofs

(* The assumption the theorems of this module make.  Both halves are       *)
(* needed: MCSecondSubscription.cfg shows two subscriptions without the    *)
(* first, and a late commit after a fruitless look-up makes a second one.  *)
OneSubscriptionOnly == (\A in \in Inputs : ~in.threeTier) /\ ~LateCommits

SetupSteps == PrepareSteps \cup {"CreatePaymentMethod", "CreateSalesforceContact"}
PaymentErrors == PaymentFailures \cup Declines

(* Where a request can be in the machine, given what it has bought and     *)
(* what its customer has been told.                                        *)
NothingLate == late = {}
InputsAreSingle == \A r \in Requests : ~input[r].threeTier
SubsAreOfTheProduct == \A s \in subs : s.product = product[s.request]
AtMostOneEach == \A s, t \in subs : s.request = t.request => s = t
NoneBeforeZuora == \A r \in Requests : step[r] \in SetupSteps => OwnSubs(r) = {}
AbsentIsAbsent ==
  \A r \in Requests : step[r] \in ZuoraSteps /\ phase[r] = "absent" => OwnSubs(r) = {}
ThankedInParallel ==
  \A r \in Requests, p \in Products : thanked[r][p] > 0 => step[r] = "ParallelTasks"
ToldByFailureHandler == \A r \in Requests : apologised[r] > 0 => step[r] = "FailureHandler"
PaymentErrorBeforeSubs ==
  \A r \in Requests : error[r] \in PaymentErrors => step[r] = "FailureHandler" /\ OwnSubs(r) = {}

PromiseInv ==
  /\ OneSubscriptionOnly /\ NothingLate /\ InputsAreSingle
  /\ SubsAreOfTheProduct /\ AtMostOneEach /\ nextSub > 0
  /\ NoneBeforeZuora /\ AbsentIsAbsent /\ PaymentErrorBeforeSubs
  /\ ThankedInParallel /\ ToldByFailureHandler

\* An execution without an error has no payment error.
LEMMA NoErrorIsNone == NoError \notin PaymentErrors
BY DEF NoError, PaymentErrors, PaymentFailures, Declines

(* No lambda but the two that take a payment ends with a payment error.    *)
LEMMA PaymentErrorsRaised ==
  \A ph : ph # "absent" => \A s \in ZuoraSteps : ZuoraErrorsAt(s, ph) \cap PaymentErrors = {}
<1> SUFFICES ASSUME NEW ph, ph # "absent", NEW s \in ZuoraSteps,
                    NEW e \in ZuoraErrorsAt(s, ph), e \in PaymentErrors
             PROVE  FALSE
  OBVIOUS
<1>1. e \in Raised(s)
  BY DEF ZuoraErrorsAt, LostAnswers
<1>2. e \in Faults /\ e \notin Declines /\ e.service \in {"Zuora", "WebService", "General"}
  BY <1>1 DEF Raised, Services, ZuoraSteps, PrepareSteps
<1>3. e \in PaymentFailures
  BY <1>2 DEF PaymentErrors
<1>4. e = [service |-> "Zuora", code |-> "TRANSACTION_FAILED"]
  <2>1. \A x \in PaymentFailures : x.service = "Stripe"
                                  \/ x = [service |-> "Zuora", code |-> "TRANSACTION_FAILED"]
    <3>1. /\ [service |-> "Stripe", code |-> "card_error"].service = "Stripe"
          /\ [service |-> "Stripe", code |-> "invalid_request_error: test token"].service = "Stripe"
      OBVIOUS
    <3> QED BY <3>1, Zenon DEF PaymentFailures
  <2> QED BY <1>2, <1>3, <2>1
<1> QED BY <1>2, <1>4 DEF Declines

\* The invariant holds at first, when nothing has been bought.
LEMMA PromiseInit == Init /\ OneSubscriptionOnly => PromiseInv
<1> SUFFICES ASSUME Init, OneSubscriptionOnly PROVE PromiseInv
  OBVIOUS
<1>1. InputsAreSingle /\ NothingLate
  BY DEF Init, OneSubscriptionOnly, InputsAreSingle, NothingLate
<1>2. subs = {} /\ \A r \in Requests : OwnSubs(r) = {}
  BY DEF Init, OwnSubs
<1>3. SubsAreOfTheProduct /\ AtMostOneEach /\ nextSub > 0
  BY <1>2 DEF Init, SubsAreOfTheProduct, AtMostOneEach
<1>4. NoneBeforeZuora /\ AbsentIsAbsent
  BY <1>2 DEF NoneBeforeZuora, AbsentIsAbsent
<1>5. PaymentErrorBeforeSubs
  BY NoErrorIsNone DEF Init, PaymentErrorBeforeSubs
<1>6. ThankedInParallel /\ ToldByFailureHandler
  BY DEF Init, ThankedInParallel, ToldByFailureHandler
<1> QED BY <1>1, <1>3, <1>4, <1>5, <1>6 DEF PromiseInv

-----------------------------------------------------------------------------
(* What a step does to the parts of the state the invariant speaks of.     *)

(* A step of a machine that buys nothing and sends nothing.                *)
LEMMA QuietStep ==
  ASSUME TypeOK, PromiseInv, NEW r \in Requests,
         UNCHANGED <<input, product, zuora, thanked, apologised>>,
         \A q \in Requests : q # r => /\ step'[q] = step[q] /\ phase'[q] = phase[q]
                                      /\ error'[q] = error[q],
         step[r] = "ParallelTasks" => step'[r] = "ParallelTasks",
         step[r] = "FailureHandler" => step'[r] = "FailureHandler",
         step'[r] \in SetupSteps => step[r] \in SetupSteps,
         step'[r] \in ZuoraSteps /\ phase'[r] = "absent" => OwnSubs(r) = {},
         error'[r] \in PaymentErrors => error'[r] = error[r]
           \/ (step'[r] = "FailureHandler" /\ OwnSubs(r) = {})
  PROVE  PromiseInv'
<1> USE DEF zuora
<1>1. \A q \in Requests : OwnSubs(q)' = OwnSubs(q)
  BY DEF OwnSubs
<1>2. NothingLate' /\ InputsAreSingle' /\ SubsAreOfTheProduct' /\ AtMostOneEach' /\ (nextSub > 0)'
  BY DEF PromiseInv, NothingLate, InputsAreSingle, SubsAreOfTheProduct, AtMostOneEach
<1>3. NoneBeforeZuora' /\ AbsentIsAbsent'
  BY <1>1 DEF PromiseInv, NoneBeforeZuora, AbsentIsAbsent
<1>4. PaymentErrorBeforeSubs'
  <2> SUFFICES ASSUME NEW q \in Requests, error'[q] \in PaymentErrors
               PROVE  step'[q] = "FailureHandler" /\ OwnSubs(q) = {}
    BY <1>1 DEF PaymentErrorBeforeSubs
  <2>1. CASE error'[q] = error[q]
    BY <2>1 DEF PromiseInv, PaymentErrorBeforeSubs
  <2>2. CASE error'[q] # error[q]
    BY <2>2
  <2> QED BY <2>1, <2>2
<1>5. ThankedInParallel' /\ ToldByFailureHandler'
  BY DEF PromiseInv, ThankedInParallel, ToldByFailureHandler
<1> QED BY <1>2, <1>3, <1>4, <1>5 DEF PromiseInv

\* $.error changes only on the way to FailureHandler, and only the request's own.
LEMMA ErrorMoves ==
  ASSUME TypeOK, NEW r \in Requests, NEW e, LambdaError(r, e)
  PROVE  /\ \A q \in Requests : q # r => error'[q] = error[q]
         /\ \/ error' = error /\ step' = step
            \/ error'[r] = e /\ step'[r] = "FailureHandler" /\ step[r] # "FailureHandler"
BY LambdaErrorCases DEF TypeOK, Enter, Unanswered

\* The lambdas before the subscription keep the invariant.
LEMMA SetupKeepsPromise ==
  ASSUME TypeOK, PromiseInv, NEW r \in Requests, SetupLambda(r)
  PROVE  PromiseInv'
<1> USE DEF zuora, fulfilled, codes, parallel
<1>1. step[r] \in SetupSteps /\ OwnSubs(r) = {}
  BY DEF SetupLambda, CreatePaymentMethod, CreateSalesforceContact, PreparePaymentMethodForReuse,
         SetupFails, RefusePaymentMethod, Running, SetupSteps, PromiseInv, NoneBeforeZuora
<1>2. UNCHANGED <<input, product, subs, nextSub, late, thanked, apologised>>
  BY DEF SetupLambda, CreatePaymentMethod, CreateSalesforceContact, PreparePaymentMethodForReuse,
         SetupFails, RefusePaymentMethod
<1>3. \/ UNCHANGED error /\ \E s : Answer(r, s)
      \/ \E e : LambdaError(r, e)
  BY DEF SetupLambda, CreatePaymentMethod, CreateSalesforceContact, PreparePaymentMethodForReuse,
         SetupFails, RefusePaymentMethod
<1>4. /\ \A q \in Requests : q # r => /\ step'[q] = step[q] /\ phase'[q] = phase[q]
                                      /\ error'[q] = error[q]
      /\ phase'[r] \in {"waiting", "idle"}
      /\ error'[r] = error[r] \/ step'[r] = "FailureHandler"
  BY <1>3, AnswerMoves, LambdaErrorMoves, ErrorMoves
<1>5. step[r] \notin {"ParallelTasks", "FailureHandler"}
  BY <1>1 DEF SetupSteps, PrepareSteps
<1> QED BY <1>1, <1>2, <1>4, <1>5, QuietStep

\* A look-up that finds nothing, or another product, proves that nothing was bought.
LEMMA LookUpKeepsPromise ==
  ASSUME TypeOK, PromiseInv, NEW r \in Requests, LookUp(r)
  PROVE  PromiseInv'
<1> USE DEF zuora, fulfilled, machine
<1>1. phase'[r] = "absent" => OwnSubs(r) = {}
  <2> SUFFICES ASSUME NEW s \in OwnSubs(r), phase'[r] = "absent" PROVE FALSE
    OBVIOUS
  <2>1. OwnSubs(r) # {}
    OBVIOUS
  <2>2. PICK t \in OwnSubs(r) :
          phase' = [phase EXCEPT ![r] = IF RatePlansMatch(t, product[r]) THEN "known" ELSE "absent"]
    BY <2>1 DEF LookUp, GetSubscriptionWithCurrentRequestId
  <2>3. ~RatePlansMatch(t, product[r])
    BY <2>2 DEF TypeOK
  <2> QED BY <2>3 DEF PromiseInv, SubsAreOfTheProduct, RatePlansMatch, OwnSubs
<1>2. \A q \in Requests : q # r => phase'[q] = phase[q]
  BY DEF LookUp, TypeOK
<1> QED BY <1>1, <1>2, QuietStep DEF LookUp

\* The subscribe call buys the first and only subscription of its request.
LEMMA SubscribeKeepsPromise ==
  ASSUME TypeOK, PromiseInv, NEW r \in Requests, Subscribe(r)
  PROVE  PromiseInv'
<1> USE DEF zuora, fulfilled
<1> DEFINE new == NewSub(SubscribeCall(r))
<1>1. /\ OwnSubs(r) = {} /\ step[r] \in ZuoraSteps
      /\ subs' = subs \cup {new} /\ nextSub' = nextSub + 1
      /\ UNCHANGED <<input, step, product, error, late, thanked, apologised>>
  BY DEF Subscribe, CreateInZuora, PromiseInv, AbsentIsAbsent
<1>2. new.request = r /\ new.product = product[r]
  BY DEF NewSub, SubscribeCall
<1>3. \A q \in Requests : q # r => OwnSubs(q)' = OwnSubs(q) /\ phase'[q] = phase[q]
  BY <1>1, <1>2 DEF OwnSubs, Subscribe, TypeOK
<1>4. phase'[r] = "known"
  BY DEF Subscribe, TypeOK
<1>5. step[r] \notin SetupSteps \cup {"FailureHandler"}
  BY <1>1 DEF ZuoraSteps, SetupSteps, PrepareSteps
<1>6. NothingLate' /\ InputsAreSingle' /\ (nextSub > 0)'
  BY <1>1 DEF PromiseInv, NothingLate, InputsAreSingle, TypeOK
<1>7. SubsAreOfTheProduct' /\ AtMostOneEach'
  BY <1>1, <1>2 DEF PromiseInv, SubsAreOfTheProduct, AtMostOneEach, OwnSubs
<1>8. NoneBeforeZuora' /\ AbsentIsAbsent'
  BY <1>1, <1>3, <1>4, <1>5 DEF PromiseInv, NoneBeforeZuora, AbsentIsAbsent
<1>9. PaymentErrorBeforeSubs'
  BY <1>1, <1>3, <1>5 DEF PromiseInv, PaymentErrorBeforeSubs
<1>10. ThankedInParallel' /\ ToldByFailureHandler'
  BY <1>1 DEF PromiseInv, ThankedInParallel, ToldByFailureHandler
<1> QED BY <1>6, <1>7, <1>8, <1>9, <1>10 DEF PromiseInv

\* CreateZuoraSubscription keeps the invariant.
LEMMA ZuoraKeepsPromise ==
  ASSUME TypeOK, PromiseInv, NEW r \in Requests, ZuoraLambda(r)
  PROVE  PromiseInv'
<1> USE DEF zuora, fulfilled, accounts
<1>1. CASE LookUp(r)
  BY <1>1, LookUpKeepsPromise
<1>2. CASE Subscribe(r)
  BY <1>2, SubscribeKeepsPromise
<1>3. CASE SubscriptionKnown(r)
  <2>1. /\ \A q \in Requests : q # r => step'[q] = step[q] /\ phase'[q] = phase[q]
        /\ step'[r] \in {step[r], "ParallelTasks"} /\ phase'[r] \in {"waiting", "idle"}
    BY <1>3, AnswerMoves DEF SubscriptionKnown
  <2>2. step[r] \notin {"ParallelTasks", "FailureHandler"}
    BY <1>3 DEF SubscriptionKnown, ZuoraSteps
  <2>3. "ParallelTasks" \notin SetupSteps
    BY DEF SetupSteps, PrepareSteps
  <2>4. UNCHANGED <<input, product, error, subs, nextSub, late, thanked, apologised>>
    BY <1>3 DEF SubscriptionKnown
  <2> QED BY <2>1, <2>2, <2>3, <2>4, QuietStep
<1>4. CASE ZuoraFails(r)
  <2>1. PICK e \in ZuoraErrorsAt(step[r], phase[r]) : LambdaError(r, e)
    BY <1>4 DEF ZuoraFails
  <2>2. /\ \A q \in Requests : q # r => /\ step'[q] = step[q] /\ phase'[q] = phase[q]
                                        /\ error'[q] = error[q]
        /\ step'[r] \in {step[r], "FailureHandler"} /\ phase'[r] \in {"waiting", "idle"}
        /\ error'[r] = error[r] \/ (error'[r] = e /\ step'[r] = "FailureHandler")
    BY <2>1, LambdaErrorMoves, ErrorMoves
  <2>3. step[r] \in ZuoraSteps /\ step[r] \notin {"ParallelTasks", "FailureHandler"}
    BY <1>4 DEF ZuoraFails, ZuoraSteps
  <2>4. e \in PaymentErrors => OwnSubs(r) = {}
    BY <2>1, <2>3, PaymentErrorsRaised DEF PromiseInv, AbsentIsAbsent
  <2>5. UNCHANGED <<input, product, subs, nextSub, late, thanked, apologised>>
    BY <1>4 DEF ZuoraFails, PromiseInv, OneSubscriptionOnly
  <2>6. "FailureHandler" \notin SetupSteps
    BY DEF SetupSteps, PrepareSteps
  <2> QED BY <2>2, <2>3, <2>4, <2>5, <2>6, QuietStep
<1> QED BY <1>1, <1>2, <1>3, <1>4 DEF ZuoraLambda

(* FailureHandler mails in its own state, which no thank-you has come      *)
(* before.                                                                 *)
LEMMA FailureLambdaKeepsPromise ==
  ASSUME TypeOK, PromiseInv, NEW r \in Requests, FailureLambda(r)
  PROVE  PromiseInv'
<1> USE DEF zuora, fulfilled, codes, parallel, accounts
<1>1. step[r] = "FailureHandler"
  BY DEF FailureLambda, FailureHandler, FailureHandlerFails, Running
<1>2. UNCHANGED <<input, product, subs, nextSub, late, thanked>>
  BY DEF FailureLambda, FailureHandler, FailureHandlerFails
<1>3. UNCHANGED <<step, error>>
  <2>1. CASE FailureHandler(r)
    BY <2>1 DEF FailureHandler, Unanswered
  <2>2. CASE FailureHandlerFails(r)
    BY <1>1, <2>2, ErrorMoves DEF FailureHandlerFails
  <2> QED BY <2>1, <2>2 DEF FailureLambda
<1>4. \A q \in Requests : q # r => /\ phase'[q] = phase[q] /\ apologised'[q] = apologised[q]
  <2>1. CASE FailureHandler(r)
    BY <2>1 DEF FailureHandler, Unanswered, TypeOK
  <2>2. CASE FailureHandlerFails(r)
    BY <2>2, LambdaErrorMoves DEF FailureHandlerFails, TypeOK
  <2> QED BY <2>1, <2>2 DEF FailureLambda
<1>5. NothingLate' /\ InputsAreSingle' /\ SubsAreOfTheProduct' /\ AtMostOneEach' /\ (nextSub > 0)'
  BY <1>2 DEF PromiseInv, NothingLate, InputsAreSingle, SubsAreOfTheProduct, AtMostOneEach
<1>6. NoneBeforeZuora' /\ AbsentIsAbsent' /\ PaymentErrorBeforeSubs'
  BY <1>1, <1>2, <1>3, <1>4
     DEF PromiseInv, NoneBeforeZuora, AbsentIsAbsent, PaymentErrorBeforeSubs, OwnSubs, ZuoraSteps
<1>7. ThankedInParallel' /\ ToldByFailureHandler'
  BY <1>1, <1>2, <1>3, <1>4 DEF PromiseInv, ThankedInParallel, ToldByFailureHandler
<1> QED BY <1>5, <1>6, <1>7 DEF PromiseInv

\* A branch thanks and records only while its execution is in ParallelTasks.
LEMMA BranchKeepsPromise ==
  ASSUME TypeOK, FulfilInv, PromiseInv, NEW r \in Requests, NEW b \in Branches,
         BranchLambda(r, b)
  PROVE  PromiseInv'
<1> USE DEF zuora, fulfilled, machine, codes, accounts
<1>1. UNCHANGED <<input, step, phase, product, error, subs, nextSub, late, apologised>>
  BY DEF BranchLambda, BranchCompletes, BranchFails
<1>2. step[r] = "ParallelTasks"
  BY DEF BranchLambda, BranchCompletes, BranchFails, FulfilInv, BranchRunsInParallel
<1>3. ThankedInParallel'
  <2> SUFFICES ASSUME NEW q \in Requests, NEW p \in Products, thanked'[q][p] > 0
               PROVE  step[q] = "ParallelTasks"
    BY <1>1 DEF ThankedInParallel
  <2>1. thanked' = thanked \/ thanked' = [thanked EXCEPT ![r][product[r]] = thanked[r][product[r]] + 1]
    BY DEF BranchLambda, BranchCompletes, BranchFails, Deliver
  <2>2. CASE q = r
    BY <1>2, <2>2
  <2>3. CASE q # r
    BY <2>1, <2>3 DEF TypeOK, PromiseInv, ThankedInParallel
  <2> QED BY <2>2, <2>3
<1> QED BY <1>1, <1>3
        DEF PromiseInv, NothingLate, InputsAreSingle, SubsAreOfTheProduct, AtMostOneEach,
        NoneBeforeZuora, AbsentIsAbsent, PaymentErrorBeforeSubs, ToldByFailureHandler, OwnSubs

\* Every step keeps the invariant.
LEMMA PromiseStep == TypeOK /\ FulfilInv /\ PromiseInv /\ [Next]_vars => PromiseInv'
<1> SUFFICES ASSUME TypeOK, FulfilInv, PromiseInv, [Next]_vars PROVE PromiseInv'
  OBVIOUS
<1> USE DEF machine, codes, parallel, zuora, fulfilled, accounts
<1> DEFINE Kept == UNCHANGED <<input, step, phase, product, error, subs, nextSub, late,
                               thanked, apologised>>
<1>1. Kept => PromiseInv'
  BY DEF PromiseInv, NothingLate, InputsAreSingle, SubsAreOfTheProduct, AtMostOneEach,
        NoneBeforeZuora, AbsentIsAbsent, PaymentErrorBeforeSubs, ThankedInParallel,
        ToldByFailureHandler, OwnSubs
<1>2. CASE UNCHANGED vars
  BY <1>1, <1>2 DEF vars
<1>3. ASSUME NEW r \in Requests, Invoke(r) PROVE PromiseInv'
  <2>1. (\A q \in Requests : q # r => phase'[q] = phase[q]) /\ phase'[r] = "running"
    BY <1>3 DEF Invoke, TypeOK
  <2> QED BY <1>3, <2>1, QuietStep DEF Invoke
<1>4. ASSUME NEW r \in Requests, CheckoutSuccess(r) PROVE PromiseInv'
  BY <1>1, <1>4 DEF CheckoutSuccess
<1>5. ASSUME NEW r \in Requests, Join(r) PROVE PromiseInv'
  <2>1. ~SecondSubscriptionDue(r)
    BY DEF PromiseInv, InputsAreSingle, SecondSubscriptionDue
  <2> QED BY <1>1, <1>5, <2>1 DEF Join
<1>6. ASSUME NEW r \in Requests, ExecutionTimesOut(r) PROVE PromiseInv'
  BY <1>1, <1>6 DEF ExecutionTimesOut
<1>7. ASSUME NEW r \in Requests, NEW b \in Branches, InvokeBranch(r, b) PROVE PromiseInv'
  BY <1>1, <1>7 DEF InvokeBranch
<1>8. ~LateCommit
  BY DEF PromiseInv, NothingLate, LateCommit
<1> QED BY <1>2, <1>3, <1>4, <1>5, <1>6, <1>7, <1>8, SetupKeepsPromise, ZuoraKeepsPromise,
           FailureLambdaKeepsPromise, BranchKeepsPromise DEF Next

\* The invariant, with the two it rests on, holds in every reachable state.
LEMMA PromiseInvariant == Spec /\ OneSubscriptionOnly => [](TypeOK /\ FulfilInv /\ PromiseInv)
<1>1. Init /\ OneSubscriptionOnly => TypeOK /\ FulfilInv /\ PromiseInv
  BY TypeInit, FulfilInit, PromiseInit
<1>2. TypeOK /\ FulfilInv /\ PromiseInv /\ [Next]_vars => (TypeOK /\ FulfilInv /\ PromiseInv)'
  BY TypeStep, FulfilStep, PromiseStep
<1> QED BY <1>1, <1>2, PTL DEF Spec

-----------------------------------------------------------------------------
(* The theorems.                                                           *)

(* However many attempts fail with their subscribe call's answer lost,     *)
(* ensureSubscriptionCreated makes one subscription per request.           *)
THEOREM OneSubscriptionCorrect == Spec /\ OneSubscriptionOnly => []OneSubscriptionPerProduct
<1>1. PromiseInv => OneSubscriptionPerProduct
  BY DEF PromiseInv, AtMostOneEach, OneSubscriptionPerProduct
<1> QED BY <1>1, PromiseInvariant, PTL

(* Nobody whose payment was declined holds a subscription.                 *)
THEOREM DeclinedCorrect == Spec /\ OneSubscriptionOnly => []DeclinedBoughtNothing
<1>1. PromiseInv => DeclinedBoughtNothing
  BY DEF PromiseInv, PaymentErrorBeforeSubs, PaymentErrors, DeclinedBoughtNothing
<1> QED BY <1>1, PromiseInvariant, PTL

-----------------------------------------------------------------------------
(* Refinement.                                                             *)

Purchases == {[id |-> s.id, request |-> s.request, product |-> s.product] : s \in subs}

\* A request has bought in the promise's sense if it has a subscription in Zuora.
LEMMA BoughtMapped ==
  ASSUME NEW r
  PROVE  Promise!Bought(r) <=> OwnSubs(r) # {}
<1> DEFINE image(s) == [id |-> s.id, request |-> s.request, product |-> s.product]
<1>1. \A s : image(s).request = s.request
  OBVIOUS
<1>2. Promise!Bought(r) <=> \E x \in {image(s) : s \in subs} : x.request = r
  BY DEF Promise!Bought
<1>3. (\E x \in {image(s) : s \in subs} : x.request = r) <=> \E s \in subs : image(s).request = r
  OBVIOUS
<1> HIDE DEF image
<1> QED BY <1>1, <1>2, <1>3 DEF OwnSubs

(* A step that buys, thanks and tells nothing, and gives no error to a     *)
(* customer who has been told of one, is a stutter of the promise.         *)
LEMMA SilentStep ==
  ASSUME UNCHANGED <<subs, thanked, apologised>>,
         \A r \in Requests : apologised[r] > 0 => error'[r] = error[r]
  PROVE  UNCHANGED Promise!vars
BY DEF Promise!vars, Thanked, Told, PaymentDeclined

\* The subscribe call is the promise's Buy.
LEMMA SubscribeBuys ==
  ASSUME TypeOK, PromiseInv, NEW r \in Requests, Subscribe(r)
  PROVE  \E p \in Products : Promise!Buy(r, p)
<1> USE DEF zuora, fulfilled
<1>0. PICK p \in Products : p = product[r]
  BY DEF TypeOK
<1> DEFINE new == NewSub(SubscribeCall(r))
<1>1. /\ OwnSubs(r) = {} /\ step[r] \in ZuoraSteps /\ nextSub <= MaxSubs
      /\ subs' = subs \cup {new} /\ UNCHANGED <<error, thanked, apologised>>
  BY DEF Subscribe, CreateInZuora, PromiseInv, AbsentIsAbsent
<1>2. new.id = nextSub /\ new.request = r /\ new.product = product[r]
  BY DEF NewSub, SubscribeCall
<1>3. Purchases' = {[id |-> nextSub, request |-> r, product |-> p]} \cup Purchases
  BY <1>0, <1>1, <1>2 DEF Purchases
<1>4. nextSub \in 1..MaxSubs
  BY <1>1, ExecutionAssumption DEF PromiseInv, TypeOK
<1>5. ~Promise!Bought(r) /\ r \notin Told
  BY <1>1, BoughtMapped DEF Told, PromiseInv, ToldByFailureHandler, ZuoraSteps
<1>6. UNCHANGED <<Thanked, Told, PaymentDeclined>>
  BY <1>1 DEF Thanked, Told, PaymentDeclined
<1>7. Promise!Buy(r, p)
  BY <1>3, <1>4, <1>5, <1>6 DEF Promise!Buy, Purchases
<1> QED BY <1>7

\* The thank-you e-mail is a Welcome; the other branches change nothing the promise sees.
LEMMA DeliverWelcomes ==
  ASSUME TypeOK, FulfilInv, PromiseInv, NEW r \in Requests, NEW b \in Branches,
         BranchLambda(r, b)
  PROVE  (\E p \in Products : Promise!Welcome(r, p)) \/ UNCHANGED Promise!vars
<1> USE DEF zuora, fulfilled, machine, codes, accounts
<1>1. UNCHANGED <<error, subs, apologised>> /\ (thanked' = thanked \/ Deliver(r, b))
  BY DEF BranchLambda, BranchCompletes, BranchFails
<1>2. step[r] = "ParallelTasks" /\ Purchased(r, product[r]) /\ product[r] \in Products
  BY DEF BranchLambda, BranchCompletes, BranchFails, FulfilInv, BranchRunsInParallel,
         ParallelIsPurchased, TypeOK
<1>3. CASE thanked' = thanked
  BY <1>1, <1>3, SilentStep
<1>4. CASE thanked' = [thanked EXCEPT ![r][product[r]] = thanked[r][product[r]] + 1]
  <2>1. Thanked' = Thanked \cup {[request |-> r, product |-> product[r]]}
    <3> DEFINE item == [request |-> r, product |-> product[r]]
    <3>1. item \in Items /\ \A i \in Items : (i.request = r /\ i.product = product[r]) => i = item
      BY <1>2 DEF Items
    <3>2. \A i \in Items : i # item => thanked'[i.request][i.product] = thanked[i.request][i.product]
      BY <1>2, <1>4, <3>1 DEF TypeOK, Items
    <3>3. thanked'[r][product[r]] > 0
      BY <1>2, <1>4 DEF TypeOK
    <3> QED BY <3>1, <3>2, <3>3 DEF Thanked
  <2>2. \E s \in Purchases : s.request = r /\ s.product = product[r]
    <3>1. PICK s \in subs : s.request = r /\ s.product = product[r]
      BY <1>2 DEF Purchased
    <3>2. [id |-> s.id, request |-> s.request, product |-> s.product] \in Purchases
      BY DEF Purchases
    <3> QED BY <3>1, <3>2
  <2>3. r \notin Told
    BY <1>2 DEF Told, PromiseInv, ToldByFailureHandler
  <2>4. UNCHANGED <<Purchases, Told, PaymentDeclined>>
    BY <1>1 DEF Purchases, Told, PaymentDeclined
  <2>5. PICK p \in Products : p = product[r]
    BY <1>2
  <2>6. Promise!Welcome(r, p)
    BY <2>1, <2>2, <2>3, <2>4, <2>5 DEF Promise!Welcome, Purchases
  <2> QED BY <2>6
<1>5. thanked' = thanked \/ thanked' = [thanked EXCEPT ![r][product[r]] = thanked[r][product[r]] + 1]
  BY <1>1 DEF Deliver
<1> QED BY <1>3, <1>4, <1>5

\* The failure e-mail is a Decline if the error is one of payment, and a Fail otherwise.
LEMMA FailureTells ==
  ASSUME TypeOK, PromiseInv, NEW r \in Requests, FailureLambda(r)
  PROVE  Promise!Fail(r) \/ Promise!Decline(r) \/ UNCHANGED Promise!vars
<1> USE DEF zuora, fulfilled, codes, parallel, accounts
<1>1. step[r] = "FailureHandler" /\ UNCHANGED <<subs, thanked>>
  BY DEF FailureLambda, FailureHandler, FailureHandlerFails, Running
<1>2. UNCHANGED error
  BY <1>1, ErrorMoves DEF FailureLambda, FailureHandler, FailureHandlerFails
<1>3. apologised' = apologised \/ apologised' = [apologised EXCEPT ![r] = apologised[r] + 1]
  BY DEF FailureLambda, FailureHandler, FailureHandlerFails
<1>4. CASE apologised' = apologised
  BY <1>1, <1>2, <1>4, SilentStep
<1>5. CASE apologised' = [apologised EXCEPT ![r] = apologised[r] + 1]
  <2>1. Told' = Told \cup {r}
    BY <1>5 DEF Told, TypeOK
  <2>2. UNCHANGED <<Purchases, Thanked>>
    BY <1>1 DEF Purchases, Thanked
  <2>3. CASE error[r] \in PaymentErrors
    <3>1. ~Promise!Bought(r)
      BY <2>3, BoughtMapped DEF PromiseInv, PaymentErrorBeforeSubs
    <3>2. PaymentDeclined' = PaymentDeclined \cup {r}
      BY <1>2, <2>1, <2>3 DEF PaymentDeclined, PaymentErrors
    <3> QED BY <2>1, <2>2, <3>1, <3>2 DEF Promise!Decline, Purchases
  <2>4. CASE error[r] \notin PaymentErrors
    <3>1. Promise!Unwelcomed(r)
      BY <1>1 DEF Promise!Unwelcomed, Thanked, Items, PromiseInv, ThankedInParallel
    <3>2. PaymentDeclined' = PaymentDeclined
      BY <1>2, <2>1, <2>4 DEF PaymentDeclined, PaymentErrors
    <3> QED BY <2>1, <2>2, <3>1, <3>2 DEF Promise!Fail, Purchases
  <2> QED BY <2>3, <2>4
<1> QED BY <1>3, <1>4, <1>5

\* Initial states map to the initial state.
LEMMA PromiseInitMapped == Init => Promise!Init
<1> SUFFICES ASSUME Init PROVE Promise!Init
  OBVIOUS
<1>1. subs = {} /\ Thanked = {} /\ Told = {} /\ PaymentDeclined = {}
  BY DEF Init, Thanked, Told, PaymentDeclined, Items
<1> QED BY <1>1 DEF Promise!Init

\* Every step maps to a step of the promise or to a stutter.
LEMMA PromiseNextMapped ==
  TypeOK /\ FulfilInv /\ PromiseInv /\ [Next]_vars => [Promise!Next]_(Promise!vars)
<1> SUFFICES ASSUME TypeOK, FulfilInv, PromiseInv, [Next]_vars
             PROVE  Promise!Next \/ UNCHANGED Promise!vars
  OBVIOUS
<1> USE DEF machine, codes, parallel, zuora, fulfilled, accounts
<1>1. UNCHANGED <<subs, thanked, apologised, error>> => UNCHANGED Promise!vars
  BY SilentStep
<1>2. CASE UNCHANGED vars
  BY <1>1, <1>2 DEF vars
<1>3. ASSUME NEW r \in Requests, SetupLambda(r) \/ ZuoraLambda(r), ~Subscribe(r)
      PROVE  UNCHANGED Promise!vars
  <2>1. UNCHANGED <<subs, thanked, apologised>>
    BY <1>3 DEF SetupLambda, CreatePaymentMethod, CreateSalesforceContact,
       PreparePaymentMethodForReuse, SetupFails,
        RefusePaymentMethod, ZuoraLambda, LookUp, SubscriptionKnown, ZuoraFails
  <2>2. step[r] # "FailureHandler"
    BY <1>3 DEF SetupLambda, CreatePaymentMethod, CreateSalesforceContact,
       PreparePaymentMethodForReuse, SetupFails,
        RefusePaymentMethod, ZuoraLambda, LookUp, Subscribe, SubscriptionKnown,
       ZuoraFails, Running, PrepareSteps, ZuoraSteps
  <2>3. UNCHANGED error \/ \E e : LambdaError(r, e)
    BY <1>3 DEF SetupLambda, CreatePaymentMethod, CreateSalesforceContact,
       PreparePaymentMethodForReuse, SetupFails,
        RefusePaymentMethod, ZuoraLambda, LookUp, SubscriptionKnown, ZuoraFails
  <2>4. \A q \in Requests : q # r => error'[q] = error[q]
    BY <2>3, ErrorMoves
  <2>5. ~(apologised[r] > 0)
    BY <2>2 DEF PromiseInv, ToldByFailureHandler
  <2> QED BY <2>1, <2>4, <2>5, SilentStep
<1>4. ASSUME NEW r \in Requests, Subscribe(r) PROVE Promise!Next
  BY <1>4, SubscribeBuys DEF Promise!Next
<1>5. ASSUME NEW r \in Requests, FailureLambda(r) PROVE Promise!Next \/ UNCHANGED Promise!vars
  BY <1>5, FailureTells DEF Promise!Next
<1>6. ASSUME NEW r \in Requests, NEW b \in Branches, BranchLambda(r, b)
      PROVE  Promise!Next \/ UNCHANGED Promise!vars
  BY <1>6, DeliverWelcomes DEF Promise!Next
<1>7. ASSUME NEW r \in Requests,
             Invoke(r) \/ CheckoutSuccess(r) \/ Join(r) \/ ExecutionTimesOut(r)
             \/ \E b \in Branches : InvokeBranch(r, b)
      PROVE  UNCHANGED Promise!vars
  BY <1>1, <1>7 DEF Invoke, CheckoutSuccess, Join, ExecutionTimesOut, InvokeBranch
<1>8. ~LateCommit
  BY DEF PromiseInv, NothingLate, LateCommit
<1> QED BY <1>2, <1>3, <1>4, <1>5, <1>6, <1>7, <1>8 DEF Next, ZuoraLambda

(* CheckoutExecution implements CheckoutPromise.                           *)
THEOREM PromiseImplemented == Spec /\ OneSubscriptionOnly => ImplementsPromise
<1>1. Init => Promise!Init
  BY PromiseInitMapped
<1>2. TypeOK /\ FulfilInv /\ PromiseInv /\ [Next]_vars => [Promise!Next]_(Promise!vars)
  BY PromiseNextMapped
<1> QED BY <1>1, <1>2, PromiseInvariant, PTL DEF Spec, ImplementsPromise, Promise!Spec

=============================================================================
