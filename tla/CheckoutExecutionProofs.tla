----------------------- MODULE CheckoutExecutionProofs -----------------------
(***************************************************************************)
(* Theorems about CheckoutExecution, for every set of requests, inputs,    *)
(* codes and faults and every number of attempts.                          *)
(***************************************************************************)
EXTENDS CheckoutExecution, TLAPS

(* The errors the model raises are errors the handlers classify.           *)
LEMMA ErrorsAreExceptions ==
  /\ Faults \subseteq Exceptions
  /\ RuntimeException \in Exceptions
  /\ \A s, ph : Raised(s) \subseteq Faults /\ LostAnswers(s) \subseteq Faults
                /\ ZuoraErrorsAt(s, ph) \subseteq Faults
<1>1. Faults \subseteq Exceptions
  BY ExecutionAssumption
<1>2. RuntimeException \in Exceptions
  BY DEF RuntimeException, Exceptions, GeneralErrors, ErrorsOf
<1>3. \A s, ph : Raised(s) \subseteq Faults /\ LostAnswers(s) \subseteq Faults
                 /\ ZuoraErrorsAt(s, ph) \subseteq Faults
  BY DEF Raised, LostAnswers, ZuoraErrorsAt, Declines
<1> QED BY <1>1, <1>2, <1>3

-----------------------------------------------------------------------------
(* Type correctness.                                                       *)

\* The initial state has the types.
LEMMA TypeInit == Init => TypeOK
<1> SUFFICES ASSUME Init PROVE TypeOK
  OBVIOUS
<1>1. input \in [Requests -> InputType]
  BY ExecutionAssumption DEF Init
<1>2. /\ step \in [Requests -> Steps]
      /\ product \in [Requests -> Products]
  BY <1>1 DEF Init, FirstStep, Steps, LambdaSteps, PrepareSteps, InputType
<1>3. history \in [Requests -> Seq({"CheckoutSuccess", "SucceedOrFailChoice"})]
  BY DEF Init
<1> QED BY <1>1, <1>2, <1>3 DEF Init, TypeOK, Outcomes, Phases, BranchPhases

(* The part of the type that the machine's own variables have.             *)
MachineType ==
  /\ status \in [Requests -> Outcomes] /\ step \in [Requests -> Steps]
  /\ phase \in [Requests -> Phases] /\ retries \in [Requests -> Nat]
  /\ error \in [Requests -> Exceptions \cup {NoError}]

\* Entering a state of the machine keeps the types.
LEMMA EnterType ==
  ASSUME MachineType, NEW r \in Requests, NEW s \in Steps, Enter(r, s)
  PROVE  step' \in [Requests -> Steps] /\ phase' \in [Requests -> Phases]
         /\ retries' \in [Requests -> Nat]
<1>1. "waiting" \in Phases
  BY DEF Phases
<1> QED BY <1>1 DEF MachineType, Enter

\* So does an answer nobody waits for,
LEMMA UnansweredType ==
  ASSUME MachineType, NEW r \in Requests, Unanswered(r)
  PROVE  step' \in [Requests -> Steps] /\ phase' \in [Requests -> Phases]
         /\ retries' \in [Requests -> Nat]
<1>1. "idle" \in Phases
  BY DEF Phases
<1> QED BY <1>1 DEF MachineType, Unanswered

\* and hence every answer.
LEMMA AnswerType ==
  ASSUME MachineType, NEW r \in Requests, NEW s \in Steps, Answer(r, s)
  PROVE  step' \in [Requests -> Steps] /\ phase' \in [Requests -> Phases]
         /\ retries' \in [Requests -> Nat]
BY EnterType, UnansweredType DEF Answer

(* The four outcomes of an error: nobody waits, another attempt, the       *)
(* FailureHandler's own failure, the Catch block.                          *)
LEMMA LambdaErrorCases ==
  ASSUME NEW r, NEW e, LambdaError(r, e)
  PROVE  \/ ~Alive(r) /\ Unanswered(r) /\ UNCHANGED <<status, error>>
         \/ /\ Alive(r) /\ phase' = [phase EXCEPT ![r] = "waiting"]
            /\ retries' = retries \/ retries' = [retries EXCEPT ![r] = retries[r] + 1]
            /\ UNCHANGED <<step, status, error>>
         \/ /\ Alive(r) /\ step[r] = "FailureHandler" /\ Unanswered(r) /\ UNCHANGED error
            /\ status' = [status EXCEPT ![r] = "FAILED"]
         \/ /\ Alive(r) /\ step[r] # "FailureHandler" /\ Enter(r, "FailureHandler")
            /\ error' = [error EXCEPT ![r] = e] /\ UNCHANGED status
<1> HIDE DEF Unanswered, Enter, Alive, Retried, Counted, ToRetryException
<1> QED BY DEF LambdaError

\* An error keeps the types, whichever of the four happens.
LEMMA LambdaErrorType ==
  ASSUME MachineType, NEW r \in Requests, NEW e \in Exceptions, LambdaError(r, e)
  PROVE  MachineType'
<1>1. CASE ~Alive(r) /\ Unanswered(r) /\ UNCHANGED <<status, error>>
  BY <1>1, UnansweredType DEF MachineType
<1>2. CASE /\ phase' = [phase EXCEPT ![r] = "waiting"]
           /\ retries' = retries \/ retries' = [retries EXCEPT ![r] = retries[r] + 1]
           /\ UNCHANGED <<step, status, error>>
  <2>1. retries' \in [Requests -> Nat]
    BY <1>2 DEF MachineType
  <2> QED BY <1>2, <2>1 DEF MachineType, Phases
<1>3. CASE Unanswered(r) /\ UNCHANGED error /\ status' = [status EXCEPT ![r] = "FAILED"]
  BY <1>3, UnansweredType DEF MachineType, Outcomes
<1>4. CASE Enter(r, "FailureHandler") /\ error' = [error EXCEPT ![r] = e] /\ UNCHANGED status
  <2>1. "FailureHandler" \in Steps
    BY DEF Steps, LambdaSteps
  <2> QED BY <1>4, <2>1, EnterType DEF MachineType
<1> QED BY <1>1, <1>2, <1>3, <1>4, LambdaErrorCases

(* Deliver adds one e-mail, row or event of the branch's product.          *)
LEMMA DeliverType ==
  ASSUME TypeOK, NEW r \in Requests, NEW b \in Branches, Deliver(r, b)
  PROVE  /\ thanked' \in [Requests -> [Products -> Nat]]
         /\ rows' \subseteq Items /\ events' \subseteq Items
<1>1. /\ thanked \in [Requests -> [Products -> Nat]] /\ product[r] \in Products
      /\ rows \subseteq Items /\ events \subseteq Items
  BY DEF TypeOK
<1>2. thanked' = thanked \/ thanked' = [thanked EXCEPT ![r][product[r]] = thanked[r][product[r]] + 1]
  BY DEF Deliver
<1>3. thanked' \in [Requests -> [Products -> Nat]]
  BY <1>1, <1>2
<1>4. [request |-> r, product |-> product[r]] \in Items
  BY <1>1 DEF Items
<1> QED BY <1>1, <1>3, <1>4 DEF Deliver

\* An error in a branch keeps the types.
LEMMA BranchErrorType ==
  ASSUME TypeOK, NEW r \in Requests, NEW b \in Branches, NEW e, BranchError(r, b, e)
  PROVE  /\ branch' \in [Requests -> [Branches -> BranchPhases]]
         /\ branchRetries' \in [Requests -> [Branches -> Nat]]
         /\ status' \in [Requests -> Outcomes]
<1>1. /\ branch \in [Requests -> [Branches -> BranchPhases]]
      /\ branchRetries \in [Requests -> [Branches -> Nat]]
      /\ status \in [Requests -> Outcomes]
  BY DEF TypeOK
<1>2. /\ \/ branch' = [branch EXCEPT ![r][b] = "waiting"]
         \/ branch' = [branch EXCEPT ![r][b] = "failed"]
      /\ \/ branchRetries' = branchRetries
         \/ branchRetries' = [branchRetries EXCEPT ![r][b] = branchRetries[r][b] + 1]
      /\ status' = status \/ status' = [status EXCEPT ![r] = "FAILED"]
  BY DEF BranchError
<1>3. \A ph \in BranchPhases :
        [branch EXCEPT ![r][b] = ph] \in [Requests -> [Branches -> BranchPhases]]
  BY <1>1
<1>4. branch' \in [Requests -> [Branches -> BranchPhases]]
  BY <1>2, <1>3 DEF BranchPhases
<1>5. [branchRetries EXCEPT ![r][b] = branchRetries[r][b] + 1] \in [Requests -> [Branches -> Nat]]
  BY <1>1
<1>6. branchRetries' \in [Requests -> [Branches -> Nat]]
  BY <1>1, <1>2, <1>5
<1>7. status' \in [Requests -> Outcomes]
  BY <1>1, <1>2 DEF Outcomes
<1> QED BY <1>4, <1>6, <1>7

\* The history grows by names the status page looks for.
LEMMA HistoryType ==
  ASSUME TypeOK, NEW r \in Requests, NEW n \in {"CheckoutSuccess", "SucceedOrFailChoice"},
         history' = [history EXCEPT ![r] = Append(history[r], n)]
  PROVE  history' \in [Requests -> Seq({"CheckoutSuccess", "SucceedOrFailChoice"})]
<1>1. history \in [Requests -> Seq({"CheckoutSuccess", "SucceedOrFailChoice"})]
  BY DEF TypeOK
<1>2. Append(history[r], n) \in Seq({"CheckoutSuccess", "SucceedOrFailChoice"})
  BY <1>1
<1> QED BY <1>1, <1>2

\* What Zuora creates for a call is a subscription.
LEMMA SubscriptionType ==
  ASSUME TypeOK, NEW call \in Calls, CreateInZuora(call)
  PROVE  subs' \subseteq Subscriptions /\ nextSub' \in Nat
BY DEF TypeOK, CreateInZuora, NewSub, Calls, Subscriptions

\* The call a lambda makes is one Zuora can execute, then or later.
LEMMA SubscribeCallType ==
  ASSUME TypeOK, NEW r \in Requests
  PROVE  SubscribeCall(r) \in Calls
BY DEF TypeOK, SubscribeCall, Calls

(* Every step keeps the types.                                             *)
LEMMA TypeStep == TypeOK /\ [Next]_vars => TypeOK'
<1> SUFFICES ASSUME TypeOK, [Next]_vars PROVE TypeOK'
  OBVIOUS
<1> USE DEF machine, codes, parallel, zuora, fulfilled, accounts
<1>0. MachineType
  BY DEF TypeOK, MachineType
<1>1. CASE UNCHANGED vars
  BY <1>1 DEF TypeOK, vars
<1>2. ASSUME NEW r \in Requests, Invoke(r) PROVE TypeOK'
  <2>1. draft' = draft \/ \E c \in Codes : draft' = [draft EXCEPT ![r] = c]
    BY <1>2 DEF Invoke
  <2>2. draft' \in [Requests -> Codes \cup {NoCode}]
    BY <2>1 DEF TypeOK
  <2>3. phase' \in [Requests -> Phases]
    BY <1>2 DEF Invoke, TypeOK, Phases
  <2> QED BY <1>2, <2>2, <2>3 DEF Invoke, TypeOK
<1>3. ASSUME NEW r \in Requests, SetupLambda(r) PROVE TypeOK'
  <2>1. CASE CreatePaymentMethod(r)
    <3>1. "CreateSalesforceContact" \in Steps
      BY DEF Steps, LambdaSteps
    <3>2. Answer(r, "CreateSalesforceContact")
      BY <2>1 DEF CreatePaymentMethod
    <3> QED BY <1>0, <2>1, <3>1, <3>2, AnswerType DEF CreatePaymentMethod, TypeOK
  <2>2. CASE CreateSalesforceContact(r)
    <3>1. "CreateZuoraSubscription" \in Steps
      BY DEF Steps, LambdaSteps, ZuoraSteps
    <3>2. Answer(r, "CreateZuoraSubscription")
      BY <2>2 DEF CreateSalesforceContact
    <3> QED BY <1>0, <2>2, <3>1, <3>2, AnswerType DEF CreateSalesforceContact, TypeOK
  <2>3. CASE PreparePaymentMethodForReuse(r)
    <3>1. PICK s \in ZuoraSteps : Answer(r, s)
      BY <2>3 DEF PreparePaymentMethodForReuse, ZuoraSteps
    <3>2. s \in Steps
      BY DEF Steps, LambdaSteps
    <3> QED BY <1>0, <2>3, <3>1, <3>2, AnswerType DEF PreparePaymentMethodForReuse, TypeOK
  <2>4. CASE SetupFails(r) \/ RefusePaymentMethod(r)
    <3>1. PICK e \in Exceptions : LambdaError(r, e)
      BY <2>4, ErrorsAreExceptions DEF SetupFails, RefusePaymentMethod
    <3>2. MachineType'
      BY <1>0, <3>1, LambdaErrorType
    <3>3. paymentMethods' \subseteq Requests /\ contacts' \subseteq Requests
      BY <2>4 DEF SetupFails, RefusePaymentMethod, TypeOK
    <3> QED BY <2>4, <3>2, <3>3 DEF SetupFails, RefusePaymentMethod, TypeOK, MachineType
  <2> QED BY <1>3, <2>1, <2>2, <2>3, <2>4 DEF SetupLambda
<1>4. ASSUME NEW r \in Requests, ZuoraLambda(r) PROVE TypeOK'
  <2>1. CASE LookUp(r)
    <3>1. \/ phase' = [phase EXCEPT ![r] = "absent"]
          \/ phase' = [phase EXCEPT ![r] = "known"]
      BY <2>1 DEF LookUp
    <3> QED BY <2>1, <3>1 DEF LookUp, TypeOK, Phases
  <2>2. CASE Subscribe(r)
    <3>1. subs' \subseteq Subscriptions /\ nextSub' \in Nat
      BY <2>2, SubscriptionType, SubscribeCallType DEF Subscribe
    <3> QED BY <2>2, <3>1 DEF Subscribe, TypeOK, Phases
  <2>3. CASE SubscriptionKnown(r)
    <3>1. "ParallelTasks" \in Steps /\ Answer(r, "ParallelTasks")
      BY <2>3 DEF Steps, SubscriptionKnown
    <3>2. step' \in [Requests -> Steps] /\ phase' \in [Requests -> Phases]
          /\ retries' \in [Requests -> Nat]
      BY <1>0, <3>1, AnswerType
    <3>3. giftCode' \in [Requests -> Codes \cup {NoCode}]
      BY <2>3 DEF SubscriptionKnown, TypeOK
    <3>4. /\ branch' \in [Requests -> [Branches -> BranchPhases]]
          /\ branchRetries' \in [Requests -> [Branches -> Nat]]
      <4>1. /\ [b \in Branches |-> "waiting"] \in [Branches -> BranchPhases]
            /\ [b \in Branches |-> 0] \in [Branches -> Nat]
        BY DEF BranchPhases
      <4>2. /\ \/ branch' = branch
               \/ branch' = [branch EXCEPT ![r] = [b \in Branches |-> "waiting"]]
            /\ \/ branchRetries' = branchRetries
               \/ branchRetries' = [branchRetries EXCEPT ![r] = [b \in Branches |-> 0]]
        BY <2>3 DEF SubscriptionKnown
      <4>3. /\ branch \in [Requests -> [Branches -> BranchPhases]]
            /\ branchRetries \in [Requests -> [Branches -> Nat]]
        BY DEF TypeOK
      <4>4. /\ [branch EXCEPT ![r] = [b \in Branches |-> "waiting"]]
                 \in [Requests -> [Branches -> BranchPhases]]
            /\ [branchRetries EXCEPT ![r] = [b \in Branches |-> 0]]
                 \in [Requests -> [Branches -> Nat]]
        BY <4>1, <4>3
      <4> QED BY <4>2, <4>3, <4>4
    <3> QED BY <2>3, <3>2, <3>3, <3>4 DEF SubscriptionKnown, TypeOK
  <2>4. CASE ZuoraFails(r)
    <3>1. PICK e \in Exceptions : LambdaError(r, e)
      BY <2>4, ErrorsAreExceptions DEF ZuoraFails
    <3>2. MachineType'
      BY <1>0, <3>1, LambdaErrorType
    <3>3. late' \subseteq Calls
      BY <2>4, SubscribeCallType DEF ZuoraFails, TypeOK
    <3> QED BY <2>4, <3>2, <3>3 DEF ZuoraFails, TypeOK, MachineType
  <2> QED BY <1>4, <2>1, <2>2, <2>3, <2>4 DEF ZuoraLambda
<1>5. ASSUME NEW r \in Requests, FailureLambda(r) PROVE TypeOK'
  <2>1. CASE FailureHandler(r)
    <3>1. step' \in [Requests -> Steps] /\ phase' \in [Requests -> Phases]
          /\ retries' \in [Requests -> Nat]
      BY <1>0, <2>1, UnansweredType DEF FailureHandler
    <3>2. status' \in [Requests -> Outcomes]
      BY <2>1 DEF FailureHandler, TypeOK, Outcomes, ExecutionOutcome
    <3>3. history' \in [Requests -> Seq({"CheckoutSuccess", "SucceedOrFailChoice"})]
      <4>1. CASE Alive(r)
        BY <2>1, <4>1, HistoryType DEF FailureHandler
      <4>2. CASE ~Alive(r)
        BY <2>1, <4>2 DEF FailureHandler, TypeOK
      <4> QED BY <4>1, <4>2
    <3>4. apologised' \in [Requests -> Nat]
      BY <2>1 DEF FailureHandler, TypeOK
    <3> QED BY <2>1, <3>1, <3>2, <3>3, <3>4 DEF FailureHandler, TypeOK
  <2>2. CASE FailureHandlerFails(r)
    <3>1. PICK e \in Exceptions : LambdaError(r, e)
      BY <2>2, ErrorsAreExceptions DEF FailureHandlerFails
    <3>2. MachineType'
      BY <1>0, <3>1, LambdaErrorType
    <3>3. apologised' \in [Requests -> Nat]
      BY <2>2 DEF FailureHandlerFails, TypeOK
    <3> QED BY <2>2, <3>2, <3>3 DEF FailureHandlerFails, TypeOK, MachineType
  <2> QED BY <1>5, <2>1, <2>2 DEF FailureLambda
<1>6. ASSUME NEW r \in Requests, CheckoutSuccess(r) PROVE TypeOK'
  <2>1. history' \in [Requests -> Seq({"CheckoutSuccess", "SucceedOrFailChoice"})]
    BY <1>6, HistoryType DEF CheckoutSuccess
  <2>2. branch' \in [Requests -> [Branches -> BranchPhases]]
    BY <1>6 DEF CheckoutSuccess, TypeOK, BranchPhases
  <2> QED BY <1>6, <2>1, <2>2 DEF CheckoutSuccess, TypeOK
<1>7. ASSUME NEW r \in Requests, Join(r) PROVE TypeOK'
  <2>1. CASE SecondSubscriptionDue(r)
    <3>1. Enter(r, "ThreeTierPreparePaymentMethodForReuse")
      BY <1>7, <2>1 DEF Join
    <3>2. "ThreeTierPreparePaymentMethodForReuse" \in Steps /\ "SupporterPlus" \in Products
      BY DEF Steps, LambdaSteps, PrepareSteps, Products
    <3> QED BY <1>0, <1>7, <2>1, <3>1, <3>2, EnterType DEF Join, TypeOK
  <2>2. CASE ~SecondSubscriptionDue(r)
    BY <1>7, <2>2 DEF Join, TypeOK, Outcomes
  <2> QED BY <2>1, <2>2
<1>8. ASSUME NEW r \in Requests, ExecutionTimesOut(r) PROVE TypeOK'
  BY <1>8 DEF ExecutionTimesOut, TypeOK, Outcomes
<1>9. ASSUME NEW r \in Requests, NEW b \in Branches, InvokeBranch(r, b) PROVE TypeOK'
  <2>1. branch' \in [Requests -> [Branches -> BranchPhases]]
    BY <1>9 DEF InvokeBranch, TypeOK, BranchPhases
  <2> QED BY <1>9, <2>1 DEF InvokeBranch, TypeOK
<1>10. ASSUME NEW r \in Requests, NEW b \in Branches, BranchLambda(r, b) PROVE TypeOK'
  <2>1. CASE BranchCompletes(r, b)
    <3>1. branch' \in [Requests -> [Branches -> BranchPhases]]
      BY <2>1 DEF BranchCompletes, TypeOK, BranchPhases
    <3> QED BY <2>1, <3>1, DeliverType DEF BranchCompletes, TypeOK
  <2>2. CASE BranchFails(r, b)
    <3>1. PICK e : BranchError(r, b, e) /\ (UNCHANGED fulfilled \/ Deliver(r, b))
      BY <2>2 DEF BranchFails
    <3>2. /\ thanked' \in [Requests -> [Products -> Nat]]
          /\ rows' \subseteq Items /\ events' \subseteq Items
      BY <3>1, DeliverType DEF TypeOK
    <3> QED BY <2>2, <3>1, <3>2, BranchErrorType DEF BranchFails, TypeOK
  <2> QED BY <1>10, <2>1, <2>2 DEF BranchLambda
<1>11. CASE LateCommit
  <2>1. PICK call \in late : /\ CreateInZuora(call) /\ late' = late \ {call}
                            /\ UNCHANGED <<input, machine, codes, parallel, history, accounts,
                                           fulfilled, apologised>>
    BY <1>11 DEF LateCommit
  <2>2. subs' \subseteq Subscriptions /\ nextSub' \in Nat
    BY <2>1, SubscriptionType DEF TypeOK
  <2> QED BY <2>1, <2>2 DEF TypeOK
<1> QED BY <1>1, <1>2, <1>3, <1>4, <1>5, <1>6, <1>7, <1>8, <1>9, <1>10, <1>11 DEF Next

(* TypeOK is an invariant.                                                 *)
THEOREM TypeCorrect == Spec => []TypeOK
<1>1. Init => TypeOK
  BY TypeInit
<1>2. TypeOK /\ [Next]_vars => TypeOK'
  BY TypeStep
<1> QED BY <1>1, <1>2, PTL DEF Spec

-----------------------------------------------------------------------------
(* Fulfilment.  That nothing is sent without a subscription is not         *)
(* inductive by itself: it rests on where the machine can be without one.  *)

KnownIsPurchased ==
  \A r \in Requests : step[r] \in ZuoraSteps /\ phase[r] = "known" => Purchased(r, product[r])

ParallelIsPurchased ==
  \A r \in Requests : step[r] = "ParallelTasks" => Purchased(r, product[r])

BranchRunsInParallel ==
  \A r \in Requests, b \in Branches : branch[r][b] = "running" => step[r] = "ParallelTasks"

FulfilInv == /\ KnownIsPurchased /\ ParallelIsPurchased
             /\ BranchRunsInParallel /\ FulfilmentHasSubscription

\* Subscriptions are only added, so what has been purchased stays so.
LEMMA PurchasesStay ==
  ASSUME NEW r, NEW p, subs \subseteq subs', Purchased(r, p)
  PROVE  Purchased(r, p)'
BY DEF Purchased

(* A step of one request's machine that stays out of, or in, the parallel  *)
(* tasks keeps the invariant if it knows of no subscription in vain.       *)
LEMMA MachineStep ==
  ASSUME FulfilInv, NEW r \in Requests, subs \subseteq subs',
         UNCHANGED <<product, branch, fulfilled>>,
         \A q \in Requests : q # r => step'[q] = step[q] /\ phase'[q] = phase[q],
         step'[r] = "ParallelTasks" <=> step[r] = "ParallelTasks",
         step'[r] \in ZuoraSteps /\ phase'[r] = "known" => Purchased(r, product[r])'
  PROVE  FulfilInv'
<1>1. KnownIsPurchased'
  BY PurchasesStay DEF FulfilInv, KnownIsPurchased
<1>2. ParallelIsPurchased'
  <2> SUFFICES ASSUME NEW q \in Requests, step'[q] = "ParallelTasks"
               PROVE  Purchased(q, product[q])'
    BY DEF ParallelIsPurchased
  <2>1. step[q] = "ParallelTasks"
    OBVIOUS
  <2> QED BY <2>1, PurchasesStay DEF FulfilInv, ParallelIsPurchased
<1>3. BranchRunsInParallel'
  <2> SUFFICES ASSUME NEW q \in Requests, NEW b \in Branches, branch[q][b] = "running"
               PROVE  step'[q] = "ParallelTasks"
    BY DEF BranchRunsInParallel
  <2> QED BY DEF FulfilInv, BranchRunsInParallel
<1>4. FulfilmentHasSubscription'
  BY PurchasesStay DEF FulfilInv, FulfilmentHasSubscription, Fulfilled, fulfilled
<1> QED BY <1>1, <1>2, <1>3, <1>4 DEF FulfilInv

\* An answer moves the request's own execution only.
LEMMA AnswerMoves ==
  ASSUME TypeOK, NEW r \in Requests, NEW s, Answer(r, s)
  PROVE  /\ \A q \in Requests : q # r => step'[q] = step[q] /\ phase'[q] = phase[q]
         /\ step'[r] \in {step[r], s} /\ phase'[r] \in {"waiting", "idle"}
BY DEF TypeOK, Answer, Enter, Unanswered

\* An error moves the request's own execution only.
LEMMA LambdaErrorMoves ==
  ASSUME TypeOK, NEW r \in Requests, NEW e, LambdaError(r, e)
  PROVE  /\ \A q \in Requests : q # r => step'[q] = step[q] /\ phase'[q] = phase[q]
         /\ step'[r] \in {step[r], "FailureHandler"} /\ phase'[r] \in {"waiting", "idle"}
BY LambdaErrorCases DEF TypeOK, Enter, Unanswered

\* Nothing has been bought and nothing is running at first.
LEMMA FulfilInit == Init => FulfilInv
<1> SUFFICES ASSUME Init PROVE FulfilInv
  OBVIOUS
<1>1. \A r \in Requests : step[r] # "ParallelTasks" /\ phase[r] # "known"
  BY DEF Init, FirstStep
<1>2. \A r \in Requests, b \in Branches : branch[r][b] # "running"
  BY DEF Init
<1>3. \A r \in Requests, p \in Products : ~Fulfilled(r, p)
  BY DEF Init, Fulfilled
<1> QED BY <1>1, <1>2, <1>3 DEF FulfilInv, KnownIsPurchased, ParallelIsPurchased,
           BranchRunsInParallel, FulfilmentHasSubscription

(* Deliver adds fulfilment of one item only.                               *)
LEMMA DeliverFulfils ==
  ASSUME TypeOK, NEW r \in Requests, NEW b \in Branches, Deliver(r, b),
         NEW q \in Requests, NEW p \in Products, Fulfilled(q, p)'
  PROVE  Fulfilled(q, p) \/ (q = r /\ p = product[r])
<1>1. product[r] \in Products /\ thanked \in [Requests -> [Products -> Nat]]
  BY DEF TypeOK
<1>2. CASE thanked'[q][p] > 0 /\ ~(q = r /\ p = product[r])
  <2>1. thanked'[q][p] = thanked[q][p]
    BY <1>1, <1>2 DEF Deliver
  <2> QED BY <1>2, <2>1 DEF Fulfilled
<1>3. CASE [request |-> q, product |-> p] \in rows'
  BY <1>3 DEF Deliver, Fulfilled
<1>4. CASE [request |-> q, product |-> p] \in events'
  BY <1>4 DEF Deliver, Fulfilled
<1> QED BY <1>2, <1>3, <1>4 DEF Fulfilled

\* Every step keeps the invariant.
LEMMA FulfilStep == TypeOK /\ FulfilInv /\ [Next]_vars => FulfilInv'
<1> SUFFICES ASSUME TypeOK, FulfilInv, [Next]_vars PROVE FulfilInv'
  OBVIOUS
<1> USE DEF machine, codes, parallel, zuora, fulfilled, accounts
<1>1. CASE UNCHANGED vars
  BY <1>1 DEF vars, FulfilInv, KnownIsPurchased, ParallelIsPurchased, BranchRunsInParallel,
              FulfilmentHasSubscription, Purchased, Fulfilled
<1>2. ASSUME NEW r \in Requests, Invoke(r) PROVE FulfilInv'
  <2>1. /\ \A q \in Requests : q # r => phase'[q] = phase[q]
        /\ phase'[r] = "running"
    BY <1>2 DEF Invoke, TypeOK
  <2> QED BY <1>2, <2>1, MachineStep DEF Invoke
<1>3. ASSUME NEW r \in Requests, SetupLambda(r) PROVE FulfilInv'
  <2>1. \/ \E s \in ZuoraSteps \cup {"CreateSalesforceContact"} : Answer(r, s)
        \/ \E e : LambdaError(r, e)
    BY <1>3 DEF SetupLambda, CreatePaymentMethod, CreateSalesforceContact,
                PreparePaymentMethodForReuse, SetupFails, RefusePaymentMethod, ZuoraSteps
  <2>2. /\ \A q \in Requests : q # r => step'[q] = step[q] /\ phase'[q] = phase[q]
        /\ step'[r] = step[r] \/ step'[r] # "ParallelTasks"
        /\ phase'[r] # "known"
    BY <2>1, AnswerMoves, LambdaErrorMoves DEF ZuoraSteps
  <2>3. step[r] # "ParallelTasks"
    BY <1>3 DEF SetupLambda, CreatePaymentMethod, CreateSalesforceContact,
                PreparePaymentMethodForReuse, SetupFails, RefusePaymentMethod, Running, PrepareSteps
  <2>4. UNCHANGED <<product, branch, fulfilled, subs>>
    BY <1>3 DEF SetupLambda, CreatePaymentMethod, CreateSalesforceContact,
                PreparePaymentMethodForReuse, SetupFails, RefusePaymentMethod
  <2> QED BY <2>2, <2>3, <2>4, MachineStep
<1>4. ASSUME NEW r \in Requests, ZuoraLambda(r) PROVE FulfilInv'
  <2>1. CASE LookUp(r)
    <3>1. /\ \A q \in Requests : q # r => phase'[q] = phase[q]
          /\ phase'[r] = "known" => \E s \in OwnSubs(r) : RatePlansMatch(s, product[r])
      BY <2>1 DEF LookUp, TypeOK, GetSubscriptionWithCurrentRequestId
    <3>2. phase'[r] = "known" => Purchased(r, product[r])'
      BY <2>1, <3>1 DEF LookUp, OwnSubs, RatePlansMatch, Purchased
    <3> QED BY <2>1, <3>1, <3>2, MachineStep DEF LookUp
  <2>2. CASE Subscribe(r)
    <3>1. NewSub(SubscribeCall(r)) \in subs' /\ subs \subseteq subs'
      BY <2>2 DEF Subscribe, CreateInZuora
    <3>2. Purchased(r, product[r])'
      BY <2>2, <3>1 DEF Subscribe, Purchased, NewSub, SubscribeCall
    <3>3. \A q \in Requests : q # r => phase'[q] = phase[q]
      BY <2>2 DEF Subscribe, TypeOK
    <3> QED BY <2>2, <3>1, <3>2, <3>3, MachineStep DEF Subscribe
  <2>3. CASE SubscriptionKnown(r)
    <3>1. Purchased(r, product[r]) /\ step[r] # "ParallelTasks"
      BY <2>3 DEF SubscriptionKnown, FulfilInv, KnownIsPurchased, ZuoraSteps
    <3>2. /\ \A q \in Requests : q # r => step'[q] = step[q] /\ phase'[q] = phase[q]
          /\ phase'[r] \in {"waiting", "idle"}
      BY <2>3, AnswerMoves DEF SubscriptionKnown
    <3>3. UNCHANGED <<product, subs, thanked, rows, events>>
      BY <2>3 DEF SubscriptionKnown
    <3>4. KnownIsPurchased' /\ FulfilmentHasSubscription'
      BY <3>2, <3>3, PurchasesStay DEF FulfilInv, KnownIsPurchased, FulfilmentHasSubscription,
                                       Fulfilled
    <3>5. ParallelIsPurchased'
      <4> SUFFICES ASSUME NEW q \in Requests, step'[q] = "ParallelTasks"
                   PROVE  Purchased(q, product[q])'
        BY DEF ParallelIsPurchased
      <4>1. Purchased(q, product[q])
        BY <3>1, <3>2 DEF FulfilInv, ParallelIsPurchased
      <4> QED BY <3>3, <4>1, PurchasesStay
    <3>6. BranchRunsInParallel'
      <4> SUFFICES ASSUME NEW q \in Requests, NEW b \in Branches, branch'[q][b] = "running"
                   PROVE  step'[q] = "ParallelTasks"
        BY DEF BranchRunsInParallel
      <4>1. \/ branch' = branch
            \/ branch' = [branch EXCEPT ![r] = [c \in Branches |-> "waiting"]]
        BY <2>3 DEF SubscriptionKnown
      <4>2. branch[q][b] = "running"
        <5>1. DOMAIN branch = Requests
          BY DEF TypeOK
        <5>2. CASE branch' = branch
          BY <5>2
        <5>3. CASE branch' = [branch EXCEPT ![r] = [c \in Branches |-> "waiting"]]
          <6>1. q # r
            BY <5>1, <5>3
          <6> QED BY <5>1, <5>3, <6>1
        <5> QED BY <4>1, <5>2, <5>3
      <4> QED BY <3>1, <3>2, <4>2 DEF FulfilInv, BranchRunsInParallel
    <3> QED BY <3>4, <3>5, <3>6 DEF FulfilInv
  <2>4. CASE ZuoraFails(r)
    <3>1. /\ \A q \in Requests : q # r => step'[q] = step[q] /\ phase'[q] = phase[q]
          /\ step'[r] \in {step[r], "FailureHandler"} /\ phase'[r] \in {"waiting", "idle"}
      BY <2>4, LambdaErrorMoves DEF ZuoraFails
    <3> QED BY <2>4, <3>1, MachineStep DEF ZuoraFails, ZuoraSteps
  <2> QED BY <1>4, <2>1, <2>2, <2>3, <2>4 DEF ZuoraLambda
<1>5. ASSUME NEW r \in Requests, FailureLambda(r) PROVE FulfilInv'
  <2>1. Unanswered(r) \/ \E e : LambdaError(r, e)
    BY <1>5 DEF FailureLambda, FailureHandler, FailureHandlerFails
  <2>2. /\ \A q \in Requests : q # r => step'[q] = step[q] /\ phase'[q] = phase[q]
        /\ step'[r] \in {step[r], "FailureHandler"} /\ phase'[r] \in {"waiting", "idle"}
    BY <2>1, LambdaErrorMoves DEF Unanswered, TypeOK
  <2>3. step[r] = "FailureHandler" /\ UNCHANGED <<product, branch, fulfilled, subs>>
    BY <1>5 DEF FailureLambda, FailureHandler, FailureHandlerFails, Running
  <2> QED BY <2>2, <2>3, MachineStep
<1>6. ASSUME NEW r \in Requests, CheckoutSuccess(r) PROVE FulfilInv'
  <2>1. \A q \in Requests, b \in Branches : branch'[q][b] = "running" => branch[q][b] = "running"
    BY <1>6 DEF CheckoutSuccess, TypeOK
  <2> QED BY <1>6, <2>1 DEF CheckoutSuccess, FulfilInv, KnownIsPurchased, ParallelIsPurchased,
        BranchRunsInParallel, FulfilmentHasSubscription, Purchased, Fulfilled
<1>7. ASSUME NEW r \in Requests, Join(r) PROVE FulfilInv'
  <2>1. UNCHANGED <<subs, branch, thanked, rows, events>>
    BY <1>7 DEF Join
  <2>2. CASE SecondSubscriptionDue(r)
    <3>1. /\ \A q \in Requests : q # r => /\ step'[q] = step[q] /\ phase'[q] = phase[q]
                                          /\ product'[q] = product[q]
          /\ step'[r] = "ThreeTierPreparePaymentMethodForReuse" /\ phase'[r] = "waiting"
      BY <1>7, <2>2 DEF Join, Enter, TypeOK
    <3>2. KnownIsPurchased' /\ ParallelIsPurchased'
      BY <2>1, <3>1, PurchasesStay DEF FulfilInv, KnownIsPurchased, ParallelIsPurchased
    <3>3. BranchRunsInParallel'
      BY <1>7, <2>1, <3>1 DEF Join, FulfilInv, BranchRunsInParallel
    <3> QED BY <2>1, <3>2, <3>3 DEF FulfilInv, FulfilmentHasSubscription, Purchased, Fulfilled
  <2>3. CASE ~SecondSubscriptionDue(r)
    BY <1>7, <2>3, <2>1 DEF Join, FulfilInv, KnownIsPurchased, ParallelIsPurchased,
        BranchRunsInParallel, FulfilmentHasSubscription, Purchased, Fulfilled
  <2> QED BY <2>2, <2>3
<1>8. ASSUME NEW r \in Requests, ExecutionTimesOut(r) PROVE FulfilInv'
  BY <1>8 DEF ExecutionTimesOut, FulfilInv, KnownIsPurchased, ParallelIsPurchased,
     BranchRunsInParallel, FulfilmentHasSubscription, Purchased, Fulfilled
<1>9. ASSUME NEW r \in Requests, NEW b \in Branches, InvokeBranch(r, b) PROVE FulfilInv'
  <2>1. BranchRunsInParallel'
    <3> SUFFICES ASSUME NEW q \in Requests, NEW c \in Branches, branch'[q][c] = "running"
                 PROVE  step'[q] = "ParallelTasks"
      BY DEF BranchRunsInParallel
    <3>1. q = r \/ branch[q][c] = "running"
      BY <1>9 DEF InvokeBranch, TypeOK
    <3> QED BY <1>9, <3>1 DEF InvokeBranch, FulfilInv, BranchRunsInParallel
  <2> QED BY <1>9, <2>1 DEF InvokeBranch, FulfilInv, KnownIsPurchased, ParallelIsPurchased,
        FulfilmentHasSubscription, Purchased, Fulfilled
<1>10. ASSUME NEW r \in Requests, NEW b \in Branches, BranchLambda(r, b) PROVE FulfilInv'
  <2>1. /\ branch[r][b] = "running" /\ UNCHANGED <<step, phase, product, subs>>
        /\ UNCHANGED fulfilled \/ Deliver(r, b)
    BY <1>10 DEF BranchLambda, BranchCompletes, BranchFails
  <2>2. Purchased(r, product[r])
    BY <2>1 DEF FulfilInv, BranchRunsInParallel, ParallelIsPurchased
  <2>3. \A q \in Requests, c \in Branches : branch'[q][c] = "running" => branch[q][c] = "running"
    <3>1. \E ph \in {"done", "waiting", "failed"} : branch' = [branch EXCEPT ![r][b] = ph]
      BY <1>10 DEF BranchLambda, BranchCompletes, BranchFails, BranchError
    <3> QED BY <3>1 DEF TypeOK
  <2>4. BranchRunsInParallel' /\ KnownIsPurchased' /\ ParallelIsPurchased'
    BY <2>1, <2>3 DEF FulfilInv, BranchRunsInParallel, KnownIsPurchased, ParallelIsPurchased,
                      Purchased
  <2>5. FulfilmentHasSubscription'
    <3> SUFFICES ASSUME NEW q \in Requests, NEW p \in Products, Fulfilled(q, p)'
                 PROVE  Purchased(q, p)'
      BY DEF FulfilmentHasSubscription
    <3>1. Fulfilled(q, p) \/ (q = r /\ p = product[r])
      BY <2>1, DeliverFulfils DEF Fulfilled
    <3>2. Purchased(q, p)
      BY <2>2, <3>1 DEF FulfilInv, FulfilmentHasSubscription
    <3> QED BY <2>1, <3>2, PurchasesStay
  <2> QED BY <2>4, <2>5 DEF FulfilInv
<1>11. CASE LateCommit
  <2>1. subs \subseteq subs' /\ UNCHANGED <<step, phase, product, branch, thanked, rows, events>>
    BY <1>11 DEF LateCommit, CreateInZuora
  <2> QED BY <2>1, PurchasesStay DEF FulfilInv, BranchRunsInParallel, KnownIsPurchased,
             ParallelIsPurchased, FulfilmentHasSubscription, Fulfilled
<1> QED BY <1>1, <1>2, <1>3, <1>4, <1>5, <1>6, <1>7, <1>8, <1>9, <1>10, <1>11 DEF Next

(* Whatever fails, is retried or comes late, for one subscription or two:  *)
(* no thank-you e-mail, supporter row or acquisition event without a       *)
(* subscription of that request for that product.                          *)
THEOREM FulfilmentCorrect == Spec => []FulfilmentHasSubscription
<1>1. Init => FulfilInv
  BY FulfilInit
<1>2. TypeOK /\ FulfilInv /\ [Next]_vars => FulfilInv'
  BY FulfilStep
<1>3. FulfilInv => FulfilmentHasSubscription
  BY DEF FulfilInv
<1> QED BY <1>1, <1>2, <1>3, TypeCorrect, PTL DEF Spec

-----------------------------------------------------------------------------
(* How checkouts end, the third tier and late commits included: what the   *)
(* status page says is true, an execution that succeeds without an apology *)
(* has delivered everything it owes, and the e-mails of a checkout are     *)
(* bounded by the attempts of the e-mail lambdas.                          *)

Email == "SendThankYouEmail"

(* What the three branches leave for a product, and what they have left    *)
(* when they are done.                                                     *)
HasRow(r, p) == p # "DigitalSubscriptionGift" => [request |-> r, product |-> p] \in rows
HasEvent(r, p) == [request |-> r, product |-> p] \in events
Delivered(r, p) == thanked[r][p] > 0 /\ HasEvent(r, p) /\ HasRow(r, p)

BranchesDeliver(r) ==
  step[r] = "ParallelTasks" =>
    /\ branch[r][Email] = "done" => thanked[r][product[r]] > 0
    /\ branch[r]["SendAcquisitionEvent"] = "done" => HasEvent(r, product[r])
    /\ branch[r]["UpdateSupporterProductData"] = "done" => HasRow(r, product[r])

(* The product of an execution is the one of its request until it goes     *)
(* round again, which it does when the first product is delivered.         *)
SecondRoundDue(r) ==
  input[r].threeTier /\ input[r].product = "GuardianWeekly" /\ input[r].knownPromo
Round(r) ==
  \/ product[r] = input[r].product
  \/ product[r] = "SupporterPlus" /\ SecondRoundDue(r) /\ Delivered(r, "GuardianWeekly")

SucceededDelivered(r) ==
  status[r] = "SUCCEEDED" /\ apologised[r] = 0 => \A p \in Due(r) : Delivered(r, p)

(* An e-mail lambda has sent at most one e-mail for each attempt it has    *)
(* used up, and one more when no further attempt will follow.              *)
ThanksCounted(r) ==
  /\ \A p \in Products : thanked[r][p] <= EmailAttempts + 1
  /\ \A p \in Products :
       thanked[r][p] > 0 => p = product[r] \/ (product[r] = "SupporterPlus" /\ SecondRoundDue(r))
  /\ step[r] # "ParallelTasks" => thanked[r][product[r]] = 0
  /\ step[r] = "ParallelTasks" =>
       /\ branchRetries[r][Email] <= EmailAttempts
       /\ thanked[r][product[r]] <= branchRetries[r][Email]
            + (IF branch[r][Email] \in {"done", "failed"} THEN 1 ELSE 0)

ApologiesCounted(r) ==
  /\ step[r] # "FailureHandler" => apologised[r] = 0
  /\ step[r] = "FailureHandler" =>
       /\ retries[r] <= EmailAttempts
       /\ apologised[r] <= retries[r] + (IF phase[r] = "idle" THEN 1 ELSE 0)

HistoryIsTrue(r) ==
  /\ CheckoutStatus(r) = "success" => OwnSubs(r) # {}
  /\ CheckoutStatus(r) = "failure" => apologised[r] > 0

Outcome(r) == /\ HistoryIsTrue(r) /\ BranchesDeliver(r) /\ Round(r) /\ SucceededDelivered(r)
              /\ ThanksCounted(r) /\ ApologiesCounted(r)

OutcomeInv == \A r \in Requests : Outcome(r)

-----------------------------------------------------------------------------
(* Requests a step does not concern.                                       *)

\* What a step leaves of the request q, apart from more subscriptions and deliveries of others.
Untouched(q) ==
  /\ input'[q] = input[q] /\ status'[q] = status[q] /\ step'[q] = step[q]
  /\ product'[q] = product[q] /\ phase'[q] = phase[q] /\ retries'[q] = retries[q]
  /\ branch'[q] = branch[q] /\ branchRetries'[q] = branchRetries[q]
  /\ history'[q] = history[q] /\ thanked'[q] = thanked[q] /\ apologised'[q] = apologised[q]

Grows == subs \subseteq subs' /\ rows \subseteq rows' /\ events \subseteq events'

\* What has been delivered stays so.
LEMMA DeliveriesStay ==
  ASSUME NEW q, NEW p, Grows, thanked'[q][p] >= thanked[q][p], Delivered(q, p),
         thanked[q][p] \in Nat, thanked'[q][p] \in Nat
  PROVE  Delivered(q, p)'
BY DEF Grows, Delivered, HasRow, HasEvent

\* Such a request keeps its part of the invariant.
LEMMA UntouchedKeeps ==
  ASSUME NEW q \in Requests, Outcome(q), Untouched(q), Grows
  PROVE  Outcome(q)'
<1>1. \A p : (HasEvent(q, p) => HasEvent(q, p)') /\ (HasRow(q, p) => HasRow(q, p)')
  BY DEF Grows, HasEvent, HasRow
<1>2. HistoryIsTrue(q)'
  BY DEF Outcome, Untouched, Grows, HistoryIsTrue, CheckoutStatus, OwnSubs
<1>3. BranchesDeliver(q)'
  BY <1>1 DEF Outcome, Untouched, BranchesDeliver
<1>4. Round(q)'
  BY <1>1 DEF Outcome, Untouched, Round, SecondRoundDue, Delivered
<1>5. SucceededDelivered(q)'
  BY <1>1 DEF Outcome, Untouched, SucceededDelivered, Due, Delivered
<1>6. ThanksCounted(q)' /\ ApologiesCounted(q)'
  BY DEF Outcome, Untouched, ThanksCounted, SecondRoundDue, ApologiesCounted
<1> QED BY <1>2, <1>3, <1>4, <1>5, <1>6 DEF Outcome

\* So only the request whose machine takes the step has to be looked at.
LEMMA OneRequestAtATime ==
  ASSUME OutcomeInv, NEW r \in Requests, Grows, \A q \in Requests : q # r => Untouched(q),
         Outcome(r)'
  PROVE  OutcomeInv'
BY UntouchedKeeps DEF OutcomeInv

(* A step of one machine that sends nothing, stays in or out of the        *)
(* parallel tasks and does not end with success.                           *)
LEMMA OutcomeMachineStep ==
  ASSUME TypeOK, OutcomeInv, NEW r \in Requests, subs \subseteq subs',
         UNCHANGED <<input, product, branch, branchRetries, history, fulfilled, apologised>>,
         \A q \in Requests : q # r => /\ status'[q] = status[q] /\ step'[q] = step[q]
                                      /\ phase'[q] = phase[q] /\ retries'[q] = retries[q],
         status'[r] = "SUCCEEDED" => status[r] = "SUCCEEDED",
         step'[r] = "ParallelTasks" <=> step[r] = "ParallelTasks",
         ApologiesCounted(r)'
  PROVE  OutcomeInv'
<1> USE DEF fulfilled
<1>1. Grows
  BY DEF Grows
<1>2. \A q \in Requests : q # r => Untouched(q)
  BY DEF Untouched
<1>3. Outcome(r)
  BY DEF OutcomeInv
<1>4. HistoryIsTrue(r)'
  BY <1>3 DEF Outcome, HistoryIsTrue, CheckoutStatus, OwnSubs
<1>5. BranchesDeliver(r)'
  BY <1>3 DEF Outcome, BranchesDeliver, HasEvent, HasRow
<1>6. Round(r)'
  BY <1>3 DEF Outcome, Round, SecondRoundDue, Delivered, HasEvent, HasRow
<1>7. SucceededDelivered(r)'
  BY <1>3 DEF Outcome, SucceededDelivered, Due, Delivered, HasEvent, HasRow
<1>8. ThanksCounted(r)'
  BY <1>3 DEF Outcome, ThanksCounted, SecondRoundDue
<1>9. Outcome(r)'
  BY <1>4, <1>5, <1>6, <1>7, <1>8 DEF Outcome
<1> QED BY <1>1, <1>2, <1>9, OneRequestAtATime

-----------------------------------------------------------------------------
(* Apologies.                                                              *)

\* An answer of a lambda other than FailureHandler sends the customer to another state.
LEMMA AnswerKeepsApologies ==
  ASSUME TypeOK, NEW r \in Requests, NEW s, Answer(r, s), s # "FailureHandler",
         step[r] # "FailureHandler", apologised[r] = 0, UNCHANGED apologised
  PROVE  /\ ApologiesCounted(r)'
         /\ \A q \in Requests : q # r => /\ step'[q] = step[q] /\ phase'[q] = phase[q]
                                         /\ retries'[q] = retries[q]
BY DEF TypeOK, Answer, Enter, Unanswered, ApologiesCounted

\* An error of such a lambda: the first attempt of FailureHandler has apologised for nothing.
LEMMA ErrorKeepsApologies ==
  ASSUME TypeOK, NEW r \in Requests, NEW e, LambdaError(r, e),
         step[r] # "FailureHandler", apologised[r] = 0, UNCHANGED apologised
  PROVE  /\ ApologiesCounted(r)'
         /\ \A q \in Requests : q # r => /\ status'[q] = status[q] /\ step'[q] = step[q]
                                         /\ phase'[q] = phase[q] /\ retries'[q] = retries[q]
         /\ status' = status
<1>0. EmailAttempts \in Nat
  BY AttemptsAssumption
<1>1. CASE ~Alive(r) /\ Unanswered(r) /\ UNCHANGED <<status, error>>
  BY <1>1 DEF Unanswered, TypeOK, ApologiesCounted
<1>2. CASE /\ Alive(r) /\ phase' = [phase EXCEPT ![r] = "waiting"]
           /\ retries' = retries \/ retries' = [retries EXCEPT ![r] = retries[r] + 1]
           /\ UNCHANGED <<step, status, error>>
  BY <1>2 DEF TypeOK, ApologiesCounted
<1>3. CASE /\ Alive(r) /\ step[r] # "FailureHandler" /\ Enter(r, "FailureHandler")
           /\ error' = [error EXCEPT ![r] = e] /\ UNCHANGED status
  BY <1>0, <1>3 DEF Enter, TypeOK, ApologiesCounted
<1> QED BY <1>1, <1>2, <1>3, LambdaErrorCases

\* An error of FailureHandler itself uses up an attempt or is the last.
LEMMA FailureHandlerErrorCases ==
  ASSUME NEW r, NEW e, LambdaError(r, e), step[r] = "FailureHandler"
  PROVE  /\ step' = step
         /\ \/ /\ phase' = [phase EXCEPT ![r] = "idle"] /\ retries' = retries
               /\ status' = status \/ status' = [status EXCEPT ![r] = "FAILED"]
            \/ /\ phase' = [phase EXCEPT ![r] = "waiting"] /\ status' = status
               /\ retries[r] < EmailAttempts
               /\ retries' = [retries EXCEPT ![r] = retries[r] + 1]
<1> HIDE DEF ToRetryException
<1> QED BY DEF LambdaError, Unanswered, Retried, Counted

-----------------------------------------------------------------------------
(* The steps, one kind of lambda after the other.                          *)

\* Nothing has been sent, recorded or bought at first.
LEMMA OutcomeInit == Init => OutcomeInv
<1> SUFFICES ASSUME Init, NEW r \in Requests PROVE Outcome(r)
  BY DEF OutcomeInv
<1>1. step[r] \notin {"ParallelTasks", "FailureHandler"}
  BY DEF Init, FirstStep
<1>2. HistoryIsTrue(r)
  BY DEF Init, HistoryIsTrue, CheckoutStatus
<1>3. BranchesDeliver(r) /\ Round(r) /\ SucceededDelivered(r) /\ ApologiesCounted(r)
  BY <1>1 DEF Init, BranchesDeliver, Round, SucceededDelivered, ApologiesCounted
<1>4. ThanksCounted(r)
  <2>1. product[r] \in Products /\ \A p \in Products : thanked[r][p] = 0
    BY TypeInit DEF TypeOK, Init
  <2>2. EmailAttempts \in Nat
    BY AttemptsAssumption
  <2> QED BY <1>1, <2>1, <2>2 DEF ThanksCounted
<1> QED BY <1>2, <1>3, <1>4 DEF Outcome

\* The lambdas before the subscription.
LEMMA SetupKeepsOutcome ==
  ASSUME TypeOK, OutcomeInv, NEW r \in Requests, SetupLambda(r)
  PROVE  OutcomeInv'
<1> USE DEF zuora, fulfilled, codes, parallel
<1>1. step[r] \notin {"FailureHandler", "ParallelTasks"}
  BY DEF SetupLambda, CreatePaymentMethod, CreateSalesforceContact, PreparePaymentMethodForReuse,
         SetupFails, RefusePaymentMethod, Running, PrepareSteps
<1>2. apologised[r] = 0
  BY <1>1 DEF OutcomeInv, Outcome, ApologiesCounted
<1>3. UNCHANGED <<input, product, branch, branchRetries, history, subs, thanked, rows, events,
                  apologised>>
  BY DEF SetupLambda, CreatePaymentMethod, CreateSalesforceContact, PreparePaymentMethodForReuse,
         SetupFails, RefusePaymentMethod
<1>4. CASE \E s \in ZuoraSteps \cup {"CreateSalesforceContact"} : Answer(r, s) /\ status' = status
  <2>1. PICK s \in ZuoraSteps \cup {"CreateSalesforceContact"} : Answer(r, s)
    BY <1>4
  <2>2. s \notin {"FailureHandler", "ParallelTasks"}
    BY DEF ZuoraSteps
  <2>3. step'[r] \in {step[r], s}
    BY <2>1, AnswerMoves
  <2>4. /\ ApologiesCounted(r)'
        /\ \A q \in Requests : q # r => /\ step'[q] = step[q] /\ phase'[q] = phase[q]
                                        /\ retries'[q] = retries[q]
    BY <1>1, <1>2, <1>3, <2>1, <2>2, AnswerKeepsApologies
  <2> QED BY <1>1, <1>3, <1>4, <2>2, <2>3, <2>4, OutcomeMachineStep
<1>5. CASE \E e : LambdaError(r, e)
  <2>1. PICK e : LambdaError(r, e)
    BY <1>5
  <2>2. step'[r] \in {step[r], "FailureHandler"}
    BY <2>1, LambdaErrorMoves
  <2> QED BY <1>1, <1>2, <1>3, <2>1, <2>2, ErrorKeepsApologies, OutcomeMachineStep
<1>6. \/ \E s \in ZuoraSteps \cup {"CreateSalesforceContact"} : Answer(r, s) /\ status' = status
      \/ \E e : LambdaError(r, e)
  BY DEF SetupLambda, CreatePaymentMethod, CreateSalesforceContact,
         PreparePaymentMethodForReuse, SetupFails, RefusePaymentMethod, ZuoraSteps
<1> QED BY <1>4, <1>5, <1>6

(* The lambda that subscribes: it answers into the parallel tasks with     *)
(* their counts at zero, and the product has not been thanked for.         *)
LEMMA ZuoraKeepsOutcome ==
  ASSUME TypeOK, FulfilInv, OutcomeInv, NEW r \in Requests, ZuoraLambda(r)
  PROVE  OutcomeInv'
<1> USE DEF zuora, fulfilled, codes, parallel
<1>1. step[r] \notin {"FailureHandler", "ParallelTasks"}
  BY DEF ZuoraLambda, LookUp, Subscribe, SubscriptionKnown, ZuoraFails, Running, ZuoraSteps
<1>2. apologised[r] = 0 /\ Outcome(r)
  BY <1>1 DEF OutcomeInv, Outcome, ApologiesCounted
<1>3. CASE LookUp(r) \/ Subscribe(r)
  <2>1. /\ subs \subseteq subs'
        /\ UNCHANGED <<input, status, step, product, retries, branch, branchRetries, history,
                       thanked, rows, events, apologised>>
        /\ \A q \in Requests : q # r => phase'[q] = phase[q]
    BY <1>3 DEF LookUp, Subscribe, CreateInZuora, TypeOK
  <2>2. ApologiesCounted(r)'
    BY <1>1, <1>2, <2>1 DEF ApologiesCounted
  <2> QED BY <2>1, <2>2, OutcomeMachineStep
<1>4. CASE ZuoraFails(r)
  <2>1. PICK e : LambdaError(r, e)
    BY <1>4 DEF ZuoraFails
  <2>2. step'[r] \in {step[r], "FailureHandler"}
    BY <2>1, LambdaErrorMoves
  <2>3. UNCHANGED <<input, product, branch, branchRetries, history, subs, thanked, rows, events,
                    apologised>>
    BY <1>4 DEF ZuoraFails
  <2> QED BY <1>1, <1>2, <2>1, <2>2, <2>3, ErrorKeepsApologies, OutcomeMachineStep
<1>5. CASE SubscriptionKnown(r)
  <2>1. /\ Answer(r, "ParallelTasks")
        /\ UNCHANGED <<input, status, product, history, subs, thanked, rows, events, apologised>>
    BY <1>5 DEF SubscriptionKnown
  <2>2. /\ ApologiesCounted(r)'
        /\ \A q \in Requests : q # r => /\ step'[q] = step[q] /\ phase'[q] = phase[q]
                                        /\ retries'[q] = retries[q]
    BY <1>1, <1>2, <2>1, AnswerKeepsApologies
  <2>3. CASE ~Alive(r)
    <3>1. step' = step /\ UNCHANGED <<branch, branchRetries>>
      BY <1>5, <2>1, <2>3 DEF SubscriptionKnown, Answer, Unanswered
    <3> QED BY <2>1, <2>2, <3>1, OutcomeMachineStep
  <2>4. CASE Alive(r)
    <3>1. /\ step'[r] = "ParallelTasks"
          /\ branch' = [branch EXCEPT ![r] = [b \in Branches |-> "waiting"]]
          /\ branchRetries' = [branchRetries EXCEPT ![r] = [b \in Branches |-> 0]]
      BY <1>5, <2>1, <2>4 DEF SubscriptionKnown, Answer, Enter, TypeOK
    <3>2. /\ \A b \in Branches : branch'[r][b] = "waiting" /\ branchRetries'[r][b] = 0
          /\ \A q \in Requests : q # r => branch'[q] = branch[q]
                                         /\ branchRetries'[q] = branchRetries[q]
      BY <3>1 DEF TypeOK
    <3>3. Email \in Branches /\ "SendAcquisitionEvent" \in Branches
          /\ "UpdateSupporterProductData" \in Branches
      BY DEF Email, Branches
    <3>4. HistoryIsTrue(r)'
      BY <1>2, <2>1 DEF Outcome, HistoryIsTrue, CheckoutStatus, OwnSubs
    <3>5. BranchesDeliver(r)'
      BY <3>2, <3>3 DEF BranchesDeliver
    <3>6. Round(r)' /\ SucceededDelivered(r)'
      BY <1>2, <2>1 DEF Outcome, Round, SecondRoundDue, SucceededDelivered, Due, Delivered,
                        HasEvent, HasRow
    <3>7. ThanksCounted(r)'
      <4>1. thanked[r][product[r]] = 0 /\ EmailAttempts \in Nat
        BY <1>1, <1>2, AttemptsAssumption DEF Outcome, ThanksCounted
      <4> QED BY <1>2, <2>1, <3>1, <3>2, <3>3, <4>1 DEF Outcome, ThanksCounted, SecondRoundDue
    <3>8. Outcome(r)'
      BY <2>2, <3>4, <3>5, <3>6, <3>7 DEF Outcome
    <3>9. Grows /\ \A q \in Requests : q # r => Untouched(q)
      BY <2>1, <2>2, <3>2 DEF Grows, Untouched
    <3> QED BY <3>8, <3>9, OneRequestAtATime
  <2> QED BY <2>3, <2>4
<1> QED BY <1>3, <1>4, <1>5 DEF ZuoraLambda
(* FailureHandler: its e-mail is counted by the attempt that sends it, and *)
(* the status page speaks of a failure only with the e-mail sent.          *)
LEMMA FailureKeepsOutcome ==
  ASSUME TypeOK, OutcomeInv, NEW r \in Requests, FailureLambda(r)
  PROVE  OutcomeInv'
<1> USE DEF fulfilled, codes, parallel, zuora
<1>0. EmailAttempts \in Nat
  BY AttemptsAssumption
<1>1. /\ step[r] = "FailureHandler" /\ phase[r] = "running"
      /\ UNCHANGED <<input, product, branch, branchRetries, subs, thanked, rows, events>>
  BY DEF FailureLambda, FailureHandler, FailureHandlerFails, Running
<1>2. Outcome(r) /\ retries[r] \in Nat /\ apologised[r] \in Nat
  BY DEF OutcomeInv, TypeOK
<1>3. retries[r] <= EmailAttempts /\ apologised[r] <= retries[r]
  BY <1>1, <1>2 DEF Outcome, ApologiesCounted
<1>4. CASE FailureHandler(r)
  <2>1. /\ step' = step /\ retries' = retries /\ phase' = [phase EXCEPT ![r] = "idle"]
        /\ apologised' = [apologised EXCEPT ![r] = apologised[r] + 1]
        /\ \/ status' = status /\ history' = history
           \/ /\ \E o \in Outcomes : status' = [status EXCEPT ![r] = o]
              /\ history' = [history EXCEPT ![r] = Append(history[r], "SucceedOrFailChoice")]
    BY <1>4 DEF FailureHandler, Unanswered, ExecutionOutcome, Outcomes
  <2>2. /\ \A q \in Requests : q # r => Untouched(q)
        /\ apologised'[r] = apologised[r] + 1 /\ phase'[r] = "idle"
    BY <1>1, <2>1 DEF Untouched, TypeOK
  <2>3. HistoryIsTrue(r)'
    <3>1. CASE history' = history
      BY <1>2, <1>1, <2>2, <3>1 DEF Outcome, HistoryIsTrue, CheckoutStatus, OwnSubs
    <3>2. CASE history' = [history EXCEPT ![r] = Append(history[r], "SucceedOrFailChoice")]
      <4>1. history \in [Requests -> Seq({"CheckoutSuccess", "SucceedOrFailChoice"})]
        BY DEF TypeOK
      <4>2. /\ history'[r] = Append(history[r], "SucceedOrFailChoice")
            /\ history[r] \in Seq({"CheckoutSuccess", "SucceedOrFailChoice"})
        BY <3>2, <4>1
      <4>3. history'[r] # <<>> /\ history'[r][Len(history'[r])] = "SucceedOrFailChoice"
        BY <4>2
      <4>4. CheckoutStatus(r)' = "failure"
        BY <4>3 DEF CheckoutStatus
      <4> QED BY <1>2, <2>2, <4>4 DEF HistoryIsTrue
    <3> QED BY <2>1, <3>1, <3>2
  <2>4. ApologiesCounted(r)'
    BY <1>1, <1>2, <1>3, <2>1, <2>2 DEF ApologiesCounted
  <2>5. SucceededDelivered(r)'
    BY <1>2, <2>2 DEF SucceededDelivered
  <2>6. BranchesDeliver(r)' /\ Round(r)' /\ ThanksCounted(r)'
    BY <1>1, <1>2, <2>1 DEF Outcome, BranchesDeliver, Round, SecondRoundDue, ThanksCounted,
                            Delivered, HasEvent, HasRow
  <2>7. Outcome(r)' /\ Grows
    BY <1>1, <2>3, <2>4, <2>5, <2>6 DEF Outcome, Grows
  <2> QED BY <2>2, <2>7, OneRequestAtATime
<1>5. CASE FailureHandlerFails(r)
  <2>1. PICK e : LambdaError(r, e)
    BY <1>5 DEF FailureHandlerFails
  <2>2. /\ history' = history
        /\ apologised' = apologised \/ apologised' = [apologised EXCEPT ![r] = apologised[r] + 1]
    BY <1>5 DEF FailureHandlerFails
  <2>3. /\ \A q \in Requests : q # r => Untouched(q)
        /\ step'[r] = "FailureHandler" /\ apologised'[r] \in {apologised[r], apologised[r] + 1}
        /\ status'[r] \in {status[r], "FAILED"}
        /\ \/ phase'[r] = "idle" /\ retries'[r] = retries[r]
           \/ /\ phase'[r] = "waiting" /\ retries[r] < EmailAttempts
              /\ retries'[r] = retries[r] + 1
    BY <1>1, <2>1, <2>2, FailureHandlerErrorCases DEF Untouched, TypeOK
  <2>4. ApologiesCounted(r)'
    BY <1>0, <1>2, <1>3, <2>3 DEF ApologiesCounted
  <2>5. HistoryIsTrue(r)'
    BY <1>1, <1>2, <2>2, <2>3 DEF Outcome, HistoryIsTrue, CheckoutStatus, OwnSubs
  <2>6. SucceededDelivered(r)'
    BY <1>1, <1>2, <2>3 DEF Outcome, SucceededDelivered, Due, Delivered, HasEvent, HasRow
  <2>7. BranchesDeliver(r)' /\ Round(r)' /\ ThanksCounted(r)'
    BY <1>1, <1>2, <2>3 DEF Outcome, BranchesDeliver, Round, SecondRoundDue, ThanksCounted,
                            Delivered, HasEvent, HasRow
  <2>8. Outcome(r)' /\ Grows
    BY <1>1, <2>4, <2>5, <2>6, <2>7 DEF Outcome, Grows
  <2> QED BY <2>3, <2>8, OneRequestAtATime
<1> QED BY <1>4, <1>5 DEF FailureLambda

(* CheckoutSuccess, the one branch that is no lambda: in the parallel      *)
(* tasks the product has been bought.                                      *)
LEMMA SuccessKeepsOutcome ==
  ASSUME TypeOK, FulfilInv, OutcomeInv, NEW r \in Requests, CheckoutSuccess(r)
  PROVE  OutcomeInv'
<1> USE DEF machine, fulfilled, zuora
<1>1. /\ step[r] = "ParallelTasks"
      /\ UNCHANGED <<input, status, step, product, phase, retries, branchRetries, subs, thanked,
                     rows, events, apologised>>
      /\ branch' = [branch EXCEPT ![r]["CheckoutSuccess"] = "done"]
      /\ history' = [history EXCEPT ![r] = Append(history[r], "CheckoutSuccess")]
  BY DEF CheckoutSuccess
<1>2. Outcome(r)
  BY DEF OutcomeInv
<1>3. \A b \in Branches : b # "CheckoutSuccess" => branch'[r][b] = branch[r][b]
  BY <1>1 DEF TypeOK
<1>4. \A q \in Requests : q # r => Untouched(q)
  BY <1>1 DEF Untouched, TypeOK
<1>5. HistoryIsTrue(r)'
  <2>1. OwnSubs(r)' # {}
    BY <1>1 DEF FulfilInv, ParallelIsPurchased, Purchased, OwnSubs
  <2>2. history \in [Requests -> Seq({"CheckoutSuccess", "SucceedOrFailChoice"})]
    BY DEF TypeOK
  <2>3. /\ history'[r] = Append(history[r], "CheckoutSuccess")
        /\ history[r] \in Seq({"CheckoutSuccess", "SucceedOrFailChoice"})
    BY <1>1, <2>2
  <2>4. history'[r] # <<>> /\ history'[r][Len(history'[r])] = "CheckoutSuccess"
    BY <2>3
  <2>5. CheckoutStatus(r)' = "success"
    BY <2>4 DEF CheckoutStatus
  <2> QED BY <2>1, <2>5 DEF HistoryIsTrue
<1>6. Email \in Branches \ {"CheckoutSuccess"}
      /\ "SendAcquisitionEvent" \in Branches \ {"CheckoutSuccess"}
      /\ "UpdateSupporterProductData" \in Branches \ {"CheckoutSuccess"}
  BY DEF Email, Branches
<1>7. BranchesDeliver(r)' /\ ThanksCounted(r)'
  BY <1>1, <1>2, <1>3, <1>6 DEF Outcome, BranchesDeliver, ThanksCounted, SecondRoundDue, HasEvent, HasRow
<1>8. Round(r)' /\ SucceededDelivered(r)' /\ ApologiesCounted(r)'
  BY <1>1, <1>2 DEF Outcome, Round, SecondRoundDue, SucceededDelivered, Due, Delivered,
                    HasEvent, HasRow, ApologiesCounted
<1>9. Outcome(r)' /\ Grows
  BY <1>1, <1>5, <1>7, <1>8 DEF Outcome, Grows
<1> QED BY <1>4, <1>9, OneRequestAtATime

\* A branch that starts has not ended.
LEMMA InvokeBranchKeepsOutcome ==
  ASSUME TypeOK, OutcomeInv, NEW r \in Requests, NEW b \in Branches, InvokeBranch(r, b)
  PROVE  OutcomeInv'
<1> USE DEF machine, fulfilled, zuora
<1>1. /\ branch[r][b] = "waiting" /\ branch' = [branch EXCEPT ![r][b] = "running"]
      /\ UNCHANGED <<input, status, step, product, phase, retries, branchRetries, history, subs,
                     thanked, rows, events, apologised>>
  BY DEF InvokeBranch
<1>2. Outcome(r)
  BY DEF OutcomeInv
<1>3. \A c \in Branches : branch'[r][c] = branch[r][c]
        \/ (branch[r][c] = "waiting" /\ branch'[r][c] = "running")
  BY <1>1 DEF TypeOK
<1>4. \A q \in Requests : q # r => Untouched(q)
  BY <1>1 DEF Untouched, TypeOK
<1>5. Email \in Branches /\ "SendAcquisitionEvent" \in Branches
      /\ "UpdateSupporterProductData" \in Branches
  BY DEF Email, Branches
<1>6. BranchesDeliver(r)' /\ ThanksCounted(r)'
  BY <1>1, <1>2, <1>3, <1>5 DEF Outcome, BranchesDeliver, ThanksCounted, SecondRoundDue, HasEvent, HasRow
<1>7. /\ HistoryIsTrue(r)' /\ Round(r)' /\ SucceededDelivered(r)' /\ ApologiesCounted(r)'
  BY <1>1, <1>2 DEF Outcome, HistoryIsTrue, CheckoutStatus, OwnSubs, Round, SecondRoundDue,
                    SucceededDelivered, Due, Delivered, HasEvent, HasRow, ApologiesCounted
<1>8. Outcome(r)' /\ Grows
  BY <1>1, <1>6, <1>7 DEF Outcome, Grows
<1> QED BY <1>4, <1>8, OneRequestAtATime
-----------------------------------------------------------------------------
(* The lambdas of the parallel tasks.                                      *)

\* The outcomes of an error in a branch; every retry of the e-mail uses up an attempt.
LEMMA BranchErrorCases ==
  ASSUME NEW r, NEW b, NEW e, BranchError(r, b, e)
  PROVE  \/ /\ branch' = [branch EXCEPT ![r][b] = "failed"] /\ branchRetries' = branchRetries
            /\ status' = status \/ status' = [status EXCEPT ![r] = "FAILED"]
         \/ /\ branch' = [branch EXCEPT ![r][b] = "waiting"] /\ status' = status
            /\ \/ b # Email /\ branchRetries' = branchRetries
               \/ branchRetries' = [branchRetries EXCEPT ![r][b] = branchRetries[r][b] + 1]
            /\ b = Email => branchRetries[r][b] < EmailAttempts
<1> HIDE DEF ToRetryException
<1> QED BY DEF BranchError, Retried, Counted, Email

\* What Deliver leaves for the product of this round.
LEMMA DeliverLeaves ==
  ASSUME TypeOK, NEW r \in Requests, NEW b \in Branches, Deliver(r, b)
  PROVE  /\ rows \subseteq rows' /\ events \subseteq events'
         /\ \A q \in Requests, p \in Products :
              thanked'[q][p] = IF b = Email /\ q = r /\ p = product[r]
                               THEN thanked[q][p] + 1 ELSE thanked[q][p]
         /\ \A q \in Requests : q # r => thanked'[q] = thanked[q]
         /\ b = "UpdateSupporterProductData" /\ product[r] # "DigitalSubscriptionGift"
              => [request |-> r, product |-> product[r]] \in rows'
         /\ b = "SendAcquisitionEvent" => [request |-> r, product |-> product[r]] \in events'
<1>1. thanked \in [Requests -> [Products -> Nat]] /\ product[r] \in Products
  BY DEF TypeOK
<1>2. rows \subseteq rows' /\ events \subseteq events'
  BY DEF Deliver
<1>3. /\ \A q \in Requests, p \in Products :
           thanked'[q][p] = IF b = Email /\ q = r /\ p = product[r]
                            THEN thanked[q][p] + 1 ELSE thanked[q][p]
      /\ \A q \in Requests : q # r => thanked'[q] = thanked[q]
  BY <1>1 DEF Deliver, Email
<1>4. b = "UpdateSupporterProductData" /\ product[r] # "DigitalSubscriptionGift"
        => [request |-> r, product |-> product[r]] \in rows'
  BY DEF Deliver
<1>5. b = "SendAcquisitionEvent" => [request |-> r, product |-> product[r]] \in events'
  BY DEF Deliver
<1> QED BY <1>2, <1>3, <1>4, <1>5

(* A step of a branch, told by its effects: it may send or record, and     *)
(* then it is done, has failed or has one attempt less.                    *)
LEMMA BranchLambdaCases ==
  ASSUME TypeOK, NEW r \in Requests, NEW b \in Branches, BranchLambda(r, b)
  PROVE  /\ branch[r][b] = "running"
         /\ UNCHANGED <<input, step, product, phase, retries, history, subs, apologised>>
         /\ Deliver(r, b) \/ UNCHANGED fulfilled
         /\ status' = status \/ status' = [status EXCEPT ![r] = "FAILED"]
         /\ \/ /\ branch' = [branch EXCEPT ![r][b] = "done"] /\ branchRetries' = branchRetries
               /\ Deliver(r, b)
            \/ /\ branch' = [branch EXCEPT ![r][b] = "failed"] /\ branchRetries' = branchRetries
            \/ /\ branch' = [branch EXCEPT ![r][b] = "waiting"]
               /\ \/ b # Email /\ branchRetries' = branchRetries
                  \/ branchRetries' = [branchRetries EXCEPT ![r][b] = branchRetries[r][b] + 1]
               /\ b = Email => branchRetries[r][b] < EmailAttempts
<1> USE DEF machine, zuora
<1>1. CASE BranchCompletes(r, b)
  BY <1>1 DEF BranchCompletes
<1>2. CASE BranchFails(r, b)
  <2>1. PICK e : BranchError(r, b, e) /\ (UNCHANGED fulfilled \/ Deliver(r, b))
    BY <1>2 DEF BranchFails
  <2>2. /\ branch[r][b] = "running"
        /\ UNCHANGED <<input, step, product, phase, retries, history, subs, apologised>>
    BY <1>2 DEF BranchFails
  <2> QED BY <2>1, <2>2, BranchErrorCases
<1> QED BY <1>1, <1>2 DEF BranchLambda

\* The branches keep the invariant.
LEMMA BranchKeepsOutcome ==
  ASSUME TypeOK, FulfilInv, OutcomeInv, NEW r \in Requests, NEW b \in Branches,
         BranchLambda(r, b)
  PROVE  OutcomeInv'
<1>0. /\ EmailAttempts \in Nat /\ product[r] \in Products
      /\ thanked \in [Requests -> [Products -> Nat]]
      /\ branch \in [Requests -> [Branches -> BranchPhases]]
      /\ branchRetries \in [Requests -> [Branches -> Nat]]
      /\ status \in [Requests -> Outcomes]
  BY AttemptsAssumption DEF TypeOK
<1>1. /\ branch[r][b] = "running"
      /\ UNCHANGED <<input, step, product, phase, retries, history, subs, apologised>>
      /\ status' = status \/ status' = [status EXCEPT ![r] = "FAILED"]
  BY BranchLambdaCases
<1>2. step[r] = "ParallelTasks"
  BY <1>1 DEF FulfilInv, BranchRunsInParallel
<1>3. Outcome(r)
  BY DEF OutcomeInv
<1>4. /\ rows \subseteq rows' /\ events \subseteq events'
      /\ \A q \in Requests : q # r => thanked'[q] = thanked[q]
      /\ \A q \in Requests, p \in Products :
           \/ thanked'[q][p] = thanked[q][p]
           \/ /\ b = Email /\ q = r /\ p = product[r]
              /\ thanked'[q][p] = thanked[q][p] + 1
  <2>1. Deliver(r, b) \/ UNCHANGED fulfilled
    BY BranchLambdaCases
  <2>2. CASE UNCHANGED fulfilled
    BY <2>2 DEF fulfilled
  <2>3. CASE Deliver(r, b)
    <3>1. \A q \in Requests, p \in Products :
            thanked'[q][p] = IF b = Email /\ q = r /\ p = product[r]
                             THEN thanked[q][p] + 1 ELSE thanked[q][p]
      BY <2>3, DeliverLeaves
    <3>2. /\ rows \subseteq rows' /\ events \subseteq events'
          /\ \A q \in Requests : q # r => thanked'[q] = thanked[q]
      BY <2>3, DeliverLeaves
    <3> QED BY <3>1, <3>2
  <2> QED BY <2>1, <2>2, <2>3
<1>5. \E ph \in {"done", "failed", "waiting"} : branch' = [branch EXCEPT ![r][b] = ph]
  BY BranchLambdaCases
<1>6. /\ \A q \in Requests : q # r => branch'[q] = branch[q]
      /\ \A c \in Branches : c # b => branch'[r][c] = branch[r][c]
  BY <1>0, <1>5
<1>7. /\ \A q \in Requests : q # r => branchRetries'[q] = branchRetries[q]
      /\ \A c \in Branches : c # b => branchRetries'[r][c] = branchRetries[r][c]
  <2>1. \/ branchRetries' = branchRetries
        \/ branchRetries' = [branchRetries EXCEPT ![r][b] = branchRetries[r][b] + 1]
    BY BranchLambdaCases
  <2> QED BY <1>0, <2>1
<1>8. Grows /\ \A q \in Requests : q # r => Untouched(q)
  BY <1>0, <1>1, <1>4, <1>6, <1>7 DEF Grows, Untouched
<1>9. /\ HistoryIsTrue(r)' /\ ApologiesCounted(r)'
  BY <1>1, <1>3 DEF Outcome, HistoryIsTrue, CheckoutStatus, OwnSubs, ApologiesCounted
<1>10. \A p \in Products : Delivered(r, p) => Delivered(r, p)'
  BY <1>0, <1>4 DEF Delivered, HasRow, HasEvent
<1>11. Round(r)'
  <2>1. "GuardianWeekly" \in Products
    BY DEF Products
  <2> QED BY <1>1, <1>3, <1>10, <2>1 DEF Outcome, Round, SecondRoundDue
<1>12. SucceededDelivered(r)'
  <2>1. Due(r)' = Due(r) /\ Due(r) \subseteq Products
    BY <1>1 DEF Due, TypeOK, InputType, Products
  <2>2. status'[r] = "SUCCEEDED" => status[r] = "SUCCEEDED"
    BY <1>0, <1>1
  <2> QED BY <1>1, <1>3, <1>10, <2>1, <2>2 DEF Outcome, SucceededDelivered
<1>13. BranchesDeliver(r)'
  <2>1. ASSUME NEW c \in Branches, branch'[r][c] = "done", c # b PROVE branch[r][c] = "done"
    BY <1>6, <2>1
  <2>2. ASSUME branch'[r][b] = "done" PROVE Deliver(r, b)
    <3>1. [branch EXCEPT ![r][b] = "failed"][r][b] = "failed"
          /\ [branch EXCEPT ![r][b] = "waiting"][r][b] = "waiting"
      BY <1>0
    <3> QED BY <2>2, <3>1, BranchLambdaCases
  <2>3. Email \in Branches /\ "SendAcquisitionEvent" \in Branches
        /\ "UpdateSupporterProductData" \in Branches
    BY DEF Email, Branches
  <2>4. branch'[r][Email] = "done" => thanked'[r][product[r]] > 0
    <3>1. CASE b = Email
      <4>1. ASSUME branch'[r][b] = "done" PROVE thanked'[r][product[r]] = thanked[r][product[r]] + 1
        BY <1>0, <2>2, <3>1, <4>1, DeliverLeaves
      <4> QED BY <1>0, <3>1, <4>1
    <3>2. CASE b # Email
      BY <1>0, <1>2, <1>3, <1>4, <2>1, <2>3, <3>2 DEF Outcome, BranchesDeliver
    <3> QED BY <3>1, <3>2
  <2>5. branch'[r]["SendAcquisitionEvent"] = "done" => HasEvent(r, product[r])'
    <3>1. CASE b = "SendAcquisitionEvent"
      BY <1>1, <2>2, <3>1, DeliverLeaves DEF HasEvent
    <3>2. CASE b # "SendAcquisitionEvent"
      BY <1>1, <1>2, <1>3, <1>4, <2>1, <2>3, <3>2 DEF Outcome, BranchesDeliver, HasEvent
    <3> QED BY <3>1, <3>2
  <2>6. branch'[r]["UpdateSupporterProductData"] = "done" => HasRow(r, product[r])'
    <3>1. CASE b = "UpdateSupporterProductData"
      BY <1>1, <2>2, <3>1, DeliverLeaves DEF HasRow
    <3>2. CASE b # "UpdateSupporterProductData"
      BY <1>1, <1>2, <1>3, <1>4, <2>1, <2>3, <3>2 DEF Outcome, BranchesDeliver, HasRow
    <3> QED BY <3>1, <3>2
  <2> QED BY <1>1, <2>4, <2>5, <2>6 DEF BranchesDeliver
<1>14. ThanksCounted(r)'
  <2>1. /\ branchRetries[r][Email] \in Nat /\ branchRetries[r][Email] <= EmailAttempts
        /\ thanked[r][product[r]] \in Nat
        /\ thanked[r][product[r]] <= branchRetries[r][Email]
             + (IF branch[r][Email] \in {"done", "failed"} THEN 1 ELSE 0)
    BY <1>0, <1>2, <1>3 DEF Outcome, ThanksCounted, Email, Branches
  <2>2. /\ branchRetries'[r][Email] <= EmailAttempts
        /\ thanked'[r][product[r]] <= branchRetries'[r][Email]
             + (IF branch'[r][Email] \in {"done", "failed"} THEN 1 ELSE 0)
    <3>1. CASE b # Email
      <4>1. /\ branchRetries'[r][Email] = branchRetries[r][Email]
            /\ branch'[r][Email] = branch[r][Email]
            /\ thanked'[r][product[r]] = thanked[r][product[r]]
        BY <1>0, <1>4, <1>6, <1>7, <3>1 DEF Email, Branches
      <4> QED BY <2>1, <4>1
    <3>2. CASE b = Email
      <4>1. thanked[r][product[r]] <= branchRetries[r][Email]
        BY <1>1, <2>1, <3>2
      <4>2. thanked'[r][product[r]] <= thanked[r][product[r]] + 1
        BY <1>0, <1>4
      <4>3. \/ /\ branchRetries'[r][Email] = branchRetries[r][Email]
               /\ branch'[r][Email] \in {"done", "failed"}
            \/ /\ branchRetries'[r][Email] = branchRetries[r][Email] + 1
               /\ branch'[r][Email] = "waiting" /\ branchRetries[r][Email] < EmailAttempts
        BY <1>0, <3>2, BranchLambdaCases
      <4>4. thanked'[r][product[r]] \in Nat
        <5>1. thanked'[r][product[r]] \in {thanked[r][product[r]], thanked[r][product[r]] + 1}
          BY <1>0, <1>4
        <5> QED BY <2>1, <5>1
      <4> QED BY <1>0, <2>1, <4>1, <4>2, <4>3, <4>4
    <3> QED BY <3>1, <3>2
  <2>3. thanked'[r][product[r]] <= EmailAttempts + 1
    <3>1. TypeOK'
      BY TypeStep DEF Next
    <3>2. branchRetries'[r][Email] \in Nat /\ thanked'[r][product[r]] \in Nat
      BY <1>0, <1>1, <3>1 DEF TypeOK, Email, Branches
    <3> QED BY <1>0, <2>2, <3>2
  <2>4. \A p \in Products : p # product[r] => thanked'[r][p] = thanked[r][p]
    BY <1>4
  <2>5. \A p \in Products : thanked'[r][p] <= EmailAttempts + 1
    BY <1>3, <2>3, <2>4 DEF Outcome, ThanksCounted
  <2>6. \A p \in Products : thanked'[r][p] > 0 =>
          p = product[r] \/ (product[r] = "SupporterPlus" /\ SecondRoundDue(r))
    BY <1>3, <2>4 DEF Outcome, ThanksCounted
  <2> QED BY <1>1, <1>2, <2>2, <2>5, <2>6 DEF ThanksCounted, SecondRoundDue
<1>15. Outcome(r)'
  BY <1>9, <1>11, <1>12, <1>13, <1>14 DEF Outcome
<1> QED BY <1>8, <1>15, OneRequestAtATime
-----------------------------------------------------------------------------
(* Join ends the execution or sends it round again, with all its branches  *)
(* done: what it was to deliver is delivered.                              *)
LEMMA JoinKeepsOutcome ==
  ASSUME TypeOK, OutcomeInv, NEW r \in Requests, Join(r)
  PROVE  OutcomeInv'
<1> USE DEF parallel, fulfilled, zuora, codes, accounts
<1>1. /\ Alive(r) /\ step[r] = "ParallelTasks" /\ \A b \in Branches : branch[r][b] = "done"
      /\ UNCHANGED <<input, branch, branchRetries, history, subs, thanked, rows, events,
                     apologised>>
  BY DEF Join
<1>2. Outcome(r) /\ input[r] \in InputType /\ EmailAttempts \in Nat
  BY AttemptsAssumption DEF OutcomeInv, TypeOK
<1>3. Delivered(r, product[r])
  BY <1>1, <1>2 DEF Outcome, BranchesDeliver, Delivered, Email, Branches
<1>4. HistoryIsTrue(r)'
  BY <1>1, <1>2 DEF Outcome, HistoryIsTrue, CheckoutStatus, OwnSubs
<1>5. \A p : Delivered(r, p)' = Delivered(r, p)
  BY <1>1 DEF Delivered, HasRow, HasEvent
<1>6. apologised[r] = 0
  BY <1>1, <1>2 DEF Outcome, ApologiesCounted
<1>7. CASE SecondSubscriptionDue(r)
  <2>1. /\ product' = [product EXCEPT ![r] = "SupporterPlus"] /\ UNCHANGED status
        /\ Enter(r, "ThreeTierPreparePaymentMethodForReuse")
    BY <1>7 DEF Join
  <2>2. /\ product'[r] = "SupporterPlus" /\ status'[r] = "RUNNING"
        /\ step'[r] = "ThreeTierPreparePaymentMethodForReuse"
        /\ \A q \in Requests : q # r => Untouched(q)
    BY <1>1, <2>1 DEF Enter, Untouched, TypeOK, Alive
  <2>3. /\ product[r] = "GuardianWeekly" /\ input[r].threeTier /\ input[r].knownPromo
    BY <1>7 DEF SecondSubscriptionDue
  <2>4. Round(r)'
    <3>1. SecondRoundDue(r)
      BY <1>2, <2>3 DEF Outcome, Round, SecondRoundDue
    <3>2. SecondRoundDue(r)' /\ Delivered(r, "GuardianWeekly")'
      BY <1>1, <1>3, <1>5, <2>3, <3>1 DEF SecondRoundDue
    <3> QED BY <2>2, <3>2 DEF Round
  <2>5. BranchesDeliver(r)' /\ SucceededDelivered(r)' /\ ApologiesCounted(r)'
    BY <1>1, <1>6, <2>2 DEF BranchesDeliver, SucceededDelivered, ApologiesCounted
  <2>6. ThanksCounted(r)'
    <3>1. "SupporterPlus" \in Products /\ thanked[r]["SupporterPlus"] \in Nat
      BY DEF TypeOK, Products
    <3>2. thanked[r]["SupporterPlus"] = 0
      BY <1>2, <2>3, <3>1 DEF Outcome, ThanksCounted
    <3>3. SecondRoundDue(r)'
      BY <1>1, <1>2, <2>3 DEF Outcome, Round, SecondRoundDue
    <3> QED BY <1>1, <1>2, <2>2, <3>2, <3>3 DEF Outcome, ThanksCounted
  <2>7. Outcome(r)' /\ Grows
    BY <1>1, <1>4, <2>4, <2>5, <2>6 DEF Outcome, Grows
  <2> QED BY <2>2, <2>7, OneRequestAtATime
<1>8. CASE ~SecondSubscriptionDue(r)
  <2>1. /\ status' = [status EXCEPT ![r] = "SUCCEEDED"]
        /\ UNCHANGED <<step, product, phase, retries>>
    BY <1>8 DEF Join
  <2>2. \A q \in Requests : q # r => Untouched(q)
    BY <1>1, <2>1 DEF Untouched, TypeOK
  <2>3. \A p \in Due(r) : Delivered(r, p)
    <3>1. CASE product[r] = input[r].product
      <4>1. Due(r) = {product[r]}
        BY <1>8, <3>1 DEF Due, SecondSubscriptionDue
      <4> QED BY <1>3, <4>1
    <3>2. CASE /\ product[r] = "SupporterPlus" /\ SecondRoundDue(r)
               /\ Delivered(r, "GuardianWeekly")
      <4>1. Due(r) = {"GuardianWeekly", "SupporterPlus"}
        BY <3>2 DEF Due, SecondRoundDue
      <4> QED BY <1>3, <3>2, <4>1
    <3> QED BY <1>2, <3>1, <3>2 DEF Outcome, Round
  <2>4. SucceededDelivered(r)'
    <3>1. Due(r)' = Due(r)
      BY <1>1 DEF Due
    <3> QED BY <1>5, <2>3, <3>1 DEF SucceededDelivered
  <2>5. BranchesDeliver(r)' /\ Round(r)' /\ ThanksCounted(r)' /\ ApologiesCounted(r)'
    BY <1>1, <1>2, <2>1 DEF Outcome, BranchesDeliver, Round, SecondRoundDue, ThanksCounted,
                            ApologiesCounted, Delivered, HasEvent, HasRow
  <2>6. Outcome(r)' /\ Grows
    BY <1>1, <1>4, <2>4, <2>5 DEF Outcome, Grows
  <2> QED BY <2>2, <2>6, OneRequestAtATime
<1> QED BY <1>7, <1>8

(* Every step keeps the invariant.                                         *)
LEMMA OutcomeStep == TypeOK /\ FulfilInv /\ OutcomeInv /\ [Next]_vars => OutcomeInv'
<1> SUFFICES ASSUME TypeOK, FulfilInv, OutcomeInv, [Next]_vars PROVE OutcomeInv'
  OBVIOUS
<1> USE DEF machine, codes, parallel, zuora, fulfilled, accounts
<1>1. CASE UNCHANGED vars
  <2>1. Grows /\ \A q \in Requests : Untouched(q)
    BY <1>1 DEF vars, Grows, Untouched
  <2> QED BY <2>1, UntouchedKeeps DEF OutcomeInv
<1>2. ASSUME NEW r \in Requests, Invoke(r) PROVE OutcomeInv'
  <2>1. /\ phase[r] = "waiting" /\ phase' = [phase EXCEPT ![r] = "running"]
        /\ UNCHANGED <<input, status, step, product, retries, branch, branchRetries, history,
                       subs, thanked, rows, events, apologised>>
    BY <1>2 DEF Invoke
  <2>2. ApologiesCounted(r)'
    BY <2>1 DEF OutcomeInv, Outcome, ApologiesCounted, TypeOK
  <2> QED BY <2>1, <2>2, OutcomeMachineStep DEF TypeOK
<1>3. ASSUME NEW r \in Requests, SetupLambda(r) PROVE OutcomeInv'
  BY <1>3, SetupKeepsOutcome
<1>4. ASSUME NEW r \in Requests, ZuoraLambda(r) PROVE OutcomeInv'
  BY <1>4, ZuoraKeepsOutcome
<1>5. ASSUME NEW r \in Requests, FailureLambda(r) PROVE OutcomeInv'
  BY <1>5, FailureKeepsOutcome
<1>6. ASSUME NEW r \in Requests, CheckoutSuccess(r) PROVE OutcomeInv'
  BY <1>6, SuccessKeepsOutcome
<1>7. ASSUME NEW r \in Requests, Join(r) PROVE OutcomeInv'
  BY <1>7, JoinKeepsOutcome
<1>8. ASSUME NEW r \in Requests, ExecutionTimesOut(r) PROVE OutcomeInv'
  <2>1. /\ status' = [status EXCEPT ![r] = "TIMED_OUT"]
        /\ UNCHANGED <<input, step, product, phase, retries, branch, branchRetries, history,
                       subs, thanked, rows, events, apologised>>
    BY <1>8 DEF ExecutionTimesOut
  <2>2. ApologiesCounted(r)'
    BY <2>1 DEF OutcomeInv, Outcome, ApologiesCounted
  <2>3. status'[r] = "TIMED_OUT" /\ \A q \in Requests : q # r => status'[q] = status[q]
    BY <2>1 DEF TypeOK
  <2> QED BY <2>1, <2>2, <2>3, OutcomeMachineStep
<1>9. ASSUME NEW r \in Requests, NEW b \in Branches, InvokeBranch(r, b) PROVE OutcomeInv'
  BY <1>9, InvokeBranchKeepsOutcome
<1>10. ASSUME NEW r \in Requests, NEW b \in Branches, BranchLambda(r, b) PROVE OutcomeInv'
  BY <1>10, BranchKeepsOutcome
<1>11. CASE LateCommit
  <2>1. Grows /\ \A q \in Requests : Untouched(q)
    BY <1>11 DEF LateCommit, CreateInZuora, Grows, Untouched
  <2> QED BY <2>1, UntouchedKeeps DEF OutcomeInv
<1> QED BY <1>1, <1>2, <1>3, <1>4, <1>5, <1>6, <1>7, <1>8, <1>9, <1>10, <1>11 DEF Next

(* The invariant, with the two it rests on.                                *)
LEMMA OutcomeCorrect == Spec => []OutcomeInv
<1>1. Init => FulfilInv /\ OutcomeInv
  BY FulfilInit, OutcomeInit
<1>2. TypeOK /\ FulfilInv /\ OutcomeInv /\ [Next]_vars => FulfilInv' /\ OutcomeInv'
  BY FulfilStep, OutcomeStep
<1> QED BY <1>1, <1>2, TypeCorrect, PTL DEF Spec

-----------------------------------------------------------------------------
(* What the status page says is true: whatever fails, times out or comes   *)
(* late, "success" is read only off an execution whose customer holds a    *)
(* subscription, "failure" only off one whose customer has been mailed.    *)
THEOREM StatusCorrect == Spec => []StatusIsTrue
<1>1. OutcomeInv => StatusIsTrue
  BY DEF OutcomeInv, Outcome, HistoryIsTrue, StatusIsTrue
<1> QED BY <1>1, OutcomeCorrect, PTL

(* An execution that succeeds without an apology has thanked for, recorded *)
(* and published every product of its request: both of a third tier.       *)
THEOREM SucceededCorrect == Spec => []SucceededMeansFulfilled
<1>1. OutcomeInv => SucceededMeansFulfilled
  BY DEF OutcomeInv, Outcome, SucceededDelivered, SucceededMeansFulfilled, Delivered,
         HasRow, HasEvent
<1> QED BY <1>1, OutcomeCorrect, PTL

(* emailRetry: the e-mails of a checkout are at most one for each attempt  *)
(* allowed, for each product and for the apology.                          *)
THEOREM MailsCorrect == Spec => []MailsBounded
<1>1. TypeOK /\ OutcomeInv => MailsBounded
  <2> SUFFICES ASSUME TypeOK, OutcomeInv, NEW r \in Requests
               PROVE  /\ apologised[r] <= EmailAttempts + 1
                      /\ \A p \in Products : thanked[r][p] <= EmailAttempts + 1
    BY DEF MailsBounded
  <2>1. EmailAttempts \in Nat /\ retries[r] \in Nat /\ apologised[r] \in Nat
    BY AttemptsAssumption DEF TypeOK
  <2>2. apologised[r] <= EmailAttempts + 1
    BY <2>1 DEF OutcomeInv, Outcome, ApologiesCounted
  <2> QED BY <2>2 DEF OutcomeInv, Outcome, ThanksCounted
<1> QED BY <1>1, TypeCorrect, OutcomeCorrect, PTL

-----------------------------------------------------------------------------
(* What the polls see.                                                     *)

(* Where a request's execution is when its status is final: at the end,    *)
(* or, for one subscription, in the tasks that follow it.                  *)
FinalInPlace(r) ==
  /\ CheckoutStatus(r) = "success" /\ ~input[r].threeTier => step[r] = "ParallelTasks"
  /\ CheckoutStatus(r) = "failure" => ~Alive(r)
JobInv == \A r \in Requests : FinalInPlace(r)

(* What a step may do to the execution of q as far as the polls go:        *)
(* nothing, the exit from CheckoutSuccess or the one from                  *)
(* SucceedOrFailChoice.                                                    *)
NothingExited(q) ==
  /\ history'[q] = history[q]
  /\ step[q] = "ParallelTasks" /\ ~input[q].threeTier => step'[q] = "ParallelTasks"
SuccessExited(q) ==
  /\ Alive(q) /\ step[q] = "ParallelTasks" /\ step'[q] = "ParallelTasks"
  /\ history'[q] = Append(history[q], "CheckoutSuccess")
FailureExited(q) ==
  /\ Alive(q) /\ ~Alive(q)' /\ step[q] = "FailureHandler"
  /\ history'[q] = Append(history[q], "SucceedOrFailChoice")
Exits(q) == /\ input' = input
            /\ ~Alive(q) => ~Alive(q)'
            /\ NothingExited(q) \/ SuccessExited(q) \/ FailureExited(q)

\* An answer of another lambda than the parallel tasks' leaves no state of the history.
LEMMA AnswerExitsNothing ==
  ASSUME TypeOK, NEW r \in Requests, NEW s, Answer(r, s), step[r] # "ParallelTasks",
         UNCHANGED <<input, status, history>>, NEW q \in Requests
  PROVE  Exits(q)
BY AnswerMoves DEF Exits, NothingExited, Alive

\* Nor does an error, which at most ends the execution.
LEMMA ErrorExitsNothing ==
  ASSUME TypeOK, NEW r \in Requests, NEW e, LambdaError(r, e), step[r] # "ParallelTasks",
         UNCHANGED <<input, history>>, NEW q \in Requests
  PROVE  Exits(q)
<1>1. status' = status \/ status' = [status EXCEPT ![r] = "FAILED"]
  BY LambdaErrorCases
<1>2. ~Alive(q) => ~Alive(q)'
  BY <1>1 DEF Alive, TypeOK
<1> QED BY <1>2, LambdaErrorMoves DEF Exits, NothingExited

\* Every step is one of the three for every request.
LEMMA StepExits ==
  ASSUME TypeOK, [Next]_vars, NEW q \in Requests
  PROVE  Exits(q)
<1> USE DEF machine, codes, parallel, zuora, fulfilled, accounts
<1>0. ASSUME UNCHANGED <<input, status, step, history>> PROVE Exits(q)
  BY <1>0 DEF Exits, NothingExited, Alive
<1>1. CASE UNCHANGED vars
  BY <1>0, <1>1 DEF vars
<1>2. CASE LateCommit
  BY <1>0, <1>2 DEF LateCommit
<1>3. ASSUME NEW r \in Requests, Invoke(r) PROVE Exits(q)
  BY <1>0, <1>3 DEF Invoke
<1>4. ASSUME NEW r \in Requests, SetupLambda(r) PROVE Exits(q)
  <2>1. step[r] # "ParallelTasks" /\ UNCHANGED <<input, history>>
    BY <1>4 DEF SetupLambda, CreatePaymentMethod, CreateSalesforceContact, SetupFails,
                PreparePaymentMethodForReuse, RefusePaymentMethod, Running, PrepareSteps
  <2>2. \/ UNCHANGED status /\ \E s : Answer(r, s)
        \/ \E e : LambdaError(r, e)
    <3> HIDE DEF LambdaError, Answer
    <3> QED BY <1>4 DEF SetupLambda, CreatePaymentMethod, CreateSalesforceContact, SetupFails,
                PreparePaymentMethodForReuse, RefusePaymentMethod
  <2> QED BY <2>1, <2>2, AnswerExitsNothing, ErrorExitsNothing
<1>5. ASSUME NEW r \in Requests, ZuoraLambda(r) PROVE Exits(q)
  <2>1. step[r] # "ParallelTasks" /\ UNCHANGED <<input, history>>
    BY <1>5 DEF ZuoraLambda, LookUp, Subscribe, SubscriptionKnown, ZuoraFails, Running, ZuoraSteps
  <2>2. \/ UNCHANGED <<status, step>>
        \/ UNCHANGED status /\ \E s : Answer(r, s)
        \/ \E e : LambdaError(r, e)
    <3> HIDE DEF LambdaError, Answer
    <3> QED BY <1>5 DEF ZuoraLambda, LookUp, Subscribe, SubscriptionKnown, ZuoraFails
  <2> QED BY <1>0, <2>1, <2>2, AnswerExitsNothing, ErrorExitsNothing
<1>6. ASSUME NEW r \in Requests, FailureHandlerFails(r) PROVE Exits(q)
  <2>1. step[r] # "ParallelTasks" /\ UNCHANGED <<input, history>> /\ \E e : LambdaError(r, e)
    <3> HIDE DEF LambdaError
    <3> QED BY <1>6 DEF FailureHandlerFails, Running
  <2> QED BY <2>1, ErrorExitsNothing
<1>7. ASSUME NEW r \in Requests, FailureHandler(r) PROVE Exits(q)
  <2>1. /\ step[r] = "FailureHandler" /\ UNCHANGED <<input, step>>
        /\ IF Alive(r)
           THEN /\ status' = [status EXCEPT ![r] = ExecutionOutcome(r)]
                /\ history' = [history EXCEPT ![r] = Append(history[r], "SucceedOrFailChoice")]
           ELSE UNCHANGED <<status, history>>
    BY <1>7 DEF FailureHandler, Running, Unanswered
  <2>2. CASE ~Alive(r)
    BY <1>0, <2>1, <2>2
  <2>3. CASE Alive(r) /\ q # r
    BY <2>1, <2>3 DEF Exits, NothingExited, Alive, TypeOK
  <2>4. CASE Alive(r) /\ q = r
    <3>1. status'[r] # "RUNNING"
      BY <2>1, <2>4 DEF ExecutionOutcome, TypeOK
    <3>2. history'[r] = Append(history[r], "SucceedOrFailChoice")
      BY <2>1, <2>4 DEF TypeOK
    <3> QED BY <2>1, <2>4, <3>1, <3>2 DEF Exits, FailureExited, Alive
  <2> QED BY <2>2, <2>3, <2>4
<1>8. ASSUME NEW r \in Requests, CheckoutSuccess(r) PROVE Exits(q)
  <2>1. /\ Alive(r) /\ step[r] = "ParallelTasks" /\ UNCHANGED <<input, status, step>>
        /\ history' = [history EXCEPT ![r] = Append(history[r], "CheckoutSuccess")]
    BY <1>8 DEF CheckoutSuccess
  <2>2. CASE q # r
    BY <2>1, <2>2 DEF Exits, NothingExited, Alive, TypeOK
  <2>3. CASE q = r
    <3>1. history'[r] = Append(history[r], "CheckoutSuccess")
      BY <2>1 DEF TypeOK
    <3> QED BY <2>1, <2>3, <3>1 DEF Exits, SuccessExited, Alive
  <2> QED BY <2>2, <2>3
<1>9. ASSUME NEW r \in Requests, Join(r) PROVE Exits(q)
  <2>1. /\ UNCHANGED <<input, history>>
        /\ \/ input[r].threeTier /\ UNCHANGED status /\ \E s : step' = [step EXCEPT ![r] = s]
           \/ UNCHANGED step /\ status' = [status EXCEPT ![r] = "SUCCEEDED"]
    BY <1>9 DEF Join, SecondSubscriptionDue, Enter
  <2> QED BY <2>1 DEF Exits, NothingExited, Alive, TypeOK
<1>10. ASSUME NEW r \in Requests, ExecutionTimesOut(r) PROVE Exits(q)
  BY <1>10 DEF ExecutionTimesOut, Exits, NothingExited, Alive, TypeOK
<1>11. ASSUME NEW r \in Requests, NEW b \in Branches, InvokeBranch(r, b) PROVE Exits(q)
  BY <1>0, <1>11 DEF InvokeBranch
<1>12. ASSUME NEW r \in Requests, NEW b \in Branches, BranchLambda(r, b) PROVE Exits(q)
  <2>1. /\ UNCHANGED <<input, step, history>>
        /\ status' = status \/ status' = [status EXCEPT ![r] = "FAILED"]
    <3> HIDE DEF ToRetryException
    <3> QED BY <1>12 DEF BranchLambda, BranchCompletes, BranchFails, BranchError
  <2> QED BY <2>1 DEF Exits, NothingExited, Alive, TypeOK
<1> QED BY <1>1, <1>2, <1>3, <1>4, <1>5, <1>6, <1>7, <1>8, <1>9, <1>10, <1>11, <1>12
        DEF Next, FailureLambda

\* The status is that of the state exited last.
LEMMA LastExit ==
  ASSUME TypeOK, TypeOK', NEW q \in Requests
  PROVE  /\ NothingExited(q) => CheckoutStatus(q)' = CheckoutStatus(q)
         /\ SuccessExited(q) => CheckoutStatus(q)' = "success"
         /\ FailureExited(q) => CheckoutStatus(q)' = "failure"
<1>0. history[q] \in Seq({"CheckoutSuccess", "SucceedOrFailChoice"})
  BY DEF TypeOK
<1>1. NothingExited(q) => CheckoutStatus(q)' = CheckoutStatus(q)
  BY DEF NothingExited, CheckoutStatus
<1>2. ASSUME NEW n \in {"CheckoutSuccess", "SucceedOrFailChoice"},
             history'[q] = Append(history[q], n)
      PROVE  history'[q] # <<>> /\ history'[q][Len(history'[q])] = n
  BY <1>0, <1>2
<1>3. SuccessExited(q) => CheckoutStatus(q)' = "success"
  BY <1>2 DEF SuccessExited, CheckoutStatus
<1>4. FailureExited(q) => CheckoutStatus(q)' = "failure"
  BY <1>2 DEF FailureExited, CheckoutStatus
<1> QED BY <1>1, <1>3, <1>4

\* What a step does to one request's status, and what it keeps of the invariant.
LEMMA FinalStays ==
  ASSUME TypeOK, TypeOK', NEW q \in Requests, FinalInPlace(q), Exits(q)
  PROVE  /\ FinalInPlace(q)'
         /\ ~input[q].threeTier =>
              \/ CheckoutStatus(q)' = CheckoutStatus(q)
              \/ CheckoutStatus(q) = "pending" /\ CheckoutStatus(q)' \in {"success", "failure"}
<1>0. CheckoutStatus(q) \in {"pending", "success", "failure"}
  BY DEF CheckoutStatus
<1>1. CASE NothingExited(q)
  BY <1>1, LastExit DEF Exits, NothingExited, FinalInPlace
<1>2. CASE SuccessExited(q)
  BY <1>0, <1>2, LastExit DEF Exits, SuccessExited, FinalInPlace
<1>3. CASE FailureExited(q)
  BY <1>0, <1>3, LastExit DEF Exits, FailureExited, FinalInPlace
<1> QED BY <1>1, <1>2, <1>3 DEF Exits

\* At first nothing is final.
LEMMA JobInit == Init => JobInv
BY DEF Init, JobInv, FinalInPlace, CheckoutStatus

\* The invariant, with the type invariant.
LEMMA JobInvariant == Spec => [](TypeOK /\ JobInv)
<1>1. TypeOK /\ JobInv /\ [Next]_vars => JobInv'
  BY TypeStep, StepExits, FinalStays DEF JobInv, Exits
<1> QED BY <1>1, TypeInit, JobInit, TypeStep, PTL DEF Spec

(* The status page never takes a success back, of one subscription, even   *)
(* if other requests of the run are for two: after CheckoutSuccess the     *)
(* machine cannot reach FailureHandler any more.                           *)
THEOREM SuccessFinalCorrect == Spec => SuccessIsFinal
<1>1. TypeOK /\ TypeOK' /\ JobInv /\ [Next]_vars =>
        [\A r \in Requests :
           CheckoutStatus(r) = "success" /\ ~input[r].threeTier => CheckoutStatus(r)' = "success"]_vars
  BY StepExits, FinalStays DEF JobInv
<1> QED BY <1>1, JobInvariant, PTL DEF Spec, SuccessIsFinal

\* A step appends to the history of one request at most.
LEMMA OneExit ==
  ASSUME TypeOK, [Next]_vars
  PROVE  \/ history' = history
         \/ \E r \in Requests : \A q \in Requests : q # r => history'[q] = history[q]
<1>1. \/ history' = history
      \/ \E r \in Requests, n \in {"CheckoutSuccess", "SucceedOrFailChoice"} :
           history' = [history EXCEPT ![r] = Append(history[r], n)]
  <2> HIDE DEF LambdaError, Answer, BranchError, Deliver
  <2> QED BY DEF vars, Next, Invoke, SetupLambda, CreatePaymentMethod, CreateSalesforceContact,
        PreparePaymentMethodForReuse, SetupFails, RefusePaymentMethod, ZuoraLambda, LookUp,
        Subscribe, SubscriptionKnown, ZuoraFails, CheckoutSuccess, Join, ExecutionTimesOut,
        InvokeBranch, BranchLambda, BranchCompletes, BranchFails, LateCommit, FailureLambda,
        FailureHandler, FailureHandlerFails
<1> QED BY <1>1 DEF TypeOK

(* Every step of the executions is one of CheckoutJob or a stutter of it:  *)
(* what the browsers rely on holds of everything the workers may do.       *)
THEOREM JobImplemented == Spec => ImplementsJob
<1> DEFINE seen == [r \in Requests |-> IF input[r].threeTier THEN "pending" ELSE CheckoutStatus(r)]
<1>1. Init => Polled!Init
  BY DEF Init, Polled!Init, CheckoutStatus
<1>2. TypeOK /\ TypeOK' /\ JobInv /\ [Next]_vars => [Polled!Next]_seen
  <2> SUFFICES ASSUME TypeOK, TypeOK', JobInv, [Next]_vars PROVE Polled!Next \/ seen' = seen
    OBVIOUS
  <2>1. \A q \in Requests : input'[q] = input[q] /\ Exits(q) /\ FinalInPlace(q)
    BY StepExits DEF JobInv, Exits
  <2>2. CASE history' = history
    BY <2>1, <2>2 DEF CheckoutStatus
  <2>3. ASSUME NEW r \in Requests, \A q \in Requests : q # r => history'[q] = history[q]
        PROVE  Polled!Next \/ seen' = seen
    <3>1. \A q \in Requests : q # r => CheckoutStatus(q)' = CheckoutStatus(q)
      BY <2>3 DEF CheckoutStatus
    <3>2. CASE input[r].threeTier \/ CheckoutStatus(r)' = CheckoutStatus(r)
      BY <2>1, <3>1, <3>2
    <3>3. CASE /\ ~input[r].threeTier /\ CheckoutStatus(r) = "pending"
               /\ CheckoutStatus(r)' \in {"success", "failure"}
      <4>1. seen[r] = "pending" /\ seen' = [seen EXCEPT ![r] = CheckoutStatus(r)']
        BY <2>1, <3>1, <3>3
      <4>2. Polled!End(r)
        BY <3>3, <4>1 DEF Polled!End, Polled!Final
      <4> QED BY <4>2 DEF Polled!Next
    <3> QED BY <2>1, <3>2, <3>3, FinalStays
  <2> QED BY <2>2, <2>3, OneExit
<1> QED BY <1>1, <1>2, JobInvariant, PTL DEF Spec, ImplementsJob, Polled!Spec

(* A customer who bought one subscription gets the thank-you or the        *)
(* failure e-mail, never both, even if Zuora executes calls late.  With    *)
(* the third tier, the second subscription may fail after the thank-you    *)
(* for the first.                                                          *)
THEOREM OneVerdictCorrect ==
  Spec /\ (\A in \in Inputs : ~in.threeTier) => []OneVerdictByMail
<1> DEFINE Single == \A r \in Requests : ~input[r].threeTier
<1>1. TypeOK /\ OutcomeInv /\ Single => OneVerdictByMail
  <2> SUFFICES ASSUME TypeOK, OutcomeInv, Single,
                      NEW r \in Requests, apologised[r] > 0, NEW p \in Products
               PROVE  thanked[r][p] = 0
    BY DEF OneVerdictByMail
  <2>1. ~input[r].threeTier /\ Outcome(r) /\ thanked[r][p] \in Nat
    BY DEF OutcomeInv, TypeOK
  <2>2. step[r] # "ParallelTasks"
    BY <2>1 DEF Outcome, ApologiesCounted
  <2> QED BY <2>1, <2>2 DEF Outcome, ThanksCounted, SecondRoundDue
<1>2. TypeOK /\ Single /\ [Next]_vars => Single'
  BY StepExits DEF Exits
<1>3. Init /\ (\A in \in Inputs : ~in.threeTier) => Single
  BY DEF Init
<1> HIDE DEF Single
<1> QED BY <1>1, <1>2, <1>3, TypeCorrect, OutcomeCorrect, PTL DEF Spec
=============================================================================
