-------------------------- MODULE CheckoutExecution --------------------------
(***************************************************************************)
(* Executions of the support-workers state machine: one per checkout       *)
(* request, from the choice of the first state to the end of the           *)
(* execution, with the lambdas each state invokes and what they leave in   *)
(* Zuora, the payment providers, Salesforce, the e-mail queue, the         *)
(* supporter product data table and the acquisition event bus.             *)
(*                                                                         *)
(* A lambda invocation is not one step: it starts, calls other systems and *)
(* answers, and may fail at any point, with or without the effect of its   *)
(* last call.  An execution that ends while an invocation is under way     *)
(* does not stop it.  Requests of one customer share the Zuora accounts a  *)
(* retry searches.                                                         *)
(***************************************************************************)
EXTENDS ErrorHandler, Sequences

CONSTANTS
  Requests,     \* the checkout requests, one execution each
  Inputs,       \* the requests' inputs to explore, a subset of InputType
  Codes,        \* gift codes the generator may return
  Faults,       \* the errors the environment may cause, a subset of Exceptions
  LateCommits,  \* TRUE: Zuora may execute a call after its caller gave up on it
  MaxSubs       \* bound on the subscriptions created in one behaviour

Products == {"Contribution", "SupporterPlus", "GuardianWeekly", "Paper",
             "DigitalSubscription", "DigitalSubscriptionGift"}

(* threeTier is acquisitionData.threeTierCreateSupporterPlusSubscription;  *)
(* knownPromo says whether currency, billing period and promotion code are *)
(* those of one of the fourteen choices of                                 *)
(* ThreeTierChooseSupporterPlusProduct.                                    *)
InputType == [accountExists : BOOLEAN, product : Products,
              threeTier : BOOLEAN, knownPromo : BOOLEAN, testUser : BOOLEAN]

ASSUME ExecutionAssumption ==
  /\ Inputs \subseteq InputType
  /\ Faults \subseteq Exceptions
  /\ LateCommits \in BOOLEAN
  /\ MaxSubs \in Nat
  /\ Codes # {}

PrepareSteps == {"PreparePaymentMethodForReuse", "ThreeTierPreparePaymentMethodForReuse"}
ZuoraSteps == {"CreateZuoraSubscription", "ThreeTierCreateZuoraSubscription"}
LambdaSteps == PrepareSteps \cup ZuoraSteps \cup
               {"CreatePaymentMethod", "CreateSalesforceContact", "FailureHandler"}
Steps == LambdaSteps \cup {"ParallelTasks"}
Branches == {"CheckoutSuccess", "SendThankYouEmail", "UpdateSupporterProductData",
             "SendAcquisitionEvent"}

(* How far the lambda of the current step is: waiting to be invoked,       *)
(* running, or, in CreateZuoraSubscription, past its look-up: "absent"     *)
(* when it is going to subscribe, "known" when the subscription exists.    *)
Phases == {"waiting", "running", "absent", "known", "idle"}
BranchPhases == {"idle", "waiting", "running", "done", "failed"}
Outcomes == {"RUNNING", "SUCCEEDED", "FAILED", "TIMED_OUT"}
NoError == [service |-> "none", code |-> "none"]
NoCode == "no code"

VARIABLES
  input,          \* [Requests -> Inputs]
  status,         \* how Step Functions sees the execution
  step,           \* the state the execution is in
  product,        \* $.state.product.productType
  phase,          \* of the current step's lambda
  retries,        \* attempts its retrier has counted
  error,          \* $.error
  draft,          \* the gift code the current invocation generated
  giftCode,       \* the gift code handed to SendThankYouEmail
  branch,         \* phases of the branches of ParallelTasks
  branchRetries,
  history,        \* names of the exited states the status page looks for, oldest first
  paymentMethods, \* requests with a customer or mandate at the payment provider
  contacts,       \* requests with a Salesforce contact
  subs,           \* subscriptions in Zuora
  nextSub,        \* number of the next subscription
  late,           \* subscribe calls under way whose caller has given up
  thanked,        \* thank-you e-mails sent, per request and product
  apologised,     \* failure e-mails sent, per request
  rows,           \* rows of the supporter product data table
  events          \* acquisition events put on the bus

machine == <<status, step, product, phase, retries, error>>
codes == <<draft, giftCode>>
parallel == <<branch, branchRetries>>
zuora == <<subs, nextSub, late>>
fulfilled == <<thanked, rows, events>>
accounts == <<paymentMethods, contacts>>
vars == <<input, machine, codes, parallel, history, accounts, zuora, fulfilled, apologised>>

-----------------------------------------------------------------------------
Alive(r) == status[r] = "RUNNING"
OwnSubs(r) == {s \in subs : s.request = r}
Purchased(r, p) == \E s \in subs : s.request = r /\ s.product = p

\* ShouldClonePaymentMethodChoice.
FirstStep(in) == IF in.accountExists THEN "PreparePaymentMethodForReuse" ELSE "CreatePaymentMethod"

(* The services a lambda calls, whose errors it may end with.              *)
Services(s) ==
  CASE s = "CreatePaymentMethod" -> {"Stripe", "PayPal", "WebService", "General"}
    [] s = "CreateSalesforceContact" -> {"Salesforce", "WebService", "General"}
    [] s \in PrepareSteps \cup ZuoraSteps -> {"Zuora", "WebService", "General"}
    [] s = "SendThankYouEmail" -> {"WebService", "General"}
    [] s = "SendAcquisitionEvent" -> {"EventBus", "General"}
    [] OTHER -> {"General"}

\* Zuora takes the payment in the subscribe call and nowhere else.
Declines == {e \in Faults : e.service = "Zuora" /\ e.code \in
               {"TRANSACTION_FAILED", "TRANSACTION_FAILED: postal_code"}}

Raised(s) == {e \in Faults : e.service \in Services(s)} \ Declines

\* Errors a lambda can meet with the effect of its last call in place.
LostAnswers(s) == {e \in Raised(s) : e.code \in
  {"SocketTimeoutException", "SocketException", "SSLException", "LambdaTimeout",
   "RuntimeException", "WebServiceHelperError", "DecodingFailure"}}

\* Mutants: SucceedOrFailChoice taken for a success; CheckoutSuccess renamed in the template.
AnyExitIsSuccess(r) == IF history[r] = <<>> THEN "pending" ELSE "success"
SuccessStepRenamed(r) ==
  IF history[r] = <<>> \/ history[r][Len(history[r])] = "CheckoutSuccess" THEN "pending"
  ELSE "failure"

(* StepFunctionExecutionStatus.checkoutStatus over the reversed history.   *)
CheckoutStatus(r) ==
  IF history[r] = <<>> THEN "pending"
  ELSE IF history[r][Len(history[r])] = "CheckoutSuccess" THEN "success" ELSE "failure"

Init ==
  /\ input \in [Requests -> Inputs]
  /\ status = [r \in Requests |-> "RUNNING"]
  /\ step = [r \in Requests |-> FirstStep(input[r])]
  /\ product = [r \in Requests |-> input[r].product]
  /\ phase = [r \in Requests |-> "waiting"]
  /\ retries = [r \in Requests |-> 0]
  /\ error = [r \in Requests |-> NoError]
  /\ draft = [r \in Requests |-> NoCode]
  /\ giftCode = [r \in Requests |-> NoCode]
  /\ branch = [r \in Requests |-> [b \in Branches |-> "idle"]]
  /\ branchRetries = [r \in Requests |-> [b \in Branches |-> 0]]
  /\ history = [r \in Requests |-> <<>>]
  /\ paymentMethods = {} /\ contacts = {}
  /\ subs = {} /\ nextSub = 1 /\ late = {}
  /\ thanked = [r \in Requests |-> [p \in Products |-> 0]]
  /\ apologised = [r \in Requests |-> 0]
  /\ rows = {} /\ events = {}

-----------------------------------------------------------------------------
(* The state machine.  An answer or an error of a lambda moves the         *)
(* execution only while it is running; afterwards nobody waits for it.     *)

Enter(r, s) ==
  /\ step' = [step EXCEPT ![r] = s]
  /\ phase' = [phase EXCEPT ![r] = "waiting"]
  /\ retries' = [retries EXCEPT ![r] = 0]

Unanswered(r) ==
  /\ phase' = [phase EXCEPT ![r] = "idle"]
  /\ UNCHANGED <<step, retries>>

Answer(r, s) == IF Alive(r) THEN Enter(r, s) ELSE Unanswered(r)

Running(r, steps) == step[r] \in steps /\ phase[r] = "running"

\* Invoke the lambda of the current state.
Invoke(r) ==
  /\ Alive(r) /\ step[r] \in LambdaSteps /\ phase[r] = "waiting"
  /\ phase' = [phase EXCEPT ![r] = "running"]
  /\ IF step[r] \in ZuoraSteps /\ product[r] = "DigitalSubscriptionGift"
     THEN \E c \in Codes : draft' = [draft EXCEPT ![r] = c]
     ELSE UNCHANGED draft
  /\ UNCHANGED <<input, status, step, product, retries, error, giftCode, parallel, history,
                 accounts, zuora, fulfilled, apologised>>

(* The Retry and Catch blocks: another attempt, or the FailureHandler      *)
(* state, which itself has no Catch.                                       *)
LambdaError(r, e) ==
  LET class == ToRetryException(e)
      emailRetry == step[r] = "FailureHandler"
  IN IF ~Alive(r) THEN
       /\ Unanswered(r) /\ UNCHANGED <<status, error>>
     ELSE IF Retried(emailRetry, class, retries[r]) THEN
       /\ phase' = [phase EXCEPT ![r] = "waiting"]
       /\ retries' = IF Counted(emailRetry, class) THEN [retries EXCEPT ![r] = @ + 1] ELSE retries
       /\ UNCHANGED <<step, status, error>>
     ELSE IF emailRetry THEN
       /\ status' = [status EXCEPT ![r] = "FAILED"]
       /\ Unanswered(r) /\ UNCHANGED error
     ELSE
       /\ error' = [error EXCEPT ![r] = e]
       /\ Enter(r, "FailureHandler") /\ UNCHANGED status

\* TimeoutSeconds of the state machine.
ExecutionTimesOut(r) ==
  /\ Alive(r)
  /\ status' = [status EXCEPT ![r] = "TIMED_OUT"]
  /\ UNCHANGED <<input, step, product, phase, retries, error, codes, parallel, history,
                 accounts, zuora, fulfilled, apologised>>

-----------------------------------------------------------------------------
(* The lambdas before the subscription.  Each attempt registers the        *)
(* customer again with the payment provider: the set abstracts from how    *)
(* many registrations the attempts leave behind.                           *)

CreatePaymentMethod(r) ==
  /\ Running(r, {"CreatePaymentMethod"})
  /\ paymentMethods' = paymentMethods \cup {r}
  /\ Answer(r, "CreateSalesforceContact")
  /\ UNCHANGED <<input, status, product, error, codes, parallel, history, contacts,
                 zuora, fulfilled, apologised>>

CreateSalesforceContact(r) ==
  /\ Running(r, {"CreateSalesforceContact"})
  /\ contacts' = contacts \cup {r}
  /\ Answer(r, "CreateZuoraSubscription")
  /\ UNCHANGED <<input, status, product, error, codes, parallel, history, paymentMethods,
                 zuora, fulfilled, apologised>>

Reusable == {"Contribution", "SupporterPlus"}

PreparePaymentMethodForReuse(r) ==
  /\ Running(r, PrepareSteps) /\ product[r] \in Reusable
  /\ paymentMethods' = paymentMethods \cup {r}
  /\ Answer(r, IF step[r] = "PreparePaymentMethodForReuse" THEN "CreateZuoraSubscription"
               ELSE "ThreeTierCreateZuoraSubscription")
  /\ UNCHANGED <<input, status, product, error, codes, parallel, history, contacts,
                 zuora, fulfilled, apologised>>

\* Other products are refused, after a direct debit's mandate has been cloned.
RefusePaymentMethod(r) ==
  /\ Running(r, PrepareSteps) /\ product[r] \notin Reusable
  /\ LambdaError(r, RuntimeException)
  /\ paymentMethods' \in {paymentMethods, paymentMethods \cup {r}}
  /\ UNCHANGED <<input, product, codes, parallel, history, contacts, zuora, fulfilled, apologised>>

\* One of the three lambdas fails, before or after its last call took effect.
SetupFails(r) ==
  /\ Running(r, PrepareSteps \cup {"CreatePaymentMethod", "CreateSalesforceContact"})
  /\ \E e \in Raised(step[r]) : LambdaError(r, e)
  /\ IF step[r] = "CreateSalesforceContact"
     THEN contacts' \in {contacts, contacts \cup {r}} /\ UNCHANGED paymentMethods
     ELSE paymentMethods' \in {paymentMethods, paymentMethods \cup {r}} /\ UNCHANGED contacts
  /\ UNCHANGED <<input, product, codes, parallel, history, zuora, fulfilled, apologised>>

-----------------------------------------------------------------------------
(* CreateZuoraSubscription: ensureSubscriptionCreated looks for a          *)
(* subscription this request has already created and subscribes if there   *)
(* is none, or if the one it found is for other rate plans.                *)

\* Mutant: the newest subscription is outside the query's window.
NewestNotInWindow(r) == {s \in OwnSubs(r) : s.id < nextSub - 1}

\* One of the request's subscriptions, whichever Zuora lists first.
GetSubscriptionWithCurrentRequestId(r) == OwnSubs(r)

\* Mutant: the rate plans are not compared.
AnyPlanMatches(s, p) == TRUE

RatePlansMatch(s, p) == s.product = p

LookUp(r) ==
  /\ Running(r, ZuoraSteps)
  /\ \/ /\ GetSubscriptionWithCurrentRequestId(r) = {}
        /\ phase' = [phase EXCEPT ![r] = "absent"]
     \/ \E s \in GetSubscriptionWithCurrentRequestId(r) :
          phase' = [phase EXCEPT ![r] = IF RatePlansMatch(s, product[r]) THEN "known" ELSE "absent"]
  /\ UNCHANGED <<input, status, step, product, retries, error, codes, parallel, history,
                 accounts, zuora, fulfilled, apologised>>

NewSub(call) == [id |-> nextSub, request |-> call.request, product |-> call.product,
                 code |-> call.code]
SubscribeCall(r) == [request |-> r, product |-> product[r], code |-> draft[r]]

CreateInZuora(call) ==
  /\ nextSub <= MaxSubs
  /\ subs' = subs \cup {NewSub(call)}
  /\ nextSub' = nextSub + 1

Subscribe(r) ==
  /\ step[r] \in ZuoraSteps /\ phase[r] = "absent"
  /\ CreateInZuora(SubscribeCall(r))
  /\ phase' = [phase EXCEPT ![r] = "known"]
  /\ UNCHANGED <<input, status, step, product, retries, error, codes, late, parallel, history,
                 accounts, fulfilled, apologised>>

(* The lambda answers: the state for SendThankYouEmail carries the gift    *)
(* code generated by this attempt, and all branches start.                 *)
SubscriptionKnown(r) ==
  /\ step[r] \in ZuoraSteps /\ phase[r] = "known"
  /\ Answer(r, "ParallelTasks")
  /\ IF Alive(r)
     THEN /\ giftCode' = [giftCode EXCEPT ![r] = draft[r]]
          /\ branch' = [branch EXCEPT ![r] = [b \in Branches |-> "waiting"]]
          /\ branchRetries' = [branchRetries EXCEPT ![r] = [b \in Branches |-> 0]]
     ELSE UNCHANGED <<giftCode, parallel>>
  /\ UNCHANGED <<input, status, product, error, draft, history, accounts, zuora, fulfilled,
                 apologised>>

\* Errors after which the call may still be on its way to Zuora.
GivesUp(e) == e.code \in {"SocketTimeoutException", "SocketException", "LambdaTimeout"}

(* Once the subscription exists only a lost answer can end the invocation: *)
(* nothing follows ensureSubscriptionCreated.                              *)
ZuoraErrorsAt(s, ph) ==
  CASE ph = "known" -> LostAnswers(s)
    [] ph = "absent" -> Raised(s) \cup Declines
    [] OTHER -> Raised(s)

ZuoraFails(r) ==
  /\ step[r] \in ZuoraSteps /\ phase[r] \in {"running", "absent", "known"}
  /\ \E e \in ZuoraErrorsAt(step[r], phase[r]) :
       /\ LambdaError(r, e)
       /\ \/ UNCHANGED late
          \/ /\ LateCommits /\ phase[r] = "absent" /\ GivesUp(e)
             /\ late' = late \cup {SubscribeCall(r)}
  /\ UNCHANGED <<input, product, codes, parallel, history, accounts, subs, nextSub, fulfilled,
                 apologised>>

\* Zuora executes a call nobody waits for any more.
LateCommit ==
  \E call \in late :
    /\ CreateInZuora(call)
    /\ late' = late \ {call}
    /\ UNCHANGED <<input, machine, codes, parallel, history, accounts, fulfilled, apologised>>

-----------------------------------------------------------------------------
(* ParallelTasks.  Its branches have Retry blocks but no Catch, and the    *)
(* Parallel state has neither: an error that is not retried fails the      *)
(* execution and the other branches are not continued.                     *)

CheckoutSuccess(r) ==
  /\ Alive(r) /\ step[r] = "ParallelTasks" /\ branch[r]["CheckoutSuccess"] = "waiting"
  /\ branch' = [branch EXCEPT ![r]["CheckoutSuccess"] = "done"]
  /\ history' = [history EXCEPT ![r] = Append(@, "CheckoutSuccess")]
  /\ UNCHANGED <<input, machine, codes, branchRetries, accounts, zuora, fulfilled, apologised>>

InvokeBranch(r, b) ==
  /\ Alive(r) /\ step[r] = "ParallelTasks"
  /\ b # "CheckoutSuccess" /\ branch[r][b] = "waiting"
  /\ branch' = [branch EXCEPT ![r][b] = "running"]
  /\ UNCHANGED <<input, machine, codes, branchRetries, history, accounts, zuora, fulfilled,
                 apologised>>

\* Mutant: existing accounts are taken to have their row already.
DeliverToNewAccounts(r, b) ==
  LET item == [request |-> r, product |-> product[r]] IN
  /\ thanked' = IF b = "SendThankYouEmail" THEN [thanked EXCEPT ![r][product[r]] = @ + 1]
                ELSE thanked
  /\ rows' = IF b = "UpdateSupporterProductData" /\ ~input[r].accountExists
             THEN rows \cup {item} ELSE rows
  /\ events' = IF b = "SendAcquisitionEvent" THEN events \cup {item} ELSE events

(* What the lambda of a branch does.  The purchaser of a gift gets no row. *)
Deliver(r, b) ==
  LET item == [request |-> r, product |-> product[r]] IN
  /\ thanked' = IF b = "SendThankYouEmail" THEN [thanked EXCEPT ![r][product[r]] = @ + 1]
                ELSE thanked
  /\ rows' = IF b = "UpdateSupporterProductData" /\ product[r] # "DigitalSubscriptionGift"
             THEN rows \cup {item} ELSE rows
  /\ events' = IF b = "SendAcquisitionEvent" THEN events \cup {item} ELSE events

BranchCompletes(r, b) ==
  /\ branch[r][b] = "running"
  /\ Deliver(r, b)
  /\ branch' = [branch EXCEPT ![r][b] = "done"]
  /\ UNCHANGED <<input, machine, codes, branchRetries, history, accounts, zuora, apologised>>

BranchError(r, b, e) ==
  LET class == ToRetryException(e)
      emailRetry == b = "SendThankYouEmail"
  IN IF Alive(r) /\ Retried(emailRetry, class, branchRetries[r][b]) THEN
       /\ branch' = [branch EXCEPT ![r][b] = "waiting"]
       /\ branchRetries' = IF Counted(emailRetry, class)
                           THEN [branchRetries EXCEPT ![r][b] = @ + 1] ELSE branchRetries
       /\ UNCHANGED status
     ELSE
       /\ branch' = [branch EXCEPT ![r][b] = "failed"]
       /\ status' = IF Alive(r) THEN [status EXCEPT ![r] = "FAILED"] ELSE status
       /\ UNCHANGED branchRetries

BranchFails(r, b) ==
  /\ branch[r][b] = "running"
  /\ \/ \E e \in Raised(b) : BranchError(r, b, e) /\ UNCHANGED fulfilled
     \/ \E e \in LostAnswers(b) : BranchError(r, b, e) /\ Deliver(r, b)
  /\ UNCHANGED <<input, step, product, phase, retries, error, codes, history, accounts, zuora,
                 apologised>>

\* Mutants: the flag of the acquisition data is not read; the product is swapped.
EveryWeeklyGoesRound(r) == product[r] = "GuardianWeekly"
AfterTheSupporterPlus(r) ==
  input[r].threeTier /\ product[r] = "SupporterPlus" /\ input[r].knownPromo

(* The choices after the Parallel state: a Guardian Weekly bought as part  *)
(* of the third tier goes round again for its Supporter Plus.              *)
SecondSubscriptionDue(r) ==
  input[r].threeTier /\ product[r] = "GuardianWeekly" /\ input[r].knownPromo

Join(r) ==
  /\ Alive(r) /\ step[r] = "ParallelTasks"
  /\ \A b \in Branches : branch[r][b] = "done"
  /\ IF SecondSubscriptionDue(r)
     THEN /\ product' = [product EXCEPT ![r] = "SupporterPlus"]
          /\ Enter(r, "ThreeTierPreparePaymentMethodForReuse")
          /\ UNCHANGED status
     ELSE /\ status' = [status EXCEPT ![r] = "SUCCEEDED"]
          /\ UNCHANGED <<step, product, phase, retries>>
  /\ UNCHANGED <<input, error, codes, parallel, history, accounts, zuora, fulfilled, apologised>>

-----------------------------------------------------------------------------
\* Mutant: the names of the last states for the statuses.
OutcomeByLastState(r) ==
  IF input[r].testUser \/ error[r] \in PaymentFailures THEN "CheckoutFailure" ELSE "FailState"

(* FailureHandler mails the customer first; SucceedOrFailChoice follows.   *)
ExecutionOutcome(r) ==
  IF input[r].testUser \/ error[r] \in PaymentFailures THEN "SUCCEEDED" ELSE "FAILED"

FailureHandler(r) ==
  /\ Running(r, {"FailureHandler"})
  /\ apologised' = [apologised EXCEPT ![r] = @ + 1]
  /\ Unanswered(r)
  /\ IF Alive(r)
     THEN /\ status' = [status EXCEPT ![r] = ExecutionOutcome(r)]
          /\ history' = [history EXCEPT ![r] = Append(@, "SucceedOrFailChoice")]
     ELSE UNCHANGED <<status, history>>
  /\ UNCHANGED <<input, product, error, codes, parallel, accounts, zuora, fulfilled>>

FailureHandlerFails(r) ==
  /\ Running(r, {"FailureHandler"})
  /\ \/ \E e \in Raised("FailureHandler") : LambdaError(r, e) /\ UNCHANGED apologised
     \/ /\ \E e \in LostAnswers("FailureHandler") : LambdaError(r, e)
        /\ apologised' = [apologised EXCEPT ![r] = @ + 1]
  /\ UNCHANGED <<input, product, codes, parallel, history, accounts, zuora, fulfilled>>

-----------------------------------------------------------------------------
SetupLambda(r) == CreatePaymentMethod(r) \/ CreateSalesforceContact(r)
                  \/ PreparePaymentMethodForReuse(r) \/ RefusePaymentMethod(r) \/ SetupFails(r)
ZuoraLambda(r) == LookUp(r) \/ Subscribe(r) \/ SubscriptionKnown(r) \/ ZuoraFails(r)
BranchLambda(r, b) == BranchCompletes(r, b) \/ BranchFails(r, b)
FailureLambda(r) == FailureHandler(r) \/ FailureHandlerFails(r)

Next ==
  \/ \E r \in Requests :
       \/ Invoke(r) \/ SetupLambda(r) \/ ZuoraLambda(r) \/ FailureLambda(r)
       \/ CheckoutSuccess(r) \/ Join(r) \/ ExecutionTimesOut(r)
       \/ \E b \in Branches : InvokeBranch(r, b) \/ BranchLambda(r, b)
  \/ LateCommit

Spec == Init /\ [][Next]_vars

-----------------------------------------------------------------------------
(* Fairness.  Step Functions invokes a lambda whose turn has come and      *)
(* takes the next state once it has an answer; an invocation ends, at the  *)
(* latest when its time is up.  Services recover: a call repeated for ever *)
(* gets its answer at some point.  A timeout of the execution, an error    *)
(* and a late commit may happen and need not.                              *)
StateMachineFairness(r) ==
  /\ WF_vars(Invoke(r)) /\ WF_vars(CheckoutSuccess(r)) /\ WF_vars(Join(r))
  /\ WF_vars(SetupLambda(r)) /\ WF_vars(ZuoraLambda(r)) /\ WF_vars(FailureLambda(r))
  /\ \A b \in Branches : WF_vars(InvokeBranch(r, b)) /\ WF_vars(BranchLambda(r, b))

ServicesRecover(r) ==
  /\ SF_vars(CreatePaymentMethod(r)) /\ SF_vars(CreateSalesforceContact(r))
  /\ SF_vars(PreparePaymentMethodForReuse(r)) /\ SF_vars(RefusePaymentMethod(r))
  /\ SF_vars(LookUp(r)) /\ SF_vars(Subscribe(r)) /\ SF_vars(SubscriptionKnown(r))
  /\ \A b \in Branches : SF_vars(BranchCompletes(r, b))

FairSpec == Spec /\ \A r \in Requests : StateMachineFairness(r) /\ ServicesRecover(r)

-----------------------------------------------------------------------------
(* Properties.                                                             *)

Items == [request : Requests, product : Products]
Calls == [request : Requests, product : Products, code : Codes \cup {NoCode}]
Subscriptions == [id : Nat, request : Requests, product : Products, code : Codes \cup {NoCode}]

\* Every variable keeps its type.
TypeOK ==
  /\ input \in [Requests -> InputType]
  /\ status \in [Requests -> Outcomes]
  /\ step \in [Requests -> Steps]
  /\ product \in [Requests -> Products]
  /\ phase \in [Requests -> Phases]
  /\ retries \in [Requests -> Nat]
  /\ error \in [Requests -> Exceptions \cup {NoError}]
  /\ draft \in [Requests -> Codes \cup {NoCode}]
  /\ giftCode \in [Requests -> Codes \cup {NoCode}]
  /\ branch \in [Requests -> [Branches -> BranchPhases]]
  /\ branchRetries \in [Requests -> [Branches -> Nat]]
  /\ history \in [Requests -> Seq({"CheckoutSuccess", "SucceedOrFailChoice"})]
  /\ paymentMethods \subseteq Requests /\ contacts \subseteq Requests
  /\ subs \subseteq Subscriptions /\ nextSub \in Nat /\ late \subseteq Calls
  /\ thanked \in [Requests -> [Products -> Nat]]
  /\ apologised \in [Requests -> Nat]
  /\ rows \subseteq Items /\ events \subseteq Items

Fulfilled(r, p) ==
  \/ thanked[r][p] > 0
  \/ [request |-> r, product |-> p] \in rows
  \/ [request |-> r, product |-> p] \in events

(* Nothing is sent or recorded for a product its request has no            *)
(* subscription for: the answer of CreateZuoraSubscription, found by the   *)
(* look-up or just created, is always a subscription of this request and   *)
(* for the product of this pass of the state machine.                      *)
FulfilmentHasSubscription ==
  \A r \in Requests, p \in Products : Fulfilled(r, p) => Purchased(r, p)

(* ensureSubscriptionCreated: however often the lambda is retried, and     *)
(* whatever answers are lost, a request buys a product at most once.       *)
OneSubscriptionPerProduct ==
  \A s, t \in subs : (s.request = t.request /\ s.product = t.product) => s = t

(* What the status page says is true: a success stands for a subscription, *)
(* a failure for a customer who has been told.                             *)
StatusIsTrue ==
  \A r \in Requests :
    /\ CheckoutStatus(r) = "success" => OwnSubs(r) # {}
    /\ CheckoutStatus(r) = "failure" => apologised[r] > 0

(* A customer whose payment was declined, in CreatePaymentMethod or by the *)
(* subscribe call, holds no subscription: the error that FailureHandler    *)
(* explains to them is of an attempt that had found none.                  *)
DeclinedBoughtNothing ==
  \A r \in Requests :
    apologised[r] > 0 /\ error[r] \in PaymentFailures \cup Declines => OwnSubs(r) = {}

(* Nobody gets both the thank-you and the failure e-mail of a checkout.    *)
OneVerdictByMail ==
  \A r \in Requests : apologised[r] > 0 => \A p \in Products : thanked[r][p] = 0

(* What a purchase that needs no explanation leaves behind: an execution   *)
(* that succeeds without a failure e-mail has thanked for, recorded and    *)
(* published every product it was to create.                               *)
Due(r) == {input[r].product} \cup
          (IF input[r].threeTier /\ input[r].product = "GuardianWeekly" /\ input[r].knownPromo
           THEN {"SupporterPlus"} ELSE {})

SucceededMeansFulfilled ==
  \A r \in Requests :
    status[r] = "SUCCEEDED" /\ apologised[r] = 0 =>
      \A p \in Due(r) :
        /\ thanked[r][p] > 0
        /\ [request |-> r, product |-> p] \in events
        /\ p # "DigitalSubscriptionGift" => [request |-> r, product |-> p] \in rows

(* emailRetry: a customer gets an e-mail at most once per allowed attempt, *)
(* even if the answers of all attempts are lost.                           *)
MailsBounded ==
  \A r \in Requests :
    /\ apologised[r] <= EmailAttempts + 1
    /\ \A p \in Products : thanked[r][p] <= EmailAttempts + 1

(* The page a customer polls never takes back a success (unless the        *)
(* request is for two subscriptions).                                      *)
SuccessIsFinal ==
  [][\A r \in Requests :
       CheckoutStatus(r) = "success" /\ ~input[r].threeTier => CheckoutStatus(r)' = "success"]_vars

(* Every execution ends by itself, without waiting for the day's timeout.  *)
EveryExecutionEnds == \A r \in Requests : <>(status[r] # "RUNNING")

(* Somebody who has a subscription is told so, or the execution is marked  *)
(* as failed or timed out, for the developers' alarm.                      *)
PurchaseIsAnswered ==
  \A r \in Requests :
    OwnSubs(r) # {} ~> (CheckoutStatus(r) # "pending" \/ status[r] \in {"FAILED", "TIMED_OUT"})

(* The refinement of CheckoutPromise, for requests for one subscription    *)
(* and a Zuora that does not execute a call after its caller gave up.      *)
Thanked == {i \in Items : thanked[i.request][i.product] > 0}
Told == {r \in Requests : apologised[r] > 0}
PaymentDeclined == {r \in Told : error[r] \in PaymentFailures \cup Declines}

Promise == INSTANCE CheckoutPromise WITH
  Ids <- 1..MaxSubs,
  purchases <- {[id |-> s.id, request |-> s.request, product |-> s.product] : s \in subs},
  welcomed <- Thanked,
  told <- Told,
  declined <- PaymentDeclined

(* The executions keep the promise: every step is a step of it or changes  *)
(* nothing the customer can see.                                           *)
ImplementsPromise == Promise!Spec

(* The refinement of CheckoutJob: what the polls see.  The status of a     *)
(* third tier may change again; it is left out.                            *)
Polled == INSTANCE CheckoutJob WITH
  Jobs <- Requests,
  status <- [r \in Requests |-> IF input[r].threeTier THEN "pending" ELSE CheckoutStatus(r)]

(* A job whose status was final keeps it: a browser that has stopped       *)
(* polling has told its customer the truth.                                *)
ImplementsJob == Polled!Spec

=============================================================================
