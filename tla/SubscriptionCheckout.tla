------------------------ MODULE SubscriptionCheckout ------------------------
(***************************************************************************)
(* The paper and Guardian Weekly checkouts: the Redux form with its slices, *)
(* the delivery agents looked up for a postcode, StripeForm, the direct     *)
(* debit form and the PayPal button, and what the server checks again when  *)
(* the order arrives.  Look-ups, set-ups, checks and agreements answer in   *)
(* any order while the customer goes on.                                    *)
(***************************************************************************)
EXTENDS Integers, Sequences, FiniteSets

CONSTANTS
  Offers,         \* what is bought: fulfilment option, Saturday or Sunday only, methods
  Postcodes,      \* valid postcodes
  Inside,         \* those within the M25
  Agents,         \* delivery agents
  Served,         \* [postcode -> agents that deliver there], PaperRound
  Bounds,         \* [offer -> postcodes typed, presses of a payment button that are not
                  \* turned down at once, recaptchas solved]
  MaxPolls        \* MAX_POLLS

NoAgent == "none"
Malformed == "malformed"   \* any text that is not a postcode, the empty one included
PaymentMethods == {"DirectDebit", "Stripe", "PayPal"}

ASSUME BoundsAssumption ==
  /\ Bounds \in [Offers -> [entries : Nat, presses : Nat, tokens : Nat]]
  /\ MaxPolls \in Nat \ {0}
ASSUME OffersAssumption ==
  Offers \subseteq [fulfilment : {"HomeDelivery", "Collection"}, weekendOnly : BOOLEAN,
                    methods : SUBSET PaymentMethods]
ASSUME DeliveryAssumption ==
  /\ NoAgent \notin Agents /\ Malformed \notin Postcodes
  /\ Inside \subseteq Postcodes
  /\ Served \in [Postcodes -> SUBSET Agents]

VARIABLES
  offer,          \* the product in the store
  stage,          \* page.checkout.stage
  form,           \* formErrors, postCode errors, submissionError, formSubmitted
  valid,          \* the personal details pass their rules
  entered,        \* the delivery postcodes typed, the last one is in the form
  lookups,        \* which of them are being looked up
  deliveryAgent,  \* response and chosenAgent
  method,         \* paymentMethod.name
  token,          \* recaptcha.token, 0 when it is not completed
  solved,         \* recaptchas solved
  secret,         \* setupIntentClientSecret, named by its recaptcha
  setups,         \* recaptchas whose setup intent is being fetched
  card,           \* the local state of StripeForm
  account,        \* directDebit.phase, and whether a check is under way
  payPalEnabled,  \* the PayPal button was enabled last
  attempts,       \* cards being confirmed, PayPal windows, requests
  presses

vars == <<offer, stage, form, valid, entered, lookups, deliveryAgent, method, token, solved,
          secret, setups, card, account, payPalEnabled, attempts, presses>>

-----------------------------------------------------------------------------
(* Validation *)

postCode == IF entered = <<>> THEN Malformed ELSE entered[Len(entered)]
isHomeDelivery == offer.fulfilment = "HomeDelivery"

\* Mutant: an agent need not be chosen.
AgentIsOptional(v, agent) == IF v THEN {} ELSE {"details"}

\* applyDeliveryRules: v, are the personal details valid?  No rule looks at the payment
\* method: it is "None", and never null, before one is selected.
deliveryErrors(v, agent) ==
  (IF v THEN {} ELSE {"details"})
    \cup (IF isHomeDelivery /\ agent.response # {} /\ agent.chosenAgent = NoAgent
          THEN {"deliveryProvider"} ELSE {})

\* applyDeliveryAddressRules, of the postcode.
postCodeError(p, agent) ==
  /\ isHomeDelivery
  /\ p \notin Inside
  /\ p = Malformed \/ agent.response = {} \/ offer.weekendOnly

isValid(v, p, agent) == deliveryErrors(v, agent) = {} /\ ~postCodeError(p, agent)
formIsValid == isValid(valid, postCode, deliveryAgent)

\* validateWithDeliveryForm writes the errors of a list only when it has some: errors that
\* were corrected elsewhere stay.
dispatchAllErrors ==
  [form EXCEPT !.formErrors = IF deliveryErrors(valid, deliveryAgent) = {} THEN @
                              ELSE deliveryErrors(valid, deliveryAgent),
               !.postCodeError = @ \/ postCodeError(postCode, deliveryAgent)]

removeError(field) == [form EXCEPT !.formErrors = @ \ {field}]

\* enableOrDisableForm, after an edit.
enableOrDisableForm(v, p, agent) ==
  payPalEnabled' = (method = "PayPal" /\ isValid(v, p, agent))

-----------------------------------------------------------------------------
(* Requests *)

Attempt(m, at, s) ==
  [method |-> m, stage |-> at, secret |-> s, mounted |-> TRUE, postCode |-> Malformed,
   agent |-> NoAgent, token |-> 0, late |-> FALSE, job |-> "none", polls |-> 0]

\* onPaymentAuthorised: the order is what the form says now; it is late when another
\* request is already being waited for.
Posted(at, m) ==
  [at EXCEPT !.method = m, !.stage = "posting", !.postCode = postCode,
             !.agent = deliveryAgent.chosenAgent, !.token = token,
             !.late = form.formSubmitted]

\* Mutant: no progress message covers the page.
NothingCovers == form

formSubmitted == [form EXCEPT !.formSubmitted = TRUE]
submissionError == [form EXCEPT !.submissionError = TRUE, !.formSubmitted = FALSE]

\* submitWithDeliveryForm with the attempt at; PayPal and "None" post nothing.
Submittable == formIsValid /\ method \in {"Stripe", "DirectDebit"}

-----------------------------------------------------------------------------
(* The customer *)

UnusedCard ==
  [complete |-> FALSE, cardErrors |-> FALSE, recaptchaError |-> FALSE,
   paymentWaiting |-> FALSE, disabled |-> FALSE]

Init ==
  /\ offer \in Offers
  /\ stage = "checkout"
  /\ form = [formErrors |-> {}, postCodeError |-> FALSE, submissionError |-> FALSE,
             formSubmitted |-> FALSE]
  /\ valid = FALSE
  /\ entered = <<>> /\ lookups = {}
  /\ deliveryAgent = [response |-> {}, chosenAgent |-> NoAgent]
  /\ method = "None"
  /\ token = 0 /\ solved = 0 /\ secret = 0 /\ setups = {}
  /\ card = UnusedCard
  /\ account = [phase |-> "entry", checking |-> FALSE]
  /\ payPalEnabled = FALSE
  /\ attempts = <<>>
  /\ presses = 0

\* The progress message covers the page, PayPal's window blocks it.
Free ==
  /\ stage = "checkout"
  /\ ~form.formSubmitted
  /\ \A a \in DOMAIN attempts : attempts[a].stage # "window"

\* An error goes when its own field is edited: confirmEmail's stays if email is corrected.
EditDetails ==
  /\ Free
  /\ valid' = ~valid
  /\ form' \in {form, removeError("details")}
  /\ enableOrDisableForm(valid', postCode, deliveryAgent)
  /\ UNCHANGED <<offer, stage, entered, lookups, deliveryAgent, method, token, solved,
                 secret, setups, card, account, attempts, presses>>

\* setPaperDeliveryPostcode: outside the M25 the agents are looked up and those of the last
\* postcode are kept until the answer comes.
EnterPostcode(p) ==
  /\ Free
  /\ isHomeDelivery /\ Len(entered) < Bounds[offer].entries
  /\ entered' = Append(entered, p)
  /\ IF p \in Postcodes \ Inside
     THEN /\ lookups' = lookups \cup {Len(entered')}
          /\ form' = [form EXCEPT !.postCodeError = FALSE]
          /\ UNCHANGED deliveryAgent
     ELSE /\ deliveryAgent' = [response |-> {}, chosenAgent |-> NoAgent]
          /\ form' = [removeError("deliveryProvider") EXCEPT !.postCodeError = FALSE]
          /\ UNCHANGED lookups
  /\ enableOrDisableForm(valid, p, deliveryAgent')
  /\ UNCHANGED <<offer, stage, valid, method, token, solved, secret, setups, card, account,
                 attempts, presses>>

\* The radios are there for two agents or more, and hidden by an error of the postcode.
ChooseAgent(d) ==
  /\ Free
  /\ isHomeDelivery /\ ~form.postCodeError
  /\ d \in deliveryAgent.response \ {deliveryAgent.chosenAgent}
  /\ deliveryAgent.response # {d}
  /\ deliveryAgent' = [deliveryAgent EXCEPT !.chosenAgent = d]
  /\ form' = removeError("deliveryProvider")
  /\ enableOrDisableForm(valid, postCode, deliveryAgent')
  /\ UNCHANGED <<offer, stage, valid, entered, lookups, method, token, solved, secret, setups,
                 card, account, attempts, presses>>

\* setPaymentMethod: the recaptcha is reset, the form of another method is unmounted, and a
\* PayPal button asks whether it can open.
SelectMethod(m) ==
  /\ Free
  /\ m \in offer.methods \ {method}
  /\ method' = m
  /\ token' = 0
  /\ card' = UnusedCard
  /\ attempts' = [a \in DOMAIN attempts |-> [attempts[a] EXCEPT !.mounted = FALSE]]
  /\ payPalEnabled' = (m = "PayPal" /\ formIsValid)
  /\ UNCHANGED <<offer, stage, form, valid, entered, lookups, deliveryAgent, solved, secret,
                 setups, account, presses>>

\* handleChange; the errors of the card stay until the next press.
EditCard ==
  /\ Free /\ method = "Stripe"
  /\ card' = [card EXCEPT !.complete = ~@]
  /\ UNCHANGED <<offer, stage, form, valid, entered, lookups, deliveryAgent, method, token,
                 solved, secret, setups, account, payPalEnabled, attempts, presses>>

\* The recaptcha of StripeForm, which fetches a setup intent, or of the playback.
SolveRecaptcha ==
  /\ Free /\ token = 0 /\ solved < Bounds[offer].tokens
  /\ solved' = solved + 1
  /\ token' = solved'
  /\ \/ /\ method = "Stripe"
        /\ card' = [card EXCEPT !.recaptchaError = FALSE]
        /\ setups' = setups \cup {solved'}
     \/ /\ method = "DirectDebit" /\ account.phase = "confirmation"
        /\ UNCHANGED <<card, setups>>
  /\ UNCHANGED <<offer, stage, form, valid, entered, lookups, deliveryAgent, method, secret,
                 account, payPalEnabled, attempts, presses>>

ExpireRecaptcha ==
  /\ stage = "checkout" /\ token # 0
  /\ token' = 0
  /\ UNCHANGED <<offer, stage, form, valid, entered, lookups, deliveryAgent, method, solved,
                 secret, setups, card, account, payPalEnabled, attempts, presses>>

\* requestSCAPaymentMethod and the effect that follows the render: without an error the
\* card is confirmed, or waits for the client secret.
PayNow ==
  /\ Free /\ method = "Stripe" /\ ~card.disabled
  /\ form' = dispatchAllErrors
  /\ LET checked == [card EXCEPT !.cardErrors = ~card.complete,
                                 !.recaptchaError = @ \/ token = 0]
     IN \/ /\ \/ form'.formErrors # {} \/ form'.postCodeError
              \/ checked.cardErrors \/ checked.recaptchaError
           /\ card' = checked
           /\ UNCHANGED <<attempts, presses>>
        \/ /\ form'.formErrors = {} /\ ~form'.postCodeError
           /\ ~checked.cardErrors /\ ~checked.recaptchaError
           /\ presses < Bounds[offer].presses
           /\ presses' = presses + 1
           /\ \/ /\ secret # 0
                 /\ card' = [checked EXCEPT !.disabled = TRUE]
                 /\ attempts' = Append(attempts, Attempt("Stripe", "confirming", secret))
              \/ /\ secret = 0
                 /\ card' = [checked EXCEPT !.disabled = TRUE, !.paymentWaiting = TRUE]
                 /\ UNCHANGED attempts
  /\ UNCHANGED <<offer, stage, valid, entered, lookups, deliveryAgent, method, token, solved,
                 secret, setups, account, payPalEnabled>>

\* handleErrorsAndCheckAccount, with fields that are filled in; any number of checks may be
\* under way.
CheckAccount ==
  /\ Free /\ method = "DirectDebit" /\ account.phase = "entry"
  /\ account' = [account EXCEPT !.checking = TRUE]
  /\ UNCHANGED <<offer, stage, form, valid, entered, lookups, deliveryAgent, method, token,
                 solved, secret, setups, card, payPalEnabled, attempts, presses>>

EditAccount ==
  /\ Free /\ method = "DirectDebit" /\ account.phase = "confirmation"
  /\ account' = [account EXCEPT !.phase = "entry"]
  /\ UNCHANGED <<offer, stage, form, valid, entered, lookups, deliveryAgent, method, token,
                 solved, secret, setups, card, payPalEnabled, attempts, presses>>

\* onSubmit of the direct debit form.
Subscribe ==
  /\ Free /\ method = "DirectDebit" /\ account.phase = "confirmation" /\ token # 0
  /\ \/ /\ ~formIsValid
        /\ form' = dispatchAllErrors
        /\ UNCHANGED <<attempts, presses>>
     \/ /\ formIsValid /\ presses < Bounds[offer].presses
        /\ presses' = presses + 1
        /\ attempts' = Append(attempts, Posted(Attempt("DirectDebit", "posting", 0),
                                               "DirectDebit"))
        /\ form' = formSubmitted
  /\ UNCHANGED <<offer, stage, valid, entered, lookups, deliveryAgent, method, token, solved,
                 secret, setups, card, account, payPalEnabled>>

\* An enabled PayPal button opens its window whatever onClick finds.
ClickPayPal ==
  /\ Free /\ method = "PayPal" /\ payPalEnabled
  /\ presses < Bounds[offer].presses
  /\ presses' = presses + 1
  /\ form' = dispatchAllErrors
  /\ attempts' = Append(attempts, Attempt("PayPal", "window", 0))
  /\ UNCHANGED <<offer, stage, valid, entered, lookups, deliveryAgent, method, token, solved,
                 secret, setups, card, account, payPalEnabled>>

-----------------------------------------------------------------------------
(* Answers *)

\* getDeliveryAgentsThunk: an answer may be an error without agents, and the one agent of
\* an answer is chosen.  Neither the errors nor the PayPal button are looked at again.
AgentsFound(i) ==
  /\ i \in lookups
  /\ lookups' = lookups \ {i}
  /\ \/ UNCHANGED deliveryAgent
     \/ \E found \in {Served[entered[i]], {}} :
          deliveryAgent' =
            [response |-> found,
             chosenAgent |-> IF \E d \in Agents : found = {d}
                             THEN CHOOSE d \in Agents : found = {d}
                             ELSE deliveryAgent.chosenAgent]
  /\ UNCHANGED <<offer, stage, form, valid, entered, method, token, solved, secret, setups,
                 card, account, payPalEnabled, attempts, presses>>

Mounted == stage = "checkout" /\ method = "Stripe"

\* Mutant: a client secret confirms the card whether or not a payment waits for it.
EverySecretConfirms(t) ==
  /\ t \in setups
  /\ setups' = setups \ {t}
  /\ secret' = t
  /\ attempts' = IF Mounted THEN Append(attempts, Attempt("Stripe", "confirming", t))
                 ELSE attempts
  /\ UNCHANGED <<offer, stage, form, valid, entered, lookups, deliveryAgent, method, token,
                 solved, card, account, payPalEnabled, presses>>

\* getStripeSetupIntent; a rejection leaves the secret of before.  The effect of StripeForm
\* confirms the card for a payment that waits, and goes on waiting.
SetupIntent(t) ==
  /\ t \in setups
  /\ setups' = setups \ {t}
  /\ \/ UNCHANGED <<secret, attempts>>
     \/ /\ secret' = t
        /\ attempts' = IF Mounted /\ card.paymentWaiting
                       THEN Append(attempts, Attempt("Stripe", "confirming", t))
                       ELSE attempts
  /\ UNCHANGED <<offer, stage, form, valid, entered, lookups, deliveryAgent, method, token,
                 solved, card, account, payPalEnabled, presses>>

\* payWithDirectDebit's check: a good account may be confirmed.
AccountChecked ==
  /\ account.checking
  /\ account' \in [phase : {account.phase, "confirmation"}, checking : BOOLEAN]
  /\ UNCHANGED <<offer, stage, form, valid, entered, lookups, deliveryAgent, method, token,
                 solved, secret, setups, card, payPalEnabled, attempts, presses>>

To(a, s) == attempts' = [attempts EXCEPT ![a].stage = s]

\* A setup intent is confirmed once.
Spent(a) ==
  \E b \in DOMAIN attempts \ {a} :
    /\ attempts[b].secret = attempts[a].secret
    /\ attempts[b].stage \notin {"confirming", "declined"}

\* handleCardSetupAndPay: the form is validated again and what is submitted is the method
\* selected by now.
Confirmed(a) ==
  /\ a \in DOMAIN attempts /\ attempts[a].stage = "confirming"
  /\ \/ /\ To(a, "declined")
        /\ card' = IF attempts[a].mounted
                   THEN [card EXCEPT !.paymentWaiting = FALSE, !.cardErrors = TRUE,
                                     !.disabled = FALSE]
                   ELSE card
        /\ UNCHANGED form
     \/ /\ ~Spent(a)
        /\ card' = [card EXCEPT !.disabled = @ /\ ~attempts[a].mounted]
        /\ \/ /\ Submittable
              /\ attempts' = [attempts EXCEPT ![a] = Posted(@, method)]
              /\ form' = formSubmitted
           \/ /\ ~Submittable
              /\ To(a, "unsubmitted")
              /\ form' = dispatchAllErrors
  /\ UNCHANGED <<offer, stage, valid, entered, lookups, deliveryAgent, method, token, solved,
                 secret, setups, account, payPalEnabled, presses>>

Answered == <<offer, valid, entered, lookups, deliveryAgent, method, token, solved, secret,
              setups, card, account, payPalEnabled, presses>>

\* The customer approves the agreement or closes PayPal's window.
WindowCloses(a) ==
  /\ a \in DOMAIN attempts /\ attempts[a].stage = "window"
  /\ To(a, "agreeing") \/ To(a, "abandoned")
  /\ UNCHANGED <<stage, form>> /\ UNCHANGED Answered

\* createAgreement, then onPaymentAuthorised without another look at the form.
Agreed(a) ==
  /\ a \in DOMAIN attempts /\ attempts[a].stage = "agreeing"
  /\ \/ /\ attempts' = [attempts EXCEPT ![a] = Posted(@, "PayPal")]
        /\ form' = formSubmitted
     \/ To(a, "abandoned") /\ UNCHANGED form
  /\ UNCHANGED stage /\ UNCHANGED Answered

-----------------------------------------------------------------------------
(* The order *)

Delivers(at) ==
  IF at.agent = NoAgent THEN at.postCode \in Inside
  ELSE at.postCode \in Postcodes /\ at.agent \in Served[at.postCode]

\* CreateSubscriptionController and CheckoutValidationRules: the recaptcha of a direct
\* debit, and the delivery; the days of the subscription are not looked at.
ServerAccepts(at) ==
  /\ at.method = "DirectDebit" => at.token # 0
  /\ isHomeDelivery => Delivers(at)

\* Mutant: an error without a text is not reported.
OnlyTextIsReported(a) ==
  /\ a \in DOMAIN attempts /\ attempts[a].stage = "posting"
  /\ \/ /\ ServerAccepts(attempts[a])
        /\ attempts' = [attempts EXCEPT ![a].stage = "polling", ![a].job = "running"]
     \/ To(a, "refused")
  /\ UNCHANGED <<stage, form>> /\ UNCHANGED Answered

\* postRegularPaymentRequest: accepted, refused, or lost before or after it was accepted.
Created(a) ==
  /\ a \in DOMAIN attempts /\ attempts[a].stage = "posting"
  /\ \/ /\ ServerAccepts(attempts[a])
        /\ attempts' = [attempts EXCEPT ![a].stage = "polling", ![a].job = "running"]
        /\ UNCHANGED form
     \/ To(a, "refused") /\ form' = submissionError
     \/ /\ \/ To(a, "lost")
           \/ /\ ServerAccepts(attempts[a])
              /\ attempts' = [attempts EXCEPT ![a].stage = "lost", ![a].job = "running"]
        /\ form' = submissionError
  /\ UNCHANGED stage /\ UNCHANGED Answered

\* support-workers, for as long as they like.
JobEnds(a) ==
  /\ a \in DOMAIN attempts /\ attempts[a].job = "running"
  /\ \E job \in {"succeeded", "failed"} : attempts' = [attempts EXCEPT ![a].job = job]
  /\ UNCHANGED <<stage, form>> /\ UNCHANGED Answered

\* Mutants of Poll: a status that never comes is a success; one more poll is counted;
\* whatever is final is a success.
ExhaustedIsDone(a) ==
  /\ a \in DOMAIN attempts /\ attempts[a].stage = "polling"
  /\ attempts' = [attempts EXCEPT ![a].stage = "exhausted", ![a].polls = MaxPolls]
  /\ stage' = "thankyou"
  /\ UNCHANGED form /\ UNCHANGED Answered
PollsOnceMore(a) ==
  /\ a \in DOMAIN attempts /\ attempts[a].stage = "polling"
  /\ attempts[a].polls <= MaxPolls
  /\ attempts' = [attempts EXCEPT ![a].polls = @ + 1]
  /\ UNCHANGED <<stage, form>> /\ UNCHANGED Answered
FinalIsDone(a) ==
  /\ a \in DOMAIN attempts /\ attempts[a].stage = "polling"
  /\ attempts[a].job \in {"succeeded", "failed"}
  /\ To(a, "succeeded") /\ stage' = "thankyou"
  /\ UNCHANGED form /\ UNCHANGED Answered

\* One poll of pollUntilPromise, and handleSubscribeResult after the last one.  A lost
\* answer counts as a pending one does.
Poll(a) ==
  /\ a \in DOMAIN attempts /\ attempts[a].stage = "polling"
  /\ \/ /\ attempts[a].job = "succeeded"
        /\ To(a, "succeeded") /\ stage' = "thankyou" /\ UNCHANGED form
     \/ /\ attempts[a].job = "failed"
        /\ To(a, "failed") /\ form' = submissionError /\ UNCHANGED stage
     \/ /\ attempts[a].polls + 1 < MaxPolls
        /\ attempts' = [attempts EXCEPT ![a].polls = @ + 1]
        /\ UNCHANGED <<stage, form>>
     \/ /\ attempts[a].polls + 1 = MaxPolls
        /\ attempts' = [attempts EXCEPT ![a].polls = @ + 1, ![a].stage = "exhausted"]
        /\ stage' = "thankyou-pending"
        /\ UNCHANGED form
  /\ UNCHANGED Answered

-----------------------------------------------------------------------------
Customer ==
  \/ EditDetails
  \/ \E p \in Postcodes \cup {Malformed} : EnterPostcode(p)
  \/ \E d \in Agents : ChooseAgent(d)
  \/ \E m \in PaymentMethods : SelectMethod(m)
  \/ EditCard
  \/ SolveRecaptcha
  \/ ExpireRecaptcha
  \/ PayNow
  \/ CheckAccount
  \/ EditAccount
  \/ Subscribe
  \/ ClickPayPal

Answer(a) ==
  \/ Confirmed(a)
  \/ WindowCloses(a)
  \/ Agreed(a)
  \/ Created(a)
  \/ JobEnds(a)
  \/ Poll(a)

Next ==
  \/ Customer
  \/ \E i \in lookups : AgentsFound(i)
  \/ \E t \in setups : SetupIntent(t)
  \/ AccountChecked
  \/ \E a \in DOMAIN attempts : Answer(a)

Spec == Init /\ [][Next]_vars

\* A fetch resolves or rejects, and a poll is one.
FairSpec == Spec /\ WF_vars(\E a \in DOMAIN attempts : Created(a) \/ Poll(a))

-----------------------------------------------------------------------------
AttemptStages ==
  {"confirming", "declined", "unsubmitted", "window", "agreeing", "abandoned",
   "posting", "refused", "lost", "polling", "succeeded", "failed", "exhausted"}
Ordered == {"posting", "refused", "lost", "polling", "succeeded", "failed", "exhausted"}

AttemptRecord ==
  [method : PaymentMethods, stage : AttemptStages, secret : Nat,
   mounted : BOOLEAN, postCode : Postcodes \cup {Malformed},
   agent : Agents \cup {NoAgent}, token : Nat, late : BOOLEAN,
   job : {"none", "running", "succeeded", "failed"}, polls : 0..MaxPolls]

\* Every slice, the local state of StripeForm and every request keep their shape.
TypeOK ==
  /\ offer \in Offers
  /\ stage \in {"checkout", "thankyou", "thankyou-pending"}
  /\ form \in [formErrors : SUBSET {"details", "deliveryProvider"}, postCodeError : BOOLEAN,
               submissionError : BOOLEAN, formSubmitted : BOOLEAN]
  /\ valid \in BOOLEAN
  /\ entered \in Seq(Postcodes \cup {Malformed})
  /\ lookups \subseteq {i \in DOMAIN entered : entered[i] \in Postcodes}
  /\ deliveryAgent \in [response : SUBSET Agents, chosenAgent : Agents \cup {NoAgent}]
  /\ method \in PaymentMethods \cup {"None"}
  /\ solved \in 0..Bounds[offer].tokens
  /\ token \in 0..solved /\ secret \in 0..solved /\ setups \subseteq 1..solved
  /\ card \in [complete : BOOLEAN, cardErrors : BOOLEAN, recaptchaError : BOOLEAN,
               paymentWaiting : BOOLEAN, disabled : BOOLEAN]
  /\ account \in [phase : {"entry", "confirmation"}, checking : BOOLEAN]
  /\ payPalEnabled \in BOOLEAN
  /\ attempts \in Seq(AttemptRecord)
  /\ presses \in 0..Bounds[offer].presses

\* The thank-you page means a subscription that exists, its pending form an order whose
\* polls ran out, and the error of the submission an order that failed or was lost: also
\* when several orders of one visit answer in any order (handleSubscribeResult).
PageIsTrue ==
  /\ stage = "thankyou" =>
       \E a \in DOMAIN attempts :
         attempts[a].stage = "succeeded" /\ attempts[a].job = "succeeded"
  /\ stage = "thankyou-pending" =>
       \E a \in DOMAIN attempts :
         attempts[a].stage = "exhausted" /\ attempts[a].polls = MaxPolls
         /\ attempts[a].job # "none"
  /\ form.submissionError =>
       \E a \in DOMAIN attempts : attempts[a].stage \in {"failed", "refused", "lost"}

\* The look-up, the agent chosen and the rules of the form agree as long as the postcode
\* is typed once: an order the server must turn down, or one for a Saturday or a Sunday
\* outside the M25, needs a postcode that was replaced, while its look-up was under way or
\* while PayPal made the agreement.
OrdersAreDelivered ==
  \A a \in DOMAIN attempts :
    /\ isHomeDelivery /\ attempts[a].stage \in Ordered
    /\ ~Delivers(attempts[a]) \/ (offer.weekendOnly /\ attempts[a].postCode \notin Inside)
    => \E i \in 1..(Len(entered) - 1) : entered[i] \in Postcodes

\* A payment needs a press of a button; the presses that StripeForm makes itself, for a
\* client secret that arrives (paymentWaiting is never put back by a refusal), need a
\* recaptcha solved again.
PaidByAPress ==
  Len(attempts) <= presses \/ Len(attempts) - presses < solved

\* Two subscriptions are bought in a visit only when an answer was lost, or when one order
\* was sent while another was waited for: the overlay does not hold back what was already
\* being confirmed.
SecondPurchase ==
  Cardinality({a \in DOMAIN attempts : attempts[a].job \in {"running", "succeeded"}}) > 1
  => \E a \in DOMAIN attempts : attempts[a].late \/ attempts[a].stage = "lost"

(* The refinement of CheckoutVisit. *)
Failures == {"declined", "unsubmitted", "abandoned", "refused", "failed"}
Verdict(at) ==
  CASE at \in Failures -> "failure"
    [] at = "succeeded" -> "success"
    [] at \in {"lost", "exhausted"} -> "unknown"
    [] OTHER -> "waiting"
Status(job) ==
  CASE job = "running" -> "pending"
    [] job = "succeeded" -> "success"
    [] job = "failed" -> "failure"
    [] OTHER -> "none"

Visit == INSTANCE CheckoutVisit WITH
  ThanksForPending <- TRUE,
  orders <- [a \in DOMAIN attempts |-> [job |-> Status(attempts[a].job),
                                        told |-> Verdict(attempts[a].stage)]],
  thanked <- stage # "checkout"

\* The page keeps its promise, whatever orders overlap and whichever answer is lost: a
\* verdict is given once and is true, and what was reported as failed is not bought later.
ImplementsVisit == Visit!Spec

\* The progress message goes away: every branch of an order ends in an error that is shown
\* or in another stage of the page.
OverlayEnds == form.formSubmitted ~> ~form.formSubmitted \/ stage # "checkout"

=============================================================================
