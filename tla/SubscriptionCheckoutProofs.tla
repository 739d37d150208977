--------------------- MODULE SubscriptionCheckoutProofs ---------------------
(***************************************************************************)
(* Theorems of SubscriptionCheckout: its types, that the page tells the     *)
(* truth about the orders, that an order the server must turn down needs a  *)
(* postcode that was replaced, that a second purchase needs a lost answer   *)
(* or overlapping orders, that a payment without a press needs another      *)
(* recaptcha, and that it implements CheckoutVisit, for any offers, places  *)
(* and bounds.                                                              *)
(***************************************************************************)
EXTENDS SubscriptionCheckout, FiniteSetTheorems, TLAPS

-----------------------------------------------------------------------------
(* The records of the attempts.                                            *)

\* An attempt that begins.
LEMMA AttemptType ==
  ASSUME NEW m \in PaymentMethods, NEW at \in AttemptStages, NEW s \in Nat
  PROVE  /\ Attempt(m, at, s) \in AttemptRecord
         /\ Attempt(m, at, s).stage = at /\ Attempt(m, at, s).secret = s
         /\ Attempt(m, at, s).job = "none" /\ ~Attempt(m, at, s).late
         /\ Attempt(m, at, s).method = m
BY BoundsAssumption DEF Attempt, AttemptRecord

\* The postcode of the form is one that was typed, or none.
LEMMA PostCodeType ==
  ASSUME TypeOK PROVE postCode \in Postcodes \cup {Malformed}
BY DEF TypeOK, postCode

\* An order copies the form.
LEMMA PostedType ==
  ASSUME TypeOK, NEW at \in AttemptRecord, NEW m \in PaymentMethods
  PROVE  /\ Posted(at, m) \in AttemptRecord
         /\ Posted(at, m).stage = "posting" /\ Posted(at, m).method = m
         /\ Posted(at, m).postCode = postCode
         /\ Posted(at, m).agent = deliveryAgent.chosenAgent
         /\ Posted(at, m).late = form.formSubmitted
         /\ Posted(at, m).job = at.job /\ Posted(at, m).polls = at.polls
         /\ Posted(at, m).secret = at.secret
<1>1. token \in Nat /\ form.formSubmitted \in BOOLEAN
      /\ deliveryAgent.chosenAgent \in Agents \cup {NoAgent}
  BY BoundsAssumption DEF TypeOK
<1>2. "posting" \in AttemptStages
  BY DEF AttemptStages
<1> QED BY <1>1, <1>2, PostCodeType DEF Posted, AttemptRecord

\* One more attempt.
LEMMA GrowType ==
  ASSUME attempts \in Seq(AttemptRecord), NEW r \in AttemptRecord,
         attempts' = Append(attempts, r)
  PROVE  /\ attempts' \in Seq(AttemptRecord)
         /\ Len(attempts') = Len(attempts) + 1
         /\ DOMAIN attempts' = DOMAIN attempts \cup {Len(attempts) + 1}
         /\ Len(attempts) + 1 \notin DOMAIN attempts
         /\ attempts'[Len(attempts) + 1] = r
         /\ \A b \in DOMAIN attempts : attempts'[b] = attempts[b]
OBVIOUS

\* One attempt is replaced.
LEMMA PutType ==
  ASSUME attempts \in Seq(AttemptRecord), NEW a \in DOMAIN attempts,
         NEW r \in AttemptRecord, attempts' = [attempts EXCEPT ![a] = r]
  PROVE  /\ attempts' \in Seq(AttemptRecord)
         /\ Len(attempts') = Len(attempts)
         /\ DOMAIN attempts' = DOMAIN attempts
         /\ attempts'[a] = r
         /\ \A b \in DOMAIN attempts : b # a => attempts'[b] = attempts[b]
OBVIOUS

\* To is such a replacement, of the stage only.
LEMMA ToType ==
  ASSUME attempts \in Seq(AttemptRecord), NEW a \in DOMAIN attempts,
         NEW s \in AttemptStages, To(a, s)
  PROVE  \E r \in AttemptRecord :
           /\ r = [attempts[a] EXCEPT !.stage = s]
           /\ attempts' = [attempts EXCEPT ![a] = r]
<1>1. attempts[a] \in AttemptRecord
  OBVIOUS
<1>2. [attempts[a] EXCEPT !.stage = s] \in AttemptRecord
  BY <1>1 DEF AttemptRecord
<1>3. attempts' = [attempts EXCEPT ![a] = [attempts[a] EXCEPT !.stage = s]]
  BY <1>1 DEF To, AttemptRecord
<1> QED BY <1>2, <1>3

\* The form of another method is unmounted: nothing else of an attempt changes.
LEMMA UnmountType ==
  ASSUME attempts \in Seq(AttemptRecord),
         attempts' = [a \in DOMAIN attempts |-> [attempts[a] EXCEPT !.mounted = FALSE]]
  PROVE  /\ attempts' \in Seq(AttemptRecord)
         /\ Len(attempts') = Len(attempts)
         /\ DOMAIN attempts' = DOMAIN attempts
         /\ \A b \in DOMAIN attempts :
              attempts'[b] = [attempts[b] EXCEPT !.mounted = FALSE]
<1>1. \A a \in DOMAIN attempts : attempts[a] \in AttemptRecord
  OBVIOUS
<1>2. \A r \in AttemptRecord : [r EXCEPT !.mounted = FALSE] \in AttemptRecord
  BY DEF AttemptRecord
<1>3. \A a \in DOMAIN attempts : [attempts[a] EXCEPT !.mounted = FALSE] \in AttemptRecord
  BY <1>1, <1>2
<1>4. DOMAIN attempts = 1..Len(attempts) /\ Len(attempts) \in Nat
  OBVIOUS
<1>5. attempts' \in [1..Len(attempts) -> AttemptRecord]
  BY <1>3, <1>4
<1>6. attempts' \in Seq(AttemptRecord) /\ Len(attempts') = Len(attempts)
  BY <1>4, <1>5
<1> QED BY <1>4, <1>6

-----------------------------------------------------------------------------
(* Type correctness.                                                       *)

FormRecord ==
  [formErrors : SUBSET {"details", "deliveryProvider"}, postCodeError : BOOLEAN,
   submissionError : BOOLEAN, formSubmitted : BOOLEAN]
CardRecord ==
  [complete : BOOLEAN, cardErrors : BOOLEAN, recaptchaError : BOOLEAN,
   paymentWaiting : BOOLEAN, disabled : BOOLEAN]

\* What the form becomes is a form.
LEMMA FormType ==
  ASSUME TypeOK
  PROVE  /\ form \in FormRecord
         /\ dispatchAllErrors \in FormRecord
         /\ dispatchAllErrors.submissionError = form.submissionError
         /\ dispatchAllErrors.formSubmitted = form.formSubmitted
         /\ formSubmitted \in FormRecord
         /\ formSubmitted.formSubmitted = TRUE
         /\ formSubmitted.submissionError = form.submissionError
         /\ submissionError \in FormRecord
         /\ \A field \in {"details", "deliveryProvider"} : removeError(field) \in FormRecord
         /\ \A field \in {"details", "deliveryProvider"} :
              /\ removeError(field).submissionError = form.submissionError
              /\ removeError(field).formSubmitted = form.formSubmitted
<1>1. form \in FormRecord
  BY DEF TypeOK, FormRecord
<1>2. deliveryErrors(valid, deliveryAgent) \in SUBSET {"details", "deliveryProvider"}
  BY DEF deliveryErrors
<1>3. postCodeError(postCode, deliveryAgent) \in BOOLEAN
  BY DEF postCodeError
<1>4. /\ dispatchAllErrors \in FormRecord
      /\ dispatchAllErrors.submissionError = form.submissionError
      /\ dispatchAllErrors.formSubmitted = form.formSubmitted
  BY <1>1, <1>2, <1>3 DEF dispatchAllErrors, FormRecord
<1>5. \A field \in {"details", "deliveryProvider"} :
        /\ removeError(field) \in FormRecord
        /\ removeError(field).submissionError = form.submissionError
        /\ removeError(field).formSubmitted = form.formSubmitted
  BY <1>1 DEF removeError, FormRecord
<1> QED BY <1>1, <1>4, <1>5 DEF formSubmitted, submissionError, FormRecord

\* What the attempts do in a step: begin one that is confirmed or in PayPal's window, or
\* is the order of a press; forget that a form is mounted; or move one of them on.
Begins(r) ==
  /\ r.stage \in {"confirming", "window"} /\ r.job = "none" /\ ~r.late
  /\ attempts' = Append(attempts, r)
Orders(r) ==
  /\ formIsValid /\ r = Posted(Attempt("DirectDebit", "posting", 0), "DirectDebit")
  /\ attempts' = Append(attempts, r)
Unmounts ==
  attempts' = [a \in DOMAIN attempts |-> [attempts[a] EXCEPT !.mounted = FALSE]]
Moves(a) == \E r \in AttemptRecord : attempts' = [attempts EXCEPT ![a] = r]

\* A step of the customer.
LEMMA CustomerAttempts ==
  ASSUME TypeOK, Customer
  PROVE  \/ attempts' = attempts
         \/ \E r \in AttemptRecord : Begins(r) \/ Orders(r)
         \/ Unmounts
<1>1. CASE PayNow
  <2>1. CASE attempts' = Append(attempts, Attempt("Stripe", "confirming", secret))
    <3>1. secret \in Nat /\ "Stripe" \in PaymentMethods /\ "confirming" \in AttemptStages
      BY BoundsAssumption DEF TypeOK, PaymentMethods, AttemptStages
    <3> DEFINE r == Attempt("Stripe", "confirming", secret)
    <3>2. /\ r \in AttemptRecord /\ r.stage = "confirming"
          /\ r.job = "none" /\ ~r.late
      BY <3>1, BoundsAssumption DEF Attempt, AttemptRecord
    <3>3. attempts' = Append(attempts, r)
      BY <2>1
    <3> HIDE DEF r
    <3>4. Begins(r)
      BY <3>2, <3>3 DEF Begins
    <3> QED BY <3>2, <3>4
  <2> QED BY <1>1, <2>1 DEF PayNow
<1>2. CASE ClickPayPal
  <2>1. 0 \in Nat /\ "PayPal" \in PaymentMethods /\ "window" \in AttemptStages
    BY DEF PaymentMethods, AttemptStages
  <2> DEFINE r == Attempt("PayPal", "window", 0)
  <2>2. /\ r \in AttemptRecord /\ r.stage = "window" /\ r.job = "none" /\ ~r.late
    BY <2>1, BoundsAssumption DEF Attempt, AttemptRecord
  <2>3. attempts' = Append(attempts, r)
    BY <1>2 DEF ClickPayPal
  <2> HIDE DEF r
  <2>4. Begins(r)
    BY <2>2, <2>3 DEF Begins
  <2> QED BY <2>2, <2>4
<1>3. CASE Subscribe
  <2>1. 0 \in Nat /\ "DirectDebit" \in PaymentMethods /\ "posting" \in AttemptStages
    BY DEF PaymentMethods, AttemptStages
  <2>2. Posted(Attempt("DirectDebit", "posting", 0), "DirectDebit") \in AttemptRecord
    BY <2>1, AttemptType, PostedType
  <2> QED BY <1>3, <2>2 DEF Orders, Subscribe
<1>4. CASE \E m \in PaymentMethods : SelectMethod(m)
  BY <1>4 DEF SelectMethod, Unmounts
<1>5. CASE \/ EditDetails \/ EditCard \/ SolveRecaptcha \/ ExpireRecaptcha \/ CheckAccount
           \/ EditAccount
           \/ \E p \in Postcodes \cup {Malformed} : EnterPostcode(p)
           \/ \E d \in Agents : ChooseAgent(d)
  BY <1>5 DEF EditDetails, EditCard, SolveRecaptcha, ExpireRecaptcha, CheckAccount,
              EditAccount, EnterPostcode, ChooseAgent
<1> QED BY <1>1, <1>2, <1>3, <1>4, <1>5 DEF Customer

\* The order of an attempt, kept or new.
LEMMA Moved ==
  ASSUME TypeOK, NEW a \in DOMAIN attempts, Answer(a)
  PROVE  Moves(a)
<1>0. /\ attempts \in Seq(AttemptRecord) /\ attempts[a] \in AttemptRecord
      /\ method \in PaymentMethods \cup {"None"} /\ MaxPolls \in Nat
  BY BoundsAssumption DEF TypeOK
<1>1. ASSUME NEW s \in AttemptStages, To(a, s) PROVE Moves(a)
  BY <1>0, <1>1, ToType DEF Moves
<1>2. {"declined", "unsubmitted", "agreeing", "abandoned", "refused", "lost", "succeeded",
       "failed", "polling", "exhausted"} \subseteq AttemptStages
  BY DEF AttemptStages
<1>3. CASE Confirmed(a)
  <2>1. CASE To(a, "declined") \/ To(a, "unsubmitted")
    BY <1>1, <1>2, <2>1
  <2>2. CASE Submittable /\ attempts' = [attempts EXCEPT ![a] = Posted(@, method)]
    <3>1. method \in PaymentMethods
      BY <1>0, <2>2 DEF Submittable, PaymentMethods
    <3> QED BY <1>0, <2>2, <3>1, PostedType DEF Moves
  <2> QED BY <1>3, <2>1, <2>2 DEF Confirmed
<1>4. CASE WindowCloses(a)
  BY <1>1, <1>2, <1>4 DEF WindowCloses
<1>5. CASE Agreed(a)
  <2>1. "PayPal" \in PaymentMethods
    BY DEF PaymentMethods
  <2>2. Posted(attempts[a], "PayPal") \in AttemptRecord
    BY <1>0, <2>1, PostedType
  <2> QED BY <1>0, <1>1, <1>2, <1>5, <2>2 DEF Agreed, Moves
<1>7. attempts[a].polls \in 0..MaxPolls /\ attempts[a].stage \in AttemptStages
      /\ attempts[a].job \in {"none", "running", "succeeded", "failed"}
  BY <1>0 DEF AttemptRecord
<1>8. CASE Created(a)
  <2>1. CASE \E s \in {"polling", "lost"} :
               attempts' = [attempts EXCEPT ![a].stage = s, ![a].job = "running"]
    <3>1. PICK s \in {"polling", "lost"} :
            attempts' = [attempts EXCEPT ![a].stage = s, ![a].job = "running"]
      BY <2>1
    <3>2. [attempts[a] EXCEPT !.stage = s, !.job = "running"] \in AttemptRecord
      BY <1>0, <1>2 DEF AttemptRecord
    <3>3. attempts' = [attempts EXCEPT
                         ![a] = [attempts[a] EXCEPT !.stage = s, !.job = "running"]]
      BY <1>0, <3>1 DEF AttemptRecord
    <3> QED BY <3>2, <3>3 DEF Moves
  <2> QED BY <1>1, <1>2, <1>8, <2>1 DEF Created
<1>9. CASE JobEnds(a)
  <2>1. PICK j \in {"succeeded", "failed"} : attempts' = [attempts EXCEPT ![a].job = j]
    BY <1>9 DEF JobEnds
  <2>2. [attempts[a] EXCEPT !.job = j] \in AttemptRecord
    BY <1>0 DEF AttemptRecord
  <2>3. attempts' = [attempts EXCEPT ![a] = [attempts[a] EXCEPT !.job = j]]
    BY <1>0, <2>1 DEF AttemptRecord
  <2> QED BY <2>2, <2>3 DEF Moves
<1>10. CASE Poll(a)
  <2>1. CASE To(a, "succeeded") \/ To(a, "failed")
    BY <1>1, <1>2, <2>1
  <2>2. CASE /\ attempts[a].polls + 1 < MaxPolls
             /\ attempts' = [attempts EXCEPT ![a].polls = @ + 1]
    <3>0. attempts[a].polls + 1 \in 0..MaxPolls
      BY <1>0, <1>7, <2>2
    <3>1. [attempts[a] EXCEPT !.polls = @ + 1] \in AttemptRecord
      BY <1>0, <3>0 DEF AttemptRecord
    <3>2. attempts' = [attempts EXCEPT ![a] = [attempts[a] EXCEPT !.polls = @ + 1]]
      BY <1>0, <2>2 DEF AttemptRecord
    <3> QED BY <3>1, <3>2 DEF Moves
  <2>3. CASE /\ attempts[a].polls + 1 = MaxPolls
             /\ attempts' = [attempts EXCEPT ![a].polls = @ + 1, ![a].stage = "exhausted"]
    <3>0. attempts[a].polls + 1 \in 0..MaxPolls
      BY <1>0, <1>7, <2>3
    <3>1. [attempts[a] EXCEPT !.polls = @ + 1, !.stage = "exhausted"] \in AttemptRecord
      BY <1>0, <1>2, <3>0 DEF AttemptRecord
    <3>2. attempts' = [attempts EXCEPT
                         ![a] = [attempts[a] EXCEPT !.polls = @ + 1, !.stage = "exhausted"]]
      BY <1>0, <2>3 DEF AttemptRecord
    <3> QED BY <3>1, <3>2 DEF Moves
  <2> QED BY <1>10, <2>1, <2>2, <2>3 DEF Poll
<1> QED BY <1>3, <1>4, <1>5, <1>8, <1>9, <1>10 DEF Answer

\* Every step is one of these.
LEMMA AttemptsStep ==
  ASSUME TypeOK, Next
  PROVE  \/ attempts' = attempts
         \/ \E r \in AttemptRecord : Begins(r) \/ Orders(r)
         \/ Unmounts
         \/ \E a \in DOMAIN attempts : Moves(a)
<1>1. CASE Customer
  BY <1>1, CustomerAttempts
<1>2. ASSUME NEW t \in setups, SetupIntent(t)
      PROVE  attempts' = attempts \/ \E r \in AttemptRecord : Begins(r)
  <2>1. t \in Nat /\ "Stripe" \in PaymentMethods /\ "confirming" \in AttemptStages
    BY <1>2, BoundsAssumption DEF TypeOK, PaymentMethods, AttemptStages
  <2> DEFINE r == Attempt("Stripe", "confirming", t)
  <2>2. r \in AttemptRecord /\ r.stage = "confirming" /\ r.job = "none" /\ ~r.late
    BY <2>1, BoundsAssumption DEF Attempt, AttemptRecord
  <2>3. attempts' = attempts \/ attempts' = Append(attempts, r)
    BY <1>2 DEF SetupIntent
  <2> HIDE DEF r
  <2> QED BY <2>2, <2>3 DEF Begins
<1>3. CASE AccountChecked \/ \E i \in lookups : AgentsFound(i)
  BY <1>3 DEF AccountChecked, AgentsFound
<1>4. ASSUME NEW a \in DOMAIN attempts, Answer(a) PROVE Moves(a)
  BY <1>4, Moved
<1> QED BY <1>1, <1>2, <1>3, <1>4 DEF Next

\* So the attempts keep their type.
LEMMA AttemptsType == ASSUME TypeOK, Next PROVE attempts' \in Seq(AttemptRecord)
<1>0. attempts \in Seq(AttemptRecord)
  BY DEF TypeOK
<1>1. ASSUME NEW r \in AttemptRecord, Begins(r) \/ Orders(r)
      PROVE  attempts' \in Seq(AttemptRecord)
  BY <1>0, <1>1 DEF Begins, Orders
<1>2. CASE Unmounts
  BY <1>0, <1>2, UnmountType DEF Unmounts
<1>3. ASSUME NEW a \in DOMAIN attempts, Moves(a) PROVE attempts' \in Seq(AttemptRecord)
  BY <1>0, <1>3 DEF Moves
<1> QED BY <1>0, <1>1, <1>2, <1>3, AttemptsStep

\* The types of everything but the attempts.
RestOK ==
  /\ offer \in Offers
  /\ stage \in {"checkout", "thankyou", "thankyou-pending"}
  /\ form \in FormRecord
  /\ valid \in BOOLEAN
  /\ entered \in Seq(Postcodes \cup {Malformed})
  /\ lookups \subseteq {i \in DOMAIN entered : entered[i] \in Postcodes}
  /\ deliveryAgent \in [response : SUBSET Agents, chosenAgent : Agents \cup {NoAgent}]
  /\ method \in PaymentMethods \cup {"None"}
  /\ solved \in 0..Bounds[offer].tokens
  /\ token \in 0..solved /\ secret \in 0..solved /\ setups \subseteq 1..solved
  /\ card \in CardRecord
  /\ account \in [phase : {"entry", "confirmation"}, checking : BOOLEAN]
  /\ payPalEnabled \in BOOLEAN
  /\ presses \in 0..Bounds[offer].presses

LEMMA TypeParts == TypeOK <=> RestOK /\ attempts \in Seq(AttemptRecord)
BY DEF TypeOK, RestOK, FormRecord, CardRecord

\* The bounds of the offer are numbers.
LEMMA OfferBounds ==
  ASSUME RestOK
  PROVE  Bounds[offer].entries \in Nat /\ Bounds[offer].presses \in Nat
         /\ Bounds[offer].tokens \in Nat
BY BoundsAssumption DEF RestOK

\* A step of the customer keeps them.
LEMMA CustomerType == ASSUME TypeOK, Customer PROVE RestOK'
<1>0. RestOK
  BY TypeParts
<1>a. Bounds[offer].presses \in Nat /\ Bounds[offer].tokens \in Nat
  BY <1>0, OfferBounds
<1>c. /\ form \in FormRecord /\ dispatchAllErrors \in FormRecord
      /\ formSubmitted \in FormRecord
      /\ removeError("details") \in FormRecord /\ removeError("deliveryProvider") \in FormRecord
  BY FormType
<1>1. CASE EditDetails
  <2>1. payPalEnabled' \in BOOLEAN
    BY <1>1 DEF EditDetails, enableOrDisableForm
  <2>2. form' \in FormRecord /\ valid' \in BOOLEAN
    BY <1>0, <1>1, <1>c DEF EditDetails, RestOK
  <2> QED BY <1>0, <1>1, <2>1, <2>2 DEF EditDetails, RestOK
<1>2. ASSUME NEW p \in Postcodes \cup {Malformed}, EnterPostcode(p) PROVE RestOK'
  <2>1. payPalEnabled' \in BOOLEAN
    BY <1>2 DEF EnterPostcode, enableOrDisableForm
  <2>2. /\ entered' \in Seq(Postcodes \cup {Malformed})
        /\ DOMAIN entered' = DOMAIN entered \cup {Len(entered')}
        /\ entered'[Len(entered')] = p
        /\ \A i \in DOMAIN entered : entered'[i] = entered[i]
    BY <1>0, <1>2 DEF EnterPostcode, RestOK
  <2>3. lookups' \subseteq {i \in DOMAIN entered' : entered'[i] \in Postcodes}
    <3>1. CASE p \in Postcodes \ Inside
      BY <1>0, <1>2, <2>2, <3>1 DEF EnterPostcode, RestOK
    <3>2. CASE p \notin Postcodes \ Inside
      BY <1>0, <1>2, <2>2, <3>2 DEF EnterPostcode, RestOK
    <3> QED BY <3>1, <3>2
  <2>4. form' \in FormRecord
    <3>1. CASE form' = [form EXCEPT !.postCodeError = FALSE]
      BY <1>c, <3>1 DEF FormRecord
    <3>2. CASE form' = [removeError("deliveryProvider") EXCEPT !.postCodeError = FALSE]
      BY <1>c, <3>2 DEF FormRecord
    <3> QED BY <1>2, <3>1, <3>2 DEF EnterPostcode
  <2>5. deliveryAgent' \in [response : SUBSET Agents, chosenAgent : Agents \cup {NoAgent}]
    BY <1>0, <1>2 DEF EnterPostcode, RestOK
  <2> QED BY <1>0, <1>2, <2>1, <2>2, <2>3, <2>4, <2>5 DEF EnterPostcode, RestOK
<1>3. ASSUME NEW d \in Agents, ChooseAgent(d) PROVE RestOK'
  <2>1. payPalEnabled' \in BOOLEAN
    BY <1>3 DEF ChooseAgent, enableOrDisableForm
  <2>2. deliveryAgent' \in [response : SUBSET Agents, chosenAgent : Agents \cup {NoAgent}]
    BY <1>0, <1>3 DEF ChooseAgent, RestOK
  <2> QED BY <1>0, <1>3, <1>c, <2>1, <2>2 DEF ChooseAgent, RestOK
<1>4. ASSUME NEW m \in PaymentMethods, SelectMethod(m) PROVE RestOK'
  <2>1. payPalEnabled' \in BOOLEAN
    BY <1>4 DEF SelectMethod
  <2>2. card' \in CardRecord
    BY <1>4 DEF SelectMethod, UnusedCard, CardRecord
  <2>3. token' \in 0..solved'
    BY <1>0, <1>4, <1>a DEF SelectMethod, RestOK
  <2> QED BY <1>0, <1>4, <2>1, <2>2, <2>3 DEF SelectMethod, RestOK
<1>5. CASE EditCard
  BY <1>0, <1>5 DEF EditCard, RestOK, CardRecord
<1>6. CASE SolveRecaptcha
  <2>1. solved' = solved + 1 /\ solved \in Nat /\ solved' \in 0..Bounds[offer].tokens
    BY <1>0, <1>6, <1>a DEF SolveRecaptcha, RestOK
  <2>2. token' \in 0..solved' /\ secret' \in 0..solved' /\ setups' \subseteq 1..solved'
    BY <1>0, <1>6, <2>1 DEF SolveRecaptcha, RestOK
  <2>3. card' \in CardRecord
    BY <1>0, <1>6 DEF SolveRecaptcha, RestOK, CardRecord
  <2> QED BY <1>0, <1>6, <2>1, <2>2, <2>3 DEF SolveRecaptcha, RestOK
<1>7. CASE ExpireRecaptcha
  BY <1>0, <1>7, <1>a DEF ExpireRecaptcha, RestOK
<1>8. CASE PayNow
  <2> DEFINE checked == [card EXCEPT !.cardErrors = ~card.complete,
                                     !.recaptchaError = @ \/ token = 0]
  <2>1. checked \in CardRecord
    BY <1>0 DEF RestOK, CardRecord
  <2>2. card' \in {checked, [checked EXCEPT !.disabled = TRUE],
                   [checked EXCEPT !.disabled = TRUE, !.paymentWaiting = TRUE]}
    BY <1>8 DEF PayNow
  <2>3. card' \in CardRecord
    BY <2>1, <2>2 DEF CardRecord
  <2>4. presses' \in 0..Bounds[offer].presses
    BY <1>0, <1>8, <1>a DEF PayNow, RestOK
  <2>5. form' \in FormRecord
    BY <1>8, <1>c DEF PayNow
  <2> QED BY <1>0, <1>8, <2>3, <2>4, <2>5 DEF PayNow, RestOK
<1>9. CASE CheckAccount \/ EditAccount
  BY <1>0, <1>9 DEF CheckAccount, EditAccount, RestOK
<1>10. CASE Subscribe \/ ClickPayPal
  <2>1. presses' \in 0..Bounds[offer].presses
    BY <1>0, <1>10, <1>a DEF Subscribe, ClickPayPal, RestOK
  <2> QED BY <1>0, <1>10, <1>c, <2>1 DEF Subscribe, ClickPayPal, RestOK
<1> QED BY <1>1, <1>2, <1>3, <1>4, <1>5, <1>6, <1>7, <1>8, <1>9, <1>10 DEF Customer

\* So does an answer.
LEMMA AnswerType == ASSUME TypeOK, Next, ~Customer PROVE RestOK'
<1>0. RestOK
  BY TypeParts
<1>c. /\ form \in FormRecord /\ dispatchAllErrors \in FormRecord
      /\ formSubmitted \in FormRecord /\ submissionError \in FormRecord
  BY FormType
<1>1. ASSUME NEW i \in lookups, AgentsFound(i) PROVE RestOK'
  <2>1. entered[i] \in Postcodes
    BY <1>0, <1>1 DEF RestOK
  <2>2. Served[entered[i]] \subseteq Agents
    BY <2>1, DeliveryAssumption
  <2>3. ASSUME NEW found \in {Served[entered[i]], {}},
               deliveryAgent' =
                 [response |-> found,
                  chosenAgent |-> IF \E d \in Agents : found = {d}
                                  THEN CHOOSE d \in Agents : found = {d}
                                  ELSE deliveryAgent.chosenAgent]
        PROVE  deliveryAgent' \in [response : SUBSET Agents,
                                   chosenAgent : Agents \cup {NoAgent}]
    <3>1. found \in SUBSET Agents
      BY <2>2
    <3>2. CASE \E d \in Agents : found = {d}
      <4>1. (CHOOSE d \in Agents : found = {d}) \in Agents
        BY <3>2
      <4> QED BY <2>3, <3>1, <3>2, <4>1
    <3>3. CASE ~\E d \in Agents : found = {d}
      BY <1>0, <2>3, <3>1, <3>3 DEF RestOK
    <3> QED BY <3>2, <3>3
  <2>4. deliveryAgent' \in [response : SUBSET Agents, chosenAgent : Agents \cup {NoAgent}]
    BY <1>0, <1>1, <2>3 DEF AgentsFound, RestOK
  <2> QED BY <1>0, <1>1, <2>4 DEF AgentsFound, RestOK
<1>2. ASSUME NEW t \in setups, SetupIntent(t) PROVE RestOK'
  <2>1. secret' \in 0..solved' /\ setups' \subseteq 1..solved'
    <3>1. solved \in Nat /\ t \in 1..solved
      BY <1>0, <1>2, OfferBounds DEF RestOK
    <3> QED BY <1>0, <1>2, <3>1 DEF SetupIntent, RestOK
  <2> QED BY <1>0, <1>2, <2>1 DEF SetupIntent, RestOK
<1>3. CASE AccountChecked
  BY <1>0, <1>3 DEF AccountChecked, RestOK
<1>4. ASSUME NEW a \in DOMAIN attempts, Confirmed(a) PROVE RestOK'
  <2>1. card' \in CardRecord
    <3>0. attempts[a] \in AttemptRecord
      BY TypeParts
    <3>1. attempts[a].mounted \in BOOLEAN
      BY <3>0 DEF AttemptRecord
    <3>2. card \in CardRecord
      BY <1>0 DEF RestOK
    <3>3. CASE card' = [card EXCEPT !.disabled = @ /\ ~attempts[a].mounted]
      <4>1. (card.disabled /\ ~attempts[a].mounted) \in BOOLEAN
        OBVIOUS
      <4> QED BY <3>2, <3>3, <4>1 DEF CardRecord
    <3>4. CASE card' = card
      BY <3>2, <3>4
    <3>5. CASE card' = [card EXCEPT !.paymentWaiting = FALSE, !.cardErrors = TRUE,
                                    !.disabled = FALSE]
      BY <3>2, <3>5 DEF CardRecord
    <3> QED BY <1>4, <3>3, <3>4, <3>5 DEF Confirmed
  <2>2. form' \in FormRecord
    BY <1>4, <1>c DEF Confirmed
  <2> QED BY <1>0, <1>4, <2>1, <2>2 DEF Confirmed, RestOK
<1>5. ASSUME NEW a \in DOMAIN attempts,
             WindowCloses(a) \/ Agreed(a) \/ Created(a) \/ JobEnds(a) \/ Poll(a)
      PROVE  RestOK'
  <2>1. /\ form' \in FormRecord
        /\ stage' \in {"checkout", "thankyou", "thankyou-pending"}
        /\ UNCHANGED Answered
    BY <1>0, <1>5, <1>c DEF WindowCloses, Agreed, Created, JobEnds, Poll, RestOK
  <2> QED BY <1>0, <2>1 DEF Answered, RestOK
<1> QED BY <1>1, <1>2, <1>3, <1>4, <1>5 DEF Next, Answer

\* The types hold at first, and every step keeps them.
LEMMA TypeInit == Init => TypeOK
<1> SUFFICES ASSUME Init PROVE TypeOK
  OBVIOUS
<1>1. Bounds[offer].presses \in Nat /\ Bounds[offer].tokens \in Nat
  BY BoundsAssumption DEF Init
<1>2. entered \in Seq(Postcodes \cup {Malformed}) /\ attempts \in Seq(AttemptRecord)
  BY DEF Init
<1>3. /\ form \in FormRecord /\ card \in CardRecord
      /\ deliveryAgent \in [response : SUBSET Agents, chosenAgent : Agents \cup {NoAgent}]
      /\ account \in [phase : {"entry", "confirmation"}, checking : BOOLEAN]
  BY DEF Init, FormRecord, CardRecord, UnusedCard
<1>4. /\ solved \in 0..Bounds[offer].tokens /\ presses \in 0..Bounds[offer].presses
      /\ token \in 0..solved /\ secret \in 0..solved
  BY <1>1 DEF Init
<1>5. /\ setups \subseteq 1..solved
      /\ lookups \subseteq {i \in DOMAIN entered : entered[i] \in Postcodes}
  BY DEF Init
<1>6. RestOK
  BY <1>2, <1>3, <1>4, <1>5 DEF Init, RestOK
<1> QED BY <1>2, <1>6, TypeParts

LEMMA TypeStep == TypeOK /\ [Next]_vars => TypeOK'
<1> SUFFICES ASSUME TypeOK, [Next]_vars PROVE TypeOK'
  OBVIOUS
<1>1. CASE Next
  <2>1. RestOK'
    BY <1>1, CustomerType, AnswerType
  <2>2. attempts' \in Seq(AttemptRecord)
    BY <1>1, AttemptsType
  <2> QED BY <2>1, <2>2 DEF RestOK, TypeOK, FormRecord, CardRecord, AttemptRecord
<1>2. CASE UNCHANGED vars
  BY <1>2 DEF vars, TypeOK
<1> QED BY <1>1, <1>2

\* Every slice, the local state of StripeForm and every request keep their shape.
THEOREM TypeCorrect == Spec => []TypeOK
<1> QED BY TypeInit, TypeStep, PTL DEF Spec

-----------------------------------------------------------------------------
(* What an answer does to its attempt.                                     *)

Turns(a, s, j) ==
  /\ attempts'[a].stage = s /\ attempts'[a].job = j
  /\ attempts'[a].late = attempts[a].late
  /\ attempts'[a].postCode = attempts[a].postCode
  /\ attempts'[a].agent = attempts[a].agent

GivesUp(a) ==
  /\ \/ attempts[a].stage = "confirming" /\ attempts'[a].stage \in {"declined", "unsubmitted"}
     \/ attempts[a].stage = "window" /\ attempts'[a].stage \in {"agreeing", "abandoned"}
     \/ attempts[a].stage = "agreeing" /\ attempts'[a].stage = "abandoned"
  /\ Turns(a, attempts'[a].stage, attempts[a].job)
  /\ form' \in {form, dispatchAllErrors}
  /\ UNCHANGED stage

IsOrdered(a) ==
  /\ \/ attempts[a].stage = "confirming" /\ formIsValid
     \/ attempts[a].stage = "agreeing"
  /\ attempts'[a].stage = "posting" /\ attempts'[a].job = attempts[a].job
  /\ attempts'[a].late = form.formSubmitted
  /\ attempts'[a].postCode = postCode
  /\ attempts'[a].agent = deliveryAgent.chosenAgent
  /\ form' = formSubmitted
  /\ UNCHANGED stage

IsAnswered(a) ==
  \/ /\ attempts[a].stage = "posting"
     /\ Turns(a, "polling", "running")
     /\ UNCHANGED <<stage, form>>
  \/ /\ attempts[a].stage = "posting"
     /\ Turns(a, "refused", attempts[a].job) \/ Turns(a, "lost", attempts[a].job)
        \/ Turns(a, "lost", "running")
     /\ form' = submissionError
     /\ UNCHANGED stage
  \/ /\ attempts[a].job = "running"
     /\ \E j \in {"succeeded", "failed"} : Turns(a, attempts[a].stage, j)
     /\ attempts'[a].polls = attempts[a].polls
     /\ UNCHANGED <<stage, form>>
  \/ /\ attempts[a].stage = "polling"
     /\ \/ /\ attempts[a].job = "succeeded" /\ Turns(a, "succeeded", "succeeded")
           /\ stage' = "thankyou" /\ UNCHANGED form
        \/ /\ attempts[a].job = "failed" /\ Turns(a, "failed", "failed")
           /\ form' = submissionError /\ UNCHANGED stage
        \/ /\ Turns(a, "polling", attempts[a].job)
           /\ UNCHANGED <<stage, form>>
        \/ /\ Turns(a, "exhausted", attempts[a].job)
           /\ attempts'[a].polls = MaxPolls
           /\ stage' = "thankyou-pending" /\ UNCHANGED form

\* Setting the stage of an attempt turns it.
LEMMA ToTurns ==
  ASSUME TypeOK, NEW a \in DOMAIN attempts, NEW s \in AttemptStages, To(a, s)
  PROVE  Turns(a, s, attempts[a].job)
<1>0. attempts \in Seq(AttemptRecord) /\ attempts[a] \in AttemptRecord
  BY TypeParts
<1>1. PICK r \in AttemptRecord :
        /\ r = [attempts[a] EXCEPT !.stage = s]
        /\ attempts' = [attempts EXCEPT ![a] = r]
  BY <1>0, ToType
<1>2. attempts'[a] = r
  BY <1>0, <1>1
<1>3. /\ r.stage = s /\ r.job = attempts[a].job /\ r.late = attempts[a].late
      /\ r.postCode = attempts[a].postCode /\ r.agent = attempts[a].agent
  BY <1>0, <1>1 DEF AttemptRecord
<1> QED BY <1>2, <1>3 DEF Turns

\* An answer is one of these.
LEMMA AnswerStep ==
  ASSUME TypeOK, NEW a \in DOMAIN attempts, Answer(a)
  PROVE  /\ DOMAIN attempts' = DOMAIN attempts
         /\ \A b \in DOMAIN attempts : b # a => attempts'[b] = attempts[b]
         /\ GivesUp(a) \/ IsOrdered(a) \/ IsAnswered(a)
<1>0. /\ attempts \in Seq(AttemptRecord) /\ attempts[a] \in AttemptRecord
      /\ method \in PaymentMethods \cup {"None"}
  BY TypeParts DEF RestOK
<1>a. /\ DOMAIN attempts' = DOMAIN attempts
      /\ \A b \in DOMAIN attempts : b # a => attempts'[b] = attempts[b]
  BY <1>0, Moved DEF Moves
<1>b. {"declined", "unsubmitted", "agreeing", "abandoned", "refused", "lost", "succeeded",
       "failed", "polling", "exhausted"} \subseteq AttemptStages
  BY DEF AttemptStages
<1>c. ASSUME NEW m \in PaymentMethods, attempts' = [attempts EXCEPT ![a] = Posted(@, m)]
      PROVE  /\ attempts'[a].stage = "posting" /\ attempts'[a].job = attempts[a].job
             /\ attempts'[a].late = form.formSubmitted
             /\ attempts'[a].postCode = postCode
             /\ attempts'[a].agent = deliveryAgent.chosenAgent
  <2>1. attempts'[a] = Posted(attempts[a], m)
    BY <1>0, <1>c
  <2> QED BY <1>0, <2>1, PostedType
<1>1. CASE Confirmed(a)
  <2>1. CASE To(a, "declined") /\ UNCHANGED form
    <3>1. Turns(a, "declined", attempts[a].job)
      BY <1>b, <2>1, ToTurns
    <3>2. GivesUp(a)
      BY <1>1, <2>1, <3>1 DEF GivesUp, Confirmed, Turns
    <3> QED BY <1>a, <3>2
  <2>2. CASE Submittable /\ attempts' = [attempts EXCEPT ![a] = Posted(@, method)]
             /\ form' = formSubmitted
    <3>1. method \in PaymentMethods /\ formIsValid
      BY <1>0, <2>2 DEF Submittable, PaymentMethods
    <3>2. IsOrdered(a)
      BY <1>1, <1>c, <2>2, <3>1 DEF IsOrdered, Confirmed
    <3> QED BY <1>a, <3>2
  <2>3. CASE To(a, "unsubmitted") /\ form' = dispatchAllErrors
    <3>1. Turns(a, "unsubmitted", attempts[a].job)
      BY <1>b, <2>3, ToTurns
    <3>2. GivesUp(a)
      BY <1>1, <2>3, <3>1 DEF GivesUp, Confirmed, Turns
    <3> QED BY <1>a, <3>2
  <2> QED BY <1>1, <2>1, <2>2, <2>3 DEF Confirmed
<1>2. CASE WindowCloses(a)
  <2>1. PICK s \in {"agreeing", "abandoned"} : To(a, s)
    BY <1>2 DEF WindowCloses
  <2>2. Turns(a, s, attempts[a].job)
    BY <1>b, <2>1, ToTurns
  <2>3. GivesUp(a)
    BY <1>2, <2>1, <2>2 DEF GivesUp, WindowCloses, Turns
  <2> QED BY <1>a, <2>3
<1>3. CASE Agreed(a)
  <2>1. CASE /\ attempts' = [attempts EXCEPT ![a] = Posted(@, "PayPal")]
             /\ form' = formSubmitted
    <3>1. "PayPal" \in PaymentMethods
      BY DEF PaymentMethods
    <3>2. IsOrdered(a)
      BY <1>3, <1>c, <2>1, <3>1 DEF IsOrdered, Agreed
    <3> QED BY <1>a, <3>2
  <2>2. CASE To(a, "abandoned") /\ UNCHANGED form
    <3>1. Turns(a, "abandoned", attempts[a].job)
      BY <1>b, <2>2, ToTurns
    <3>2. GivesUp(a)
      BY <1>3, <2>2, <3>1 DEF GivesUp, Agreed, Turns
    <3> QED BY <1>a, <3>2
  <2> QED BY <1>3, <2>1, <2>2 DEF Agreed
<1>4. CASE Created(a)
  <2>0. attempts[a].stage = "posting" /\ UNCHANGED stage
    BY <1>4 DEF Created
  <2>1. ASSUME NEW s \in {"polling", "lost"},
               attempts' = [attempts EXCEPT ![a].stage = s, ![a].job = "running"]
        PROVE  Turns(a, s, "running")
    <3>1. attempts'[a] = [attempts[a] EXCEPT !.stage = s, !.job = "running"]
      BY <1>0, <2>1
    <3> QED BY <1>0, <3>1 DEF Turns, AttemptRecord
  <2>2. ASSUME NEW s \in {"refused", "lost"}, To(a, s) PROVE Turns(a, s, attempts[a].job)
    BY <1>b, <2>2, ToTurns
  <2>3. IsAnswered(a)
    BY <1>4, <2>0, <2>1, <2>2 DEF IsAnswered, Created
  <2> QED BY <1>a, <2>3
<1>5. CASE JobEnds(a)
  <2>1. PICK j \in {"succeeded", "failed"} : attempts' = [attempts EXCEPT ![a].job = j]
    BY <1>5 DEF JobEnds
  <2>2. attempts'[a] = [attempts[a] EXCEPT !.job = j]
    BY <1>0, <2>1
  <2>3. Turns(a, attempts[a].stage, j) /\ attempts'[a].polls = attempts[a].polls
    BY <1>0, <2>2 DEF Turns, AttemptRecord
  <2>4. IsAnswered(a)
    BY <1>5, <2>3 DEF IsAnswered, JobEnds
  <2> QED BY <1>a, <2>4
<1>6. CASE Poll(a)
  <2>0. attempts[a].stage = "polling"
    BY <1>6 DEF Poll
  <2>1. ASSUME NEW s \in {"succeeded", "failed"}, To(a, s) PROVE Turns(a, s, attempts[a].job)
    BY <1>b, <2>1, ToTurns
  <2>2. CASE attempts' = [attempts EXCEPT ![a].polls = @ + 1] /\ UNCHANGED <<stage, form>>
    <3>1. attempts'[a] = [attempts[a] EXCEPT !.polls = attempts[a].polls + 1]
      BY <1>0, <2>2
    <3>2. Turns(a, "polling", attempts[a].job)
      BY <1>0, <2>0, <3>1 DEF Turns, AttemptRecord
    <3>3. IsAnswered(a)
      BY <2>0, <2>2, <3>2 DEF IsAnswered
    <3> QED BY <1>a, <3>3
  <2>3. CASE /\ attempts[a].polls + 1 = MaxPolls
             /\ attempts' = [attempts EXCEPT ![a].polls = @ + 1, ![a].stage = "exhausted"]
             /\ stage' = "thankyou-pending" /\ UNCHANGED form
    <3>1. attempts'[a] = [attempts[a] EXCEPT !.polls = attempts[a].polls + 1,
                                             !.stage = "exhausted"]
      BY <1>0, <2>3
    <3>2. Turns(a, "exhausted", attempts[a].job) /\ attempts'[a].polls = MaxPolls
      BY <1>0, <2>3, <3>1 DEF Turns, AttemptRecord
    <3>3. IsAnswered(a)
      BY <2>0, <2>3, <3>2 DEF IsAnswered
    <3> QED BY <1>a, <3>3
  <2>4. CASE /\ attempts[a].job = "succeeded" /\ To(a, "succeeded")
             /\ stage' = "thankyou" /\ UNCHANGED form
    <3>1. IsAnswered(a)
      BY <2>0, <2>1, <2>4 DEF IsAnswered
    <3> QED BY <1>a, <3>1
  <2>5. CASE /\ attempts[a].job = "failed" /\ To(a, "failed")
             /\ form' = submissionError /\ UNCHANGED stage
    <3>1. IsAnswered(a)
      BY <2>0, <2>1, <2>5 DEF IsAnswered
    <3> QED BY <1>a, <3>1
  <2> QED BY <1>6, <2>2, <2>3, <2>4, <2>5 DEF Poll
<1> QED BY <1>1, <1>2, <1>3, <1>4, <1>5, <1>6 DEF Answer

-----------------------------------------------------------------------------
(* What the other steps do to the attempts.                                *)

Kept(b) ==
  /\ attempts'[b].stage = attempts[b].stage /\ attempts'[b].job = attempts[b].job
  /\ attempts'[b].late = attempts[b].late /\ attempts'[b].polls = attempts[b].polls
  /\ attempts'[b].postCode = attempts[b].postCode
  /\ attempts'[b].agent = attempts[b].agent

New == Len(attempts) + 1

NothingNew ==
  DOMAIN attempts' = DOMAIN attempts /\ form'.formSubmitted = form.formSubmitted

BeginsNew ==
  /\ DOMAIN attempts' = DOMAIN attempts \cup {New}
  /\ attempts'[New].stage \in {"confirming", "window"}
  /\ attempts'[New].job = "none" /\ ~attempts'[New].late
  /\ form'.formSubmitted = form.formSubmitted

OrdersNew ==
  /\ DOMAIN attempts' = DOMAIN attempts \cup {New}
  /\ formIsValid /\ ~form.formSubmitted
  /\ attempts'[New].stage = "posting" /\ attempts'[New].job = "none"
  /\ ~attempts'[New].late
  /\ attempts'[New].postCode = postCode
  /\ attempts'[New].agent = deliveryAgent.chosenAgent
  /\ form' = formSubmitted

Others ==
  \/ Customer
  \/ \E i \in lookups : AgentsFound(i)
  \/ \E t \in setups : SetupIntent(t)
  \/ AccountChecked

\* The customer orders by direct debit, or leaves the progress message alone.
LEMMA CustomerForm ==
  ASSUME TypeOK, Customer
  PROVE  /\ stage' = stage
         /\ form'.submissionError = form.submissionError
         /\ \/ /\ form'.formSubmitted = form.formSubmitted
               /\ \/ attempts' = attempts \/ Unmounts
                  \/ \E r \in AttemptRecord : Begins(r)
            \/ /\ form' = formSubmitted /\ ~form.formSubmitted
               /\ \E r \in AttemptRecord : Orders(r)
<1>0. /\ form \in FormRecord
      /\ dispatchAllErrors.submissionError = form.submissionError
      /\ dispatchAllErrors.formSubmitted = form.formSubmitted
      /\ formSubmitted.submissionError = form.submissionError
      /\ \A field \in {"details", "deliveryProvider"} :
           /\ removeError(field) \in FormRecord
           /\ removeError(field).submissionError = form.submissionError
           /\ removeError(field).formSubmitted = form.formSubmitted
  BY FormType
<1>1. CASE Subscribe
  <2>1. CASE form' = dispatchAllErrors /\ UNCHANGED attempts
    BY <1>0, <1>1, <2>1 DEF Subscribe
  <2>2. CASE /\ formIsValid
             /\ attempts' = Append(attempts, Posted(Attempt("DirectDebit", "posting", 0),
                                                    "DirectDebit"))
             /\ form' = formSubmitted
    <3>1. 0 \in Nat /\ "DirectDebit" \in PaymentMethods /\ "posting" \in AttemptStages
      BY DEF PaymentMethods, AttemptStages
    <3>2. Posted(Attempt("DirectDebit", "posting", 0), "DirectDebit") \in AttemptRecord
      BY <3>1, AttemptType, PostedType
    <3>3. ~form.formSubmitted /\ UNCHANGED stage
      BY <1>1 DEF Subscribe, Free
    <3> QED BY <1>0, <2>2, <3>2, <3>3 DEF Orders
  <2> QED BY <1>1, <2>1, <2>2 DEF Subscribe
<1>2. ASSUME PayNow \/ ClickPayPal
      PROVE  attempts' = attempts \/ \E r \in AttemptRecord : Begins(r)
  <2>1. secret \in Nat /\ 0 \in Nat
    BY BoundsAssumption DEF TypeOK
  <2>2. "Stripe" \in PaymentMethods /\ "PayPal" \in PaymentMethods
        /\ "confirming" \in AttemptStages /\ "window" \in AttemptStages
    BY DEF PaymentMethods, AttemptStages
  <2> DEFINE c == Attempt("Stripe", "confirming", secret)
             w == Attempt("PayPal", "window", 0)
  <2>3. /\ c \in AttemptRecord /\ c.stage = "confirming" /\ c.job = "none" /\ ~c.late
        /\ w \in AttemptRecord /\ w.stage = "window" /\ w.job = "none" /\ ~w.late
    BY <2>1, <2>2, BoundsAssumption DEF Attempt, AttemptRecord
  <2>4. \/ attempts' = attempts
        \/ attempts' = Append(attempts, c)
        \/ attempts' = Append(attempts, w)
    BY <1>2 DEF PayNow, ClickPayPal
  <2> HIDE DEF c, w
  <2> QED BY <2>3, <2>4 DEF Begins
<1>3. CASE PayNow \/ ClickPayPal
  <2>1. form' = dispatchAllErrors /\ UNCHANGED stage
    BY <1>3 DEF PayNow, ClickPayPal
  <2> QED BY <1>0, <1>2, <1>3, <2>1
<1>4. CASE \E m \in PaymentMethods : SelectMethod(m)
  BY <1>4 DEF SelectMethod, Unmounts
<1>5. ASSUME NEW p \in Postcodes \cup {Malformed}, EnterPostcode(p)
      PROVE  /\ stage' = stage /\ attempts' = attempts
             /\ form'.submissionError = form.submissionError
             /\ form'.formSubmitted = form.formSubmitted
  <2>1. form' \in {[form EXCEPT !.postCodeError = FALSE],
                   [removeError("deliveryProvider") EXCEPT !.postCodeError = FALSE]}
    BY <1>5 DEF EnterPostcode
  <2>2. ASSUME NEW f \in FormRecord
        PROVE  /\ [f EXCEPT !.postCodeError = FALSE].submissionError = f.submissionError
               /\ [f EXCEPT !.postCodeError = FALSE].formSubmitted = f.formSubmitted
    BY DEF FormRecord
  <2>3. /\ form'.submissionError = form.submissionError
        /\ form'.formSubmitted = form.formSubmitted
    BY <1>0, <2>1, <2>2
  <2> QED BY <1>5, <2>3 DEF EnterPostcode
<1>6. CASE \/ EditDetails \/ EditCard \/ SolveRecaptcha \/ ExpireRecaptcha \/ CheckAccount
           \/ EditAccount \/ \E d \in Agents : ChooseAgent(d)
  BY <1>0, <1>6 DEF EditDetails, EditCard, SolveRecaptcha, ExpireRecaptcha, CheckAccount,
                    EditAccount, ChooseAgent
<1> QED BY <1>1, <1>3, <1>4, <1>5, <1>6 DEF Customer

\* A new attempt leaves the others alone.
LEMMA BeginsGrows ==
  ASSUME attempts \in Seq(AttemptRecord), NEW r \in AttemptRecord,
         attempts' = Append(attempts, r)
  PROVE  /\ DOMAIN attempts' = DOMAIN attempts \cup {New} /\ New \notin DOMAIN attempts
         /\ attempts'[New] = r
         /\ \A b \in DOMAIN attempts : b \in DOMAIN attempts' /\ Kept(b)
BY GrowType DEF New, Kept

\* A step that is no answer to an attempt.
LEMMA OtherStep ==
  ASSUME TypeOK, Others
  PROVE  /\ stage' = stage /\ form'.submissionError = form.submissionError
         /\ New \notin DOMAIN attempts
         /\ \A b \in DOMAIN attempts : b \in DOMAIN attempts' /\ Kept(b)
         /\ NothingNew \/ BeginsNew \/ OrdersNew
<1>0. attempts \in Seq(AttemptRecord) /\ New \notin DOMAIN attempts
  BY TypeParts DEF New
<1>1. ASSUME form'.formSubmitted = form.formSubmitted, attempts' = attempts
      PROVE  /\ \A b \in DOMAIN attempts : b \in DOMAIN attempts' /\ Kept(b)
             /\ NothingNew
  BY <1>1 DEF Kept, NothingNew
<1>2. ASSUME form'.formSubmitted = form.formSubmitted, NEW r \in AttemptRecord, Begins(r)
      PROVE  /\ \A b \in DOMAIN attempts : b \in DOMAIN attempts' /\ Kept(b)
             /\ BeginsNew
  <2>1. r.stage \in {"confirming", "window"} /\ r.job = "none" /\ ~r.late
        /\ attempts' = Append(attempts, r)
    BY <1>2 DEF Begins
  <2>2. /\ DOMAIN attempts' = DOMAIN attempts \cup {New} /\ attempts'[New] = r
        /\ \A b \in DOMAIN attempts : b \in DOMAIN attempts' /\ Kept(b)
    BY <1>0, <2>1, BeginsGrows
  <2> QED BY <1>2, <2>1, <2>2 DEF BeginsNew
<1>3. ASSUME form' = formSubmitted, ~form.formSubmitted, NEW r \in AttemptRecord, Orders(r)
      PROVE  /\ \A b \in DOMAIN attempts : b \in DOMAIN attempts' /\ Kept(b)
             /\ OrdersNew
  <2>1. /\ formIsValid /\ attempts' = Append(attempts, r)
        /\ r = Posted(Attempt("DirectDebit", "posting", 0), "DirectDebit")
    BY <1>3 DEF Orders
  <2>2. 0 \in Nat /\ "DirectDebit" \in PaymentMethods /\ "posting" \in AttemptStages
    BY DEF PaymentMethods, AttemptStages
  <2> DEFINE blank == Attempt("DirectDebit", "posting", 0)
  <2>3. blank \in AttemptRecord /\ blank.job = "none"
    BY <2>2, BoundsAssumption DEF Attempt, AttemptRecord
  <2> HIDE DEF blank
  <2>4. /\ Posted(blank, "DirectDebit").stage = "posting"
        /\ Posted(blank, "DirectDebit").postCode = postCode
        /\ Posted(blank, "DirectDebit").agent = deliveryAgent.chosenAgent
        /\ Posted(blank, "DirectDebit").late = form.formSubmitted
        /\ Posted(blank, "DirectDebit").job = blank.job
    BY <2>2, <2>3, PostedType
  <2>5. /\ r.stage = "posting" /\ r.postCode = postCode /\ ~r.late
        /\ r.agent = deliveryAgent.chosenAgent /\ r.job = "none"
    BY <1>3, <2>1, <2>3, <2>4 DEF blank
  <2>6. /\ DOMAIN attempts' = DOMAIN attempts \cup {New} /\ attempts'[New] = r
        /\ \A b \in DOMAIN attempts : b \in DOMAIN attempts' /\ Kept(b)
    BY <1>0, <2>1, BeginsGrows
  <2> QED BY <1>3, <2>1, <2>5, <2>6 DEF OrdersNew
<1>4. ASSUME form'.formSubmitted = form.formSubmitted, Unmounts
      PROVE  /\ \A b \in DOMAIN attempts : b \in DOMAIN attempts' /\ Kept(b)
             /\ NothingNew
  <2>1. /\ DOMAIN attempts' = DOMAIN attempts
        /\ \A b \in DOMAIN attempts : attempts'[b] = [attempts[b] EXCEPT !.mounted = FALSE]
    BY <1>0, <1>4, UnmountType DEF Unmounts
  <2>2. \A b \in DOMAIN attempts : attempts[b] \in AttemptRecord
    BY <1>0
  <2>3. \A b \in DOMAIN attempts : Kept(b)
    BY <2>1, <2>2 DEF Kept, AttemptRecord
  <2> QED BY <1>4, <2>1, <2>3 DEF NothingNew
<1>5. CASE Customer
  BY <1>0, <1>1, <1>2, <1>3, <1>4, <1>5, CustomerForm
<1>6. CASE AccountChecked \/ \E i \in lookups : AgentsFound(i)
  <2>1. UNCHANGED <<stage, form, attempts>>
    BY <1>6 DEF AccountChecked, AgentsFound
  <2> QED BY <1>0, <1>1, <2>1
<1>7. ASSUME NEW t \in setups, SetupIntent(t)
      PROVE  /\ UNCHANGED <<stage, form>>
             /\ attempts' = attempts \/ \E r \in AttemptRecord : Begins(r)
  <2>1. t \in Nat
    BY <1>7, BoundsAssumption DEF TypeOK
  <2> DEFINE r == Attempt("Stripe", "confirming", t)
  <2>2. r \in AttemptRecord /\ r.stage = "confirming" /\ r.job = "none" /\ ~r.late
    BY <2>1, BoundsAssumption DEF Attempt, AttemptRecord, PaymentMethods, AttemptStages
  <2>3. UNCHANGED <<stage, form>> /\ (attempts' = attempts \/ attempts' = Append(attempts, r))
    BY <1>7 DEF SetupIntent
  <2> HIDE DEF r
  <2> QED BY <2>2, <2>3 DEF Begins
<1> QED BY <1>0, <1>1, <1>2, <1>5, <1>6, <1>7 DEF Others

-----------------------------------------------------------------------------
(* The page and the orders.                                                *)

\* What the stage of an attempt says of its job.
Books ==
  \A a \in DOMAIN attempts :
    /\ attempts[a].stage \in {"confirming", "declined", "unsubmitted", "window", "agreeing",
                              "abandoned", "posting", "refused"}
         => attempts[a].job = "none"
    /\ attempts[a].stage \in {"polling", "exhausted"} => attempts[a].job # "none"
    /\ attempts[a].stage = "succeeded" => attempts[a].job = "succeeded"
    /\ attempts[a].stage = "failed" => attempts[a].job = "failed"
    /\ attempts[a].late => attempts[a].stage \in Ordered

\* Only the posting of an order makes a job.
LEMMA BooksStep == TypeOK /\ Books /\ [Next]_vars => Books'
<1> SUFFICES ASSUME TypeOK, Books, [Next]_vars PROVE Books'
  OBVIOUS
<1>1. CASE Others
  <2>1. /\ \A b \in DOMAIN attempts : Kept(b)
        /\ NothingNew \/ BeginsNew \/ OrdersNew
    BY <1>1, OtherStep
  <2>2. ASSUME NEW b \in DOMAIN attempts', b \notin DOMAIN attempts
        PROVE  /\ attempts'[b].stage \in {"confirming", "window", "posting"}
               /\ attempts'[b].job = "none" /\ ~attempts'[b].late
    BY <2>1, <2>2 DEF NothingNew, BeginsNew, OrdersNew
  <2>3. ASSUME NEW b \in DOMAIN attempts
        PROVE  /\ attempts'[b].stage = attempts[b].stage /\ attempts'[b].job = attempts[b].job
               /\ attempts'[b].late = attempts[b].late
    BY <2>1 DEF Kept
  <2> QED BY <2>2, <2>3 DEF Books
<1>2. ASSUME NEW a \in DOMAIN attempts, Answer(a) PROVE Books'
  <2>1. /\ DOMAIN attempts' = DOMAIN attempts
        /\ \A b \in DOMAIN attempts : b # a => attempts'[b] = attempts[b]
        /\ GivesUp(a) \/ IsOrdered(a) \/ IsAnswered(a)
    BY <1>2, AnswerStep
  <2>2. CASE GivesUp(a)
    BY <2>1, <2>2 DEF Books, GivesUp, Turns, Ordered
  <2>3. CASE IsOrdered(a)
    BY <2>1, <2>3 DEF Books, IsOrdered, Ordered
  <2>4. CASE IsAnswered(a)
    BY <2>1, <2>4 DEF Books, IsAnswered, Turns, Ordered
  <2> QED BY <2>1, <2>2, <2>3, <2>4
<1>3. CASE UNCHANGED vars
  BY <1>3 DEF vars, Books
<1> QED BY <1>1, <1>2, <1>3 DEF Next, Others

LEMMA BooksCorrect == Spec => [](TypeOK /\ Books)
<1>1. Init => Books
  BY DEF Init, Books
<1> QED BY <1>1, TypeInit, TypeStep, BooksStep, PTL DEF Spec

\* An attempt that is over stays what it is.
LEMMA Over ==
  ASSUME TypeOK, Books, [Next]_vars, NEW b \in DOMAIN attempts,
         attempts[b].stage \in {"succeeded", "failed", "refused", "lost", "exhausted"}
  PROVE  /\ b \in DOMAIN attempts'
         /\ attempts'[b].stage = attempts[b].stage
         /\ attempts'[b].polls = attempts[b].polls
         /\ attempts[b].job # "none" => attempts'[b].job # "none"
         /\ attempts[b].job = "succeeded" => attempts'[b].job = "succeeded"
<1>1. CASE Others
  BY <1>1, OtherStep DEF Kept
<1>2. ASSUME NEW a \in DOMAIN attempts, Answer(a)
      PROVE  /\ b \in DOMAIN attempts'
             /\ attempts'[b].stage = attempts[b].stage
             /\ attempts'[b].polls = attempts[b].polls
             /\ attempts[b].job # "none" => attempts'[b].job # "none"
             /\ attempts[b].job = "succeeded" => attempts'[b].job = "succeeded"
  <2>1. /\ DOMAIN attempts' = DOMAIN attempts
        /\ b # a => attempts'[b] = attempts[b]
        /\ GivesUp(a) \/ IsOrdered(a) \/ IsAnswered(a)
    BY <1>2, AnswerStep
  <2>2. CASE b = a
    <3>1. IsAnswered(a)
      BY <2>1, <2>2 DEF GivesUp, IsOrdered
    <3>2. /\ attempts[a].job = "running"
          /\ \E j \in {"succeeded", "failed"} : Turns(a, attempts[a].stage, j)
          /\ attempts'[a].polls = attempts[a].polls
      BY <2>2, <3>1 DEF IsAnswered
    <3> QED BY <2>1, <2>2, <3>2 DEF Turns
  <2> QED BY <2>1, <2>2
<1>3. CASE UNCHANGED vars
  BY <1>3 DEF vars
<1> QED BY <1>1, <1>2, <1>3 DEF Next, Others

LEMMA PageStep == TypeOK /\ Books /\ PageIsTrue /\ [Next]_vars => PageIsTrue'
<1> SUFFICES ASSUME TypeOK, Books, PageIsTrue, [Next]_vars PROVE PageIsTrue'
  OBVIOUS
<1> DEFINE Done(b) == attempts[b].stage = "succeeded" /\ attempts[b].job = "succeeded"
           Left(b) == /\ attempts[b].stage = "exhausted" /\ attempts[b].polls = MaxPolls
                      /\ attempts[b].job # "none"
           Bad(b) == attempts[b].stage \in {"failed", "refused", "lost"}
<1>1. /\ stage = "thankyou" => \E b \in DOMAIN attempts' : Done(b)'
      /\ stage = "thankyou-pending" => \E b \in DOMAIN attempts' : Left(b)'
      /\ form.submissionError => \E b \in DOMAIN attempts' : Bad(b)'
  BY Over DEF PageIsTrue
<1>2. CASE stage' = stage /\ form'.submissionError = form.submissionError
  BY <1>1, <1>2 DEF PageIsTrue
<1>3. CASE Others
  BY <1>2, <1>3, OtherStep
<1>4. CASE UNCHANGED vars
  BY <1>2, <1>4 DEF vars
<1>5. ASSUME NEW a \in DOMAIN attempts, Answer(a) PROVE PageIsTrue'
  <2>1. /\ DOMAIN attempts' = DOMAIN attempts
        /\ GivesUp(a) \/ IsOrdered(a) \/ IsAnswered(a)
    BY <1>5, AnswerStep
  <2>2. /\ dispatchAllErrors.submissionError = form.submissionError
        /\ formSubmitted.submissionError = form.submissionError
    BY FormType
  <2>3. CASE GivesUp(a) \/ IsOrdered(a)
    BY <1>2, <2>2, <2>3 DEF GivesUp, IsOrdered
  <2>4. CASE IsAnswered(a)
    <3>1. CASE UNCHANGED <<stage, form>>
      BY <1>2, <3>1
    <3>2. CASE /\ stage' = stage
               /\ attempts'[a].stage \in {"failed", "refused", "lost"}
      BY <1>1, <2>1, <3>2 DEF PageIsTrue
    <3>3. CASE Turns(a, "succeeded", "succeeded") /\ stage' = "thankyou" /\ form' = form
      BY <1>1, <2>1, <3>3 DEF PageIsTrue, Turns
    <3>4. CASE /\ attempts[a].stage = "polling" /\ Turns(a, "exhausted", attempts[a].job)
               /\ attempts'[a].polls = MaxPolls
               /\ stage' = "thankyou-pending" /\ form' = form
      <4>1. attempts'[a].job # "none" /\ attempts'[a].stage = "exhausted"
        BY <3>4 DEF Books, Turns
      <4> QED BY <1>1, <2>1, <3>4, <4>1 DEF PageIsTrue
    <3> QED BY <2>4, <3>1, <3>2, <3>3, <3>4 DEF IsAnswered, Turns
  <2> QED BY <2>1, <2>3, <2>4
<1> QED BY <1>3, <1>4, <1>5 DEF Next, Others

\* The thank-you page means a subscription, its pending form an order whose polls ran out,
\* and the error an order that failed or was lost, for any number of orders in any order.
THEOREM PageIsTrueCorrect == Spec => []PageIsTrue
<1>1. Init => PageIsTrue
  BY DEF Init, PageIsTrue
<1> QED BY <1>1, BooksCorrect, PageStep, PTL DEF Spec

-----------------------------------------------------------------------------
(* A second purchase.                                                      *)

Overlap == \E a \in DOMAIN attempts : attempts[a].late \/ attempts[a].stage = "lost"
Waited(a) == attempts[a].stage \in {"posting", "polling", "succeeded", "exhausted"}

\* Without an overlap, one order at most is waited for, and the message covers the page.
OneOrder ==
  Overlap \/ /\ \A a, b \in DOMAIN attempts : Waited(a) /\ Waited(b) => a = b
             /\ (\E a \in DOMAIN attempts : Waited(a)) => form.formSubmitted

LEMMA OneOrderStep == TypeOK /\ Books /\ OneOrder /\ [Next]_vars => OneOrder'
<1> SUFFICES ASSUME TypeOK, Books, OneOrder, [Next]_vars, ~Overlap' PROVE OneOrder'
  BY DEF OneOrder
<1>1. CASE Others
  <2>1. /\ \A b \in DOMAIN attempts : b \in DOMAIN attempts' /\ Kept(b)
        /\ NothingNew \/ BeginsNew \/ OrdersNew
    BY <1>1, OtherStep
  <2>2. ~Overlap
    BY <2>1 DEF Overlap, Kept
  <2>3. \A b \in DOMAIN attempts : Waited(b)' <=> Waited(b)
    BY <2>1 DEF Waited, Kept
  <2>4. CASE NothingNew
    BY <2>2, <2>3, <2>4 DEF OneOrder, NothingNew
  <2>5. CASE BeginsNew
    <3>1. \A b \in DOMAIN attempts' : Waited(b)' => b \in DOMAIN attempts
      BY <2>5 DEF BeginsNew, Waited
    <3> QED BY <2>2, <2>3, <2>5, <3>1 DEF OneOrder, BeginsNew
  <2>6. CASE OrdersNew
    <3>1. formSubmitted.formSubmitted = TRUE
      BY FormType
    <3> QED BY <2>2, <2>3, <2>6, <3>1 DEF OneOrder, OrdersNew
  <2> QED BY <2>1, <2>4, <2>5, <2>6
<1>2. ASSUME NEW a \in DOMAIN attempts, Answer(a) PROVE OneOrder'
  <2>1. /\ DOMAIN attempts' = DOMAIN attempts
        /\ \A b \in DOMAIN attempts : b # a => attempts'[b] = attempts[b]
        /\ GivesUp(a) \/ IsOrdered(a) \/ IsAnswered(a)
    BY <1>2, AnswerStep
  <2>2. \A b \in DOMAIN attempts : b # a => (Waited(b)' <=> Waited(b))
    BY <2>1 DEF Waited
  <2>3. /\ dispatchAllErrors.formSubmitted = form.formSubmitted
        /\ formSubmitted.formSubmitted = TRUE
    BY FormType
  <2>4. CASE GivesUp(a)
    <3>1. ~Overlap /\ ~Waited(a)'
      BY <2>1, <2>4 DEF GivesUp, Turns, Overlap, Waited
    <3>2. form'.formSubmitted = form.formSubmitted
      BY <2>3, <2>4 DEF GivesUp
    <3> QED BY <2>1, <2>2, <3>1, <3>2 DEF OneOrder
  <2>5. CASE IsOrdered(a)
    <3>1. ~form.formSubmitted /\ form'.formSubmitted = TRUE
      BY <2>1, <2>3, <2>5 DEF IsOrdered, Overlap
    <3>2. ~attempts[a].late
      BY <2>5 DEF IsOrdered, Books, Ordered
    <3>3. ~Overlap
      BY <2>1, <2>5, <3>2 DEF IsOrdered, Overlap
    <3> QED BY <2>1, <2>2, <3>1, <3>3 DEF OneOrder
  <2>6. CASE IsAnswered(a)
    <3>1. ~Overlap
      BY <2>1, <2>6 DEF IsAnswered, Turns, Overlap
    <3>2. CASE UNCHANGED form /\ (Waited(a)' => Waited(a))
      BY <2>1, <2>2, <3>1, <3>2 DEF OneOrder
    <3>3. CASE Waited(a) /\ ~Waited(a)'
      BY <2>1, <2>2, <3>1, <3>3 DEF OneOrder
    <3> QED BY <2>1, <2>6, <3>2, <3>3 DEF IsAnswered, Turns, Waited, Overlap
  <2> QED BY <2>1, <2>4, <2>5, <2>6
<1>3. CASE UNCHANGED vars
  BY <1>3 DEF vars, OneOrder, Overlap, Waited
<1> QED BY <1>1, <1>2, <1>3 DEF Next, Others

\* Two subscriptions are bought only after a lost answer or by orders that overlap.
THEOREM SecondPurchaseCorrect == Spec => []SecondPurchase
<1>1. Init => OneOrder
  BY DEF Init, OneOrder
<1>2. TypeOK /\ Books /\ OneOrder => SecondPurchase
  <2> SUFFICES ASSUME TypeOK, Books, OneOrder, ~Overlap
               PROVE  ~(Cardinality({a \in DOMAIN attempts :
                                       attempts[a].job \in {"running", "succeeded"}}) > 1)
    BY DEF SecondPurchase, Overlap
  <2> DEFINE S == {a \in DOMAIN attempts : attempts[a].job \in {"running", "succeeded"}}
  <2>0. \A a \in S : attempts[a] \in AttemptRecord
    BY TypeParts
  <2>1. \A a \in S : attempts[a].stage \in AttemptStages
    BY <2>0 DEF AttemptRecord
  <2>2. \A a \in S : Waited(a)
    BY <2>1 DEF Books, Waited, Overlap, AttemptStages
  <2>3. \A a, b \in S : a = b
    BY <2>2 DEF OneOrder
  <2>4. S = {} \/ \E a \in S : S = {a}
    BY <2>3
  <2>5. Cardinality(S) \in {0, 1}
    BY <2>4, FS_EmptySet, FS_Singleton
  <2> QED BY <2>5
<1> QED BY <1>1, <1>2, BooksCorrect, OneOrderStep, PTL DEF Spec

-----------------------------------------------------------------------------
(* Delivery.                                                               *)

\* The postcode in the form is the only one that was typed.
TypedOnce == \A i \in 1..(Len(entered) - 1) : entered[i] \notin Postcodes

\* The form as it is would be delivered, at the weekend too.
CanDeliver ==
  /\ IF deliveryAgent.chosenAgent = NoAgent THEN postCode \in Inside
     ELSE postCode \in Postcodes /\ deliveryAgent.chosenAgent \in Served[postCode]
  /\ offer.weekendOnly => postCode \in Inside

\* The agents in the form are those of its postcode, or none yet.
AgentsMatch ==
  IF postCode \in Postcodes \ Inside
  THEN /\ deliveryAgent.response \in {{}, Served[postCode]}
       /\ deliveryAgent.chosenAgent \in Served[postCode] \cup {NoAgent}
  ELSE deliveryAgent.response = {} /\ deliveryAgent.chosenAgent = NoAgent

DeliveredAs(a) ==
  Delivers(attempts[a]) /\ (offer.weekendOnly => attempts[a].postCode \in Inside)

Agreeing(a) == attempts[a].stage \in {"window", "agreeing"}

LookUpsOutside == \A i \in lookups : entered[i] \in Postcodes \ Inside

Delivery ==
  /\ LookUpsOutside
  /\ isHomeDelivery /\ TypedOnce =>
       /\ AgentsMatch
       /\ payPalEnabled => CanDeliver
       /\ \A a \in DOMAIN attempts :
            /\ Agreeing(a) => CanDeliver
            /\ attempts[a].stage \in Ordered => DeliveredAs(a)

\* The rules of the form are the server's when the agents match.
LEMMA RulesDeliver ==
  ASSUME TypeOK, isHomeDelivery, AgentsMatch,
         NEW v \in BOOLEAN, isValid(v, postCode, deliveryAgent)
  PROVE  CanDeliver
<1>1. /\ deliveryAgent.response # {} => deliveryAgent.chosenAgent # NoAgent
      /\ ~postCodeError(postCode, deliveryAgent)
  BY DEF isValid, deliveryErrors
<1>2. postCode \in Postcodes \cup {Malformed}
  BY PostCodeType
<1>3. CASE postCode \in Inside
  <2>1. deliveryAgent.chosenAgent = NoAgent
    BY <1>3, DeliveryAssumption DEF AgentsMatch
  <2> QED BY <1>3, <2>1 DEF CanDeliver
<1>4. CASE postCode \notin Inside
  <2>1. /\ postCode # Malformed /\ deliveryAgent.response # {} /\ ~offer.weekendOnly
    BY <1>1, <1>4 DEF postCodeError
  <2>2. postCode \in Postcodes \ Inside /\ deliveryAgent.chosenAgent # NoAgent
    BY <1>1, <1>2, <1>4, <2>1
  <2>3. deliveryAgent.chosenAgent \in Served[postCode]
    BY <2>2 DEF AgentsMatch
  <2> QED BY <2>1, <2>2, <2>3 DEF CanDeliver
<1> QED BY <1>3, <1>4

\* What is ordered, begun or kept when the delivery in the form stays as it is.
LEMMA SameDelivery ==
  ASSUME TypeOK, Delivery, Next,
         UNCHANGED <<offer, entered, lookups, deliveryAgent>>,
         isHomeDelivery /\ TypedOnce /\ payPalEnabled' => CanDeliver,
         isHomeDelivery /\ TypedOnce =>
           \A a \in DOMAIN attempts' :
             /\ Agreeing(a)' => CanDeliver
             /\ attempts'[a].stage \in Ordered => DeliveredAs(a)'
  PROVE  Delivery'
<1>1. /\ isHomeDelivery' = isHomeDelivery /\ TypedOnce' = TypedOnce
      /\ CanDeliver' = CanDeliver /\ AgentsMatch' = AgentsMatch
      /\ LookUpsOutside' = LookUpsOutside
  BY DEF isHomeDelivery, TypedOnce, CanDeliver, AgentsMatch, postCode, LookUpsOutside
<1> QED BY <1>1 DEF Delivery

\* An attempt that is kept is delivered as before.
LEMMA KeptDelivery ==
  ASSUME NEW b \in DOMAIN attempts, offer' = offer, Kept(b)
  PROVE  /\ Agreeing(b)' <=> Agreeing(b)
         /\ DeliveredAs(b)' <=> DeliveredAs(b)
BY DEF Kept, Agreeing, DeliveredAs, Delivers

\* So is an order that copies a form that can be delivered.
LEMMA NewDelivery ==
  ASSUME NEW b \in DOMAIN attempts', offer' = offer, CanDeliver,
         attempts'[b].postCode = postCode, attempts'[b].agent = deliveryAgent.chosenAgent
  PROVE  DeliveredAs(b)'
BY DEF CanDeliver, DeliveredAs, Delivers

\* A window opens from a PayPal button that is enabled.
LEMMA WindowOpens ==
  ASSUME TypeOK, Others, NEW b \in DOMAIN attempts', b \notin DOMAIN attempts,
         attempts'[b].stage = "window"
  PROVE  payPalEnabled /\ UNCHANGED payPalEnabled
<1>0. attempts \in Seq(AttemptRecord)
  BY TypeParts
<1>1. attempts' # attempts
  OBVIOUS
<1>2. ASSUME NEW s, attempts' = Append(attempts, Attempt("Stripe", "confirming", s))
      PROVE  FALSE
  <2>1. DOMAIN attempts' = DOMAIN attempts \cup {Len(attempts) + 1}
        /\ attempts'[Len(attempts) + 1] = Attempt("Stripe", "confirming", s)
    BY <1>0, <1>2
  <2>2. attempts'[b].stage = "confirming"
    BY <2>1 DEF Attempt
  <2> QED BY <2>2
<1>3. CASE Subscribe
  <2>1. attempts' = Append(attempts, Posted(Attempt("DirectDebit", "posting", 0),
                                            "DirectDebit"))
    BY <1>1, <1>3 DEF Subscribe
  <2>2. 0 \in Nat /\ "DirectDebit" \in PaymentMethods /\ "posting" \in AttemptStages
    BY DEF PaymentMethods, AttemptStages
  <2> DEFINE r == Posted(Attempt("DirectDebit", "posting", 0), "DirectDebit")
  <2>3. r \in AttemptRecord /\ r.stage = "posting"
    BY <2>2, AttemptType, PostedType
  <2> HIDE DEF r
  <2>4. attempts'[b] = r
    BY <1>0, <2>1, <2>3 DEF r
  <2> QED BY <2>3, <2>4
<1>4. CASE PayNow
  <2>1. attempts' = Append(attempts, Attempt("Stripe", "confirming", secret))
    BY <1>1, <1>4 DEF PayNow
  <2> QED BY <1>2, <2>1
<1>5. CASE \E t \in setups : SetupIntent(t)
  <2>1. PICK t \in setups : attempts' = Append(attempts, Attempt("Stripe", "confirming", t))
    BY <1>1, <1>5 DEF SetupIntent
  <2> QED BY <1>2, <2>1
<1>6. CASE ClickPayPal
  BY <1>6 DEF ClickPayPal
<1>7. CASE \E m \in PaymentMethods : SelectMethod(m)
  <2>1. Unmounts
    BY <1>7 DEF SelectMethod, Unmounts
  <2>2. DOMAIN attempts' = DOMAIN attempts
    BY <2>1 DEF Unmounts
  <2> QED BY <2>2
<1>8. CASE \/ EditDetails \/ EditCard \/ SolveRecaptcha \/ ExpireRecaptcha \/ CheckAccount
           \/ EditAccount \/ AccountChecked
           \/ \E p \in Postcodes \cup {Malformed} : EnterPostcode(p)
           \/ \E d \in Agents : ChooseAgent(d)
           \/ \E i \in lookups : AgentsFound(i)
  BY <1>1, <1>8 DEF EditDetails, EditCard, SolveRecaptcha, ExpireRecaptcha, CheckAccount,
                    EditAccount, EnterPostcode, ChooseAgent, AgentsFound, AccountChecked
<1> QED BY <1>3, <1>4, <1>5, <1>6, <1>7, <1>8 DEF Others, Customer

\* When the delivery in the form stays, the attempts of a step that answers none of them.
LEMMA OtherDelivery ==
  ASSUME TypeOK, Delivery, Others, UNCHANGED <<offer, entered, lookups, deliveryAgent>>,
         isHomeDelivery /\ TypedOnce /\ payPalEnabled' => CanDeliver
  PROVE  Delivery'
<1>1. /\ \A b \in DOMAIN attempts : b \in DOMAIN attempts' /\ Kept(b)
      /\ NothingNew \/ BeginsNew \/ OrdersNew
  BY OtherStep
<1>2. ASSUME isHomeDelivery, TypedOnce, NEW b \in DOMAIN attempts'
      PROVE  /\ Agreeing(b)' => CanDeliver
             /\ attempts'[b].stage \in Ordered => DeliveredAs(b)'
  <2>1. CASE b \in DOMAIN attempts
    <3>1. /\ Agreeing(b)' <=> Agreeing(b)
          /\ DeliveredAs(b)' <=> DeliveredAs(b)
          /\ attempts'[b].stage = attempts[b].stage
      BY <1>1, <2>1, KeptDelivery DEF Kept
    <3> QED BY <1>2, <2>1, <3>1 DEF Delivery
  <2>2. CASE b \notin DOMAIN attempts /\ attempts'[b].stage = "window"
    <3>1. payPalEnabled
      BY <2>2, WindowOpens
    <3>2. CanDeliver
      BY <1>2, <3>1 DEF Delivery
    <3> QED BY <2>2, <3>2 DEF Ordered
  <2>3. CASE b \notin DOMAIN attempts /\ attempts'[b].stage # "window"
    <3>1. CASE BeginsNew
      <4>1. attempts'[b].stage = "confirming"
        BY <2>3, <3>1 DEF BeginsNew
      <4> QED BY <4>1 DEF Agreeing, Ordered
    <3>2. CASE OrdersNew
      <4>1. /\ formIsValid /\ attempts'[b].stage = "posting"
            /\ attempts'[b].postCode = postCode
            /\ attempts'[b].agent = deliveryAgent.chosenAgent
        BY <2>3, <3>2 DEF OrdersNew
      <4>2. CanDeliver
        BY <1>2, <4>1, RulesDeliver, TypeParts DEF Delivery, formIsValid, RestOK
      <4> QED BY <4>1, <4>2, NewDelivery DEF Agreeing
    <3> QED BY <1>1, <2>3, <3>1, <3>2 DEF NothingNew
  <2> QED BY <2>1, <2>2, <2>3
<1>3. Next
  BY DEF Next, Others
<1> QED BY <1>2, <1>3, SameDelivery

\* A postcode that is typed.
LEMMA EnterDelivery ==
  ASSUME TypeOK, Delivery, NEW p \in Postcodes \cup {Malformed}, EnterPostcode(p)
  PROVE  Delivery'
<1>0. /\ entered \in Seq(Postcodes \cup {Malformed})
      /\ lookups \subseteq {i \in DOMAIN entered : entered[i] \in Postcodes}
  BY TypeParts DEF RestOK
<1>1. /\ entered' = Append(entered, p) /\ UNCHANGED <<offer, attempts, valid>>
      /\ isHomeDelivery
      /\ payPalEnabled' => isValid(valid, p, deliveryAgent')
  BY DEF EnterPostcode, enableOrDisableForm
<1>2. /\ Len(entered') = Len(entered) + 1 /\ entered'[Len(entered')] = p
      /\ Len(entered) \in Nat /\ DOMAIN entered = 1..Len(entered)
      /\ \A i \in DOMAIN entered : entered'[i] = entered[i]
  BY <1>0, <1>1
<1>3. postCode' = p
  BY <1>1, <1>2 DEF postCode
<1>4. LookUpsOutside'
  <2>1. CASE p \in Postcodes \ Inside
    <3>1. lookups' = lookups \cup {Len(entered')}
      BY <2>1 DEF EnterPostcode
    <3> QED BY <1>0, <1>2, <2>1, <3>1 DEF Delivery, LookUpsOutside
  <2>2. CASE p \notin Postcodes \ Inside
    <3>1. lookups' = lookups
      BY <2>2 DEF EnterPostcode
    <3> QED BY <1>0, <1>2, <3>1 DEF Delivery, LookUpsOutside
  <2> QED BY <2>1, <2>2
<1>5. ASSUME TypedOnce'
      PROVE  /\ TypedOnce /\ postCode \notin Postcodes
  <2>1. \A i \in 1..Len(entered) : entered[i] \notin Postcodes
    BY <1>2, <1>5 DEF TypedOnce
  <2>2. TypedOnce
    BY <1>2, <2>1 DEF TypedOnce
  <2>3. postCode \notin Postcodes
    <3>1. CASE entered = <<>>
      BY <3>1, DeliveryAssumption DEF postCode
    <3>2. CASE entered # <<>>
      <4>1. Len(entered) \in 1..Len(entered)
        BY <1>0, <3>2
      <4> QED BY <2>1, <3>2, <4>1 DEF postCode
    <3> QED BY <3>1, <3>2
  <2> QED BY <2>2, <2>3
<1>6. ASSUME TypedOnce'
      PROVE  /\ ~CanDeliver
             /\ AgentsMatch'
             /\ payPalEnabled' => CanDeliver'
  <2>1. TypedOnce /\ postCode \notin Postcodes /\ AgentsMatch
    BY <1>1, <1>5, <1>6 DEF Delivery
  <2>2. deliveryAgent.response = {} /\ deliveryAgent.chosenAgent = NoAgent
    BY <2>1 DEF AgentsMatch
  <2>3. ~CanDeliver
    BY <2>1, <2>2, DeliveryAssumption DEF CanDeliver
  <2>4. /\ deliveryAgent'.response = {} /\ deliveryAgent'.chosenAgent = NoAgent
    BY <2>2 DEF EnterPostcode
  <2>5. AgentsMatch'
    BY <1>3, <2>4 DEF AgentsMatch
  <2>6. ASSUME payPalEnabled' PROVE CanDeliver'
    <3>1. ~postCodeError(p, deliveryAgent')
      BY <1>1, <2>6 DEF isValid
    <3>2. p \in Inside
      BY <1>1, <2>4, <3>1 DEF postCodeError
    <3> QED BY <1>3, <2>4, <3>2 DEF CanDeliver
  <2> QED BY <2>3, <2>5, <2>6
<1>7. ASSUME TypedOnce', NEW a \in DOMAIN attempts'
      PROVE  /\ ~Agreeing(a)'
             /\ attempts'[a].stage \in Ordered => DeliveredAs(a)'
  <2>1. /\ ~Agreeing(a)
        /\ attempts[a].stage \in Ordered => DeliveredAs(a)
    BY <1>1, <1>5, <1>6, <1>7 DEF Delivery
  <2> QED BY <1>1, <2>1 DEF Agreeing, DeliveredAs, Delivers
<1> QED BY <1>4, <1>6, <1>7 DEF Delivery

\* Agents that change, and still match: what could be delivered still can.
LEMMA AgentsDelivery ==
  ASSUME TypeOK, Delivery, UNCHANGED <<offer, entered, attempts>>, lookups' \subseteq lookups,
         isHomeDelivery /\ TypedOnce => /\ AgentsMatch'
                                        /\ CanDeliver => CanDeliver'
                                        /\ payPalEnabled' => CanDeliver'
  PROVE  Delivery'
<1>1. /\ isHomeDelivery' = isHomeDelivery /\ TypedOnce' = TypedOnce /\ LookUpsOutside'
  BY DEF isHomeDelivery, TypedOnce, Delivery, LookUpsOutside
<1>2. ASSUME NEW a \in DOMAIN attempts
      PROVE  /\ Agreeing(a)' <=> Agreeing(a)
             /\ DeliveredAs(a)' <=> DeliveredAs(a)
  BY DEF Agreeing, DeliveredAs, Delivers
<1> QED BY <1>1, <1>2 DEF Delivery

\* An agent that is chosen.
LEMMA ChooseDelivery ==
  ASSUME TypeOK, Delivery, NEW d \in Agents, ChooseAgent(d) PROVE Delivery'
<1>1. /\ UNCHANGED <<offer, entered, attempts, lookups, valid>>
      /\ d \in deliveryAgent.response
      /\ deliveryAgent' = [deliveryAgent EXCEPT !.chosenAgent = d]
      /\ payPalEnabled' => isValid(valid, postCode, deliveryAgent')
  BY DEF ChooseAgent, enableOrDisableForm
<1>2. /\ deliveryAgent'.response = deliveryAgent.response
      /\ deliveryAgent'.chosenAgent = d
  BY <1>1, TypeParts DEF RestOK
<1>3. postCode' = postCode /\ d # NoAgent
  BY <1>1, DeliveryAssumption DEF postCode
<1>4. ASSUME isHomeDelivery, TypedOnce
      PROVE  /\ AgentsMatch'
             /\ CanDeliver => CanDeliver'
             /\ payPalEnabled' => CanDeliver'
  <2>1. AgentsMatch
    BY <1>4 DEF Delivery
  <2>2. postCode \in Postcodes \ Inside /\ d \in Served[postCode]
    BY <1>1, <2>1 DEF AgentsMatch
  <2>3. AgentsMatch'
    BY <1>2, <1>3, <2>1, <2>2 DEF AgentsMatch
  <2>4. CanDeliver => CanDeliver'
    BY <1>1, <1>2, <1>3, <2>2 DEF CanDeliver
  <2>5. ASSUME payPalEnabled' PROVE CanDeliver'
    <3>1. ~postCodeError(postCode, deliveryAgent')
      BY <1>1, <2>5 DEF isValid
    <3>2. ~offer.weekendOnly
      BY <1>4, <2>2, <3>1 DEF postCodeError
    <3> QED BY <1>1, <1>2, <1>3, <2>2, <3>2 DEF CanDeliver
  <2> QED BY <2>3, <2>4, <2>5
<1> QED BY <1>1, <1>4, AgentsDelivery

\* Agents that are found.
LEMMA FoundDelivery ==
  ASSUME TypeOK, Delivery, NEW i \in lookups, AgentsFound(i) PROVE Delivery'
<1>1. /\ UNCHANGED <<offer, entered, attempts, payPalEnabled>> /\ lookups' \subseteq lookups
  BY DEF AgentsFound
<1>2. postCode' = postCode
  BY <1>1 DEF postCode
<1>3. ASSUME isHomeDelivery, TypedOnce
      PROVE  /\ AgentsMatch'
             /\ CanDeliver => CanDeliver'
             /\ payPalEnabled' => CanDeliver'
  <2>1. AgentsMatch /\ (payPalEnabled => CanDeliver) /\ entered[i] \in Postcodes \ Inside
    BY <1>3 DEF Delivery, LookUpsOutside
  <2>2. entered[i] = postCode
    <3>1. /\ entered \in Seq(Postcodes \cup {Malformed}) /\ i \in 1..Len(entered)
      BY TypeParts DEF RestOK
    <3>2. i \notin 1..(Len(entered) - 1)
      BY <1>3, <2>1 DEF TypedOnce
    <3>3. i = Len(entered) /\ entered # <<>>
      BY <3>1, <3>2
    <3> QED BY <3>3 DEF postCode
  <2>3. Served[postCode] \subseteq Agents /\ NoAgent \notin Agents
    BY <2>1, <2>2, DeliveryAssumption
  <2>4. CASE UNCHANGED deliveryAgent
    BY <1>1, <1>2, <2>1, <2>4 DEF AgentsMatch, CanDeliver
  <2>5. ASSUME NEW found \in {Served[entered[i]], {}},
               deliveryAgent' =
                 [response |-> found,
                  chosenAgent |-> IF \E d \in Agents : found = {d}
                                  THEN CHOOSE d \in Agents : found = {d}
                                  ELSE deliveryAgent.chosenAgent]
        PROVE  /\ AgentsMatch'
               /\ CanDeliver => CanDeliver'
    <3>1. deliveryAgent'.response \in {{}, Served[postCode]}
      BY <2>2, <2>5
    <3>2. CASE \E d \in Agents : found = {d}
      <4>1. PICK d \in Agents : found = {d} /\ deliveryAgent'.chosenAgent = d
        BY <2>5, <3>2
      <4>2. d \in Served[postCode] /\ d # NoAgent
        BY <2>2, <2>3, <2>5, <4>1
      <4>3. AgentsMatch'
        BY <1>2, <2>1, <2>2, <3>1, <4>1, <4>2 DEF AgentsMatch
      <4>4. CanDeliver => CanDeliver'
        BY <1>1, <1>2, <2>1, <2>2, <4>1, <4>2 DEF CanDeliver
      <4> QED BY <4>3, <4>4
    <3>3. CASE ~\E d \in Agents : found = {d}
      <4>1. deliveryAgent'.chosenAgent = deliveryAgent.chosenAgent
        BY <2>5, <3>3
      <4> QED BY <1>1, <1>2, <2>1, <2>2, <3>1, <4>1 DEF AgentsMatch, CanDeliver
    <3> QED BY <3>2, <3>3
  <2> QED BY <1>1, <2>1, <2>4, <2>5 DEF AgentsFound
<1> QED BY <1>1, <1>3, AgentsDelivery

\* An answer to an order, and PayPal's.
LEMMA AnswerDelivery ==
  ASSUME TypeOK, Delivery, NEW a \in DOMAIN attempts, Answer(a) PROVE Delivery'
<1>1. UNCHANGED <<offer, entered, lookups, deliveryAgent, payPalEnabled>>
  BY DEF Answer, Confirmed, WindowCloses, Agreed, Created, JobEnds, Poll, Answered
<1>2. /\ DOMAIN attempts' = DOMAIN attempts
      /\ \A b \in DOMAIN attempts : b # a => attempts'[b] = attempts[b]
      /\ GivesUp(a) \/ IsOrdered(a) \/ IsAnswered(a)
  BY AnswerStep
<1>3. ASSUME isHomeDelivery, TypedOnce, NEW b \in DOMAIN attempts'
      PROVE  /\ Agreeing(b)' => CanDeliver
             /\ attempts'[b].stage \in Ordered => DeliveredAs(b)'
  <2>0. b \in DOMAIN attempts
    BY <1>2, <1>3
  <2>1. CASE b # a
    <3>1. /\ Agreeing(b)' <=> Agreeing(b)
          /\ DeliveredAs(b)' <=> DeliveredAs(b)
          /\ attempts'[b] = attempts[b]
      BY <1>1, <1>2, <2>0, <2>1 DEF Agreeing, DeliveredAs, Delivers
    <3> QED BY <1>3, <2>0, <3>1 DEF Delivery
  <2>2. CASE b = a /\ GivesUp(a)
    BY <1>3, <2>0, <2>2 DEF GivesUp, Agreeing, Ordered, Delivery
  <2>3. CASE b = a /\ IsOrdered(a)
    <3>1. CanDeliver
      BY <1>3, <2>0, <2>3, RulesDeliver, TypeParts
         DEF IsOrdered, Agreeing, Delivery, formIsValid, RestOK
    <3> QED BY <1>1, <1>3, <2>3, <3>1, NewDelivery DEF IsOrdered, Agreeing
  <2>4. CASE b = a /\ IsAnswered(a)
    <3>1. /\ attempts'[a].postCode = attempts[a].postCode
          /\ attempts'[a].agent = attempts[a].agent
      BY <2>4 DEF IsAnswered, Turns
    <3>2. DeliveredAs(a)' <=> DeliveredAs(a)
      BY <1>1, <3>1 DEF DeliveredAs, Delivers
    <3>3. \/ attempts[a].stage \in Ordered /\ attempts'[a].stage \in Ordered
          \/ attempts'[a].stage = attempts[a].stage
      BY <2>4 DEF IsAnswered, Turns, Ordered
    <3>4. Agreeing(a)' => Agreeing(a)
      BY <3>3 DEF Agreeing, Ordered
    <3> QED BY <1>3, <2>0, <2>4, <3>2, <3>3, <3>4 DEF Delivery
  <2> QED BY <1>2, <2>1, <2>2, <2>3, <2>4
<1>4. Next /\ (isHomeDelivery /\ TypedOnce /\ payPalEnabled' => CanDeliver)
  BY <1>1 DEF Next, Delivery
<1> QED BY <1>1, <1>3, <1>4, SameDelivery

LEMMA DeliveryStep == TypeOK /\ Delivery /\ [Next]_vars => Delivery'
<1> SUFFICES ASSUME TypeOK, Delivery, [Next]_vars PROVE Delivery'
  OBVIOUS
<1>1. ASSUME NEW p \in Postcodes \cup {Malformed}, EnterPostcode(p) PROVE Delivery'
  BY <1>1, EnterDelivery
<1>2. ASSUME NEW d \in Agents, ChooseAgent(d) PROVE Delivery'
  BY <1>2, ChooseDelivery
<1>3. ASSUME NEW i \in lookups, AgentsFound(i) PROVE Delivery'
  BY <1>3, FoundDelivery
<1>4. ASSUME NEW a \in DOMAIN attempts, Answer(a) PROVE Delivery'
  BY <1>4, AnswerDelivery
<1>5. ASSUME EditDetails \/ \E m \in PaymentMethods : SelectMethod(m) PROVE Delivery'
  <2>1. Others /\ UNCHANGED <<offer, entered, lookups, deliveryAgent>>
    BY <1>5 DEF Others, Customer, EditDetails, SelectMethod
  <2>2. payPalEnabled' => isValid(TRUE, postCode, deliveryAgent)
    BY <1>5 DEF EditDetails, SelectMethod, enableOrDisableForm, formIsValid, isValid,
                deliveryErrors
  <2>3. ASSUME isHomeDelivery, TypedOnce, payPalEnabled' PROVE CanDeliver
    <3>1. AgentsMatch
      BY <2>3 DEF Delivery
    <3> QED BY <2>2, <2>3, <3>1, RulesDeliver
  <2> QED BY <2>1, <2>3, OtherDelivery
<1>6. ASSUME \/ EditCard \/ SolveRecaptcha \/ ExpireRecaptcha \/ PayNow \/ CheckAccount
             \/ EditAccount \/ Subscribe \/ ClickPayPal \/ AccountChecked
             \/ \E t \in setups : SetupIntent(t)
      PROVE  Delivery'
  <2>1. Others /\ UNCHANGED <<offer, entered, lookups, deliveryAgent, payPalEnabled>>
    BY <1>6 DEF Others, Customer, EditCard, SolveRecaptcha, ExpireRecaptcha, PayNow,
                CheckAccount, EditAccount, Subscribe, ClickPayPal, AccountChecked, SetupIntent
  <2>2. isHomeDelivery /\ TypedOnce /\ payPalEnabled' => CanDeliver
    BY <2>1 DEF Delivery
  <2> QED BY <2>1, <2>2, OtherDelivery
<1>7. CASE UNCHANGED vars
  BY <1>7 DEF vars, Delivery, LookUpsOutside, isHomeDelivery, TypedOnce, AgentsMatch,
              CanDeliver, postCode, Agreeing, DeliveredAs, Delivers
<1> QED BY <1>1, <1>2, <1>3, <1>4, <1>5, <1>6, <1>7 DEF Next, Customer

\* An order the server must turn down, or a weekend's outside the M25, needs a postcode
\* that was replaced, for any places and agents.
THEOREM OrdersAreDeliveredCorrect == Spec => []OrdersAreDelivered
<1>1. Init => Delivery
  <2> SUFFICES ASSUME Init PROVE Delivery
    OBVIOUS
  <2>1. postCode \notin Postcodes
    BY DeliveryAssumption DEF Init, postCode
  <2> QED BY <2>1 DEF Init, Delivery, LookUpsOutside, AgentsMatch
<1>2. Delivery => OrdersAreDelivered
  BY DEF Delivery, TypedOnce, DeliveredAs, OrdersAreDelivered
<1> QED BY <1>1, <1>2, TypeInit, TypeStep, DeliveryStep, PTL DEF Spec

-----------------------------------------------------------------------------
(* Payments and presses.                                                   *)

\* The attempts beyond the presses, negative when a press still waits for its secret.
Excess == Len(attempts) - presses

\* A payment that waits was pressed for, or follows a recaptcha solved again.
Pressed ==
  /\ IsFiniteSet(setups) /\ Cardinality(setups) <= solved
  /\ Excess <= 0 \/ Excess + Cardinality(setups) < solved
  /\ card.paymentWaiting => Excess < 0 \/ Cardinality(setups) < solved

\* The numbers are integers.
LEMMA Numbers ==
  ASSUME TypeOK
  PROVE  /\ Len(attempts) \in Nat /\ presses \in Nat /\ solved \in Nat
         /\ setups \subseteq 1..solved
         /\ IsFiniteSet(setups) /\ Cardinality(setups) \in Nat
<1>1. Len(attempts) \in Nat /\ presses \in Nat /\ solved \in Nat /\ setups \subseteq 1..solved
  BY TypeParts, OfferBounds DEF RestOK
<1>2. IsFiniteSet(1..solved)
  BY <1>1, FS_Interval
<1>3. IsFiniteSet(setups)
  BY <1>1, <1>2, FS_Subset
<1> QED BY <1>1, <1>3, FS_CardinalityType

LEMMA PressedStep == TypeOK /\ Pressed /\ [Next]_vars => Pressed'
<1> SUFFICES ASSUME TypeOK, Pressed, [Next]_vars PROVE Pressed'
  OBVIOUS
<1>0. /\ Len(attempts) \in Nat /\ presses \in Nat /\ solved \in Nat
      /\ Cardinality(setups) \in Nat /\ setups \subseteq 1..solved
      /\ attempts \in Seq(AttemptRecord)
      /\ card \in CardRecord
  BY Numbers, TypeParts DEF RestOK
<1>1. ASSUME Len(attempts') = Len(attempts), UNCHANGED <<presses, solved, setups>>,
             card'.paymentWaiting => card.paymentWaiting
      PROVE  Pressed'
  BY <1>1 DEF Pressed, Excess
<1>2. CASE SolveRecaptcha
  <2>1. solved' = solved + 1 /\ UNCHANGED <<attempts, presses>>
    BY <1>2 DEF SolveRecaptcha
  <2>2. card'.paymentWaiting = card.paymentWaiting
    BY <1>0, <1>2 DEF SolveRecaptcha, CardRecord
  <2>3. CASE setups' = setups
    BY <1>0, <2>1, <2>2, <2>3 DEF Pressed, Excess
  <2>4. CASE setups' = setups \cup {solved'}
    <3>1. solved' \notin setups
      BY <1>0, <2>1
    <3>2. IsFiniteSet(setups') /\ Cardinality(setups') = Cardinality(setups) + 1
      BY <2>4, <3>1, FS_AddElement DEF Pressed
    <3> QED BY <1>0, <2>1, <2>2, <3>2 DEF Pressed, Excess
  <2> QED BY <1>2, <2>3, <2>4 DEF SolveRecaptcha
<1>3. CASE PayNow
  <2>1. UNCHANGED <<solved, setups>>
    BY <1>3 DEF PayNow
  <2> DEFINE checked == [card EXCEPT !.cardErrors = ~card.complete,
                                     !.recaptchaError = @ \/ token = 0]
  <2>2. checked \in CardRecord /\ checked.paymentWaiting = card.paymentWaiting
    BY <1>0, TypeParts DEF RestOK, CardRecord
  <2>3. CASE card' = checked /\ UNCHANGED <<attempts, presses>>
    BY <1>1, <2>1, <2>2, <2>3
  <2>4. CASE /\ presses' = presses + 1 /\ card' = [checked EXCEPT !.disabled = TRUE]
             /\ attempts' = Append(attempts, Attempt("Stripe", "confirming", secret))
    <3>1. Len(attempts') = Len(attempts) + 1
      BY <1>0, <2>4
    <3>2. card'.paymentWaiting = card.paymentWaiting
      BY <2>2, <2>4 DEF CardRecord
    <3> QED BY <1>0, <2>1, <2>4, <3>1, <3>2 DEF Pressed, Excess
  <2>5. CASE presses' = presses + 1 /\ UNCHANGED attempts
    BY <1>0, <2>1, <2>5 DEF Pressed, Excess
  <2> QED BY <1>3, <2>3, <2>4, <2>5 DEF PayNow
<1>4. CASE Subscribe \/ ClickPayPal
  <2>1. UNCHANGED <<solved, setups, card>>
    BY <1>4 DEF Subscribe, ClickPayPal
  <2>2. \/ UNCHANGED <<attempts, presses>>
        \/ Len(attempts') = Len(attempts) + 1 /\ presses' = presses + 1
    BY <1>0, <1>4 DEF Subscribe, ClickPayPal
  <2> QED BY <1>0, <2>1, <2>2 DEF Pressed, Excess
<1>5. ASSUME NEW t \in setups, SetupIntent(t) PROVE Pressed'
  <2>1. setups' = setups \ {t} /\ UNCHANGED <<presses, solved, card>>
    BY <1>5 DEF SetupIntent
  <2>2. IsFiniteSet(setups') /\ Cardinality(setups') = Cardinality(setups) - 1
    BY <2>1, FS_RemoveElement DEF Pressed
  <2>3. CASE attempts' = attempts
    BY <1>0, <2>1, <2>2, <2>3 DEF Pressed, Excess
  <2>4. CASE /\ card.paymentWaiting
             /\ attempts' = Append(attempts, Attempt("Stripe", "confirming", t))
    <3>1. Len(attempts') = Len(attempts) + 1
      BY <1>0, <2>4
    <3> QED BY <1>0, <2>1, <2>2, <2>4, <3>1 DEF Pressed, Excess
  <2> QED BY <1>5, <2>3, <2>4 DEF SetupIntent
<1>6. ASSUME NEW m \in PaymentMethods, SelectMethod(m) PROVE Pressed'
  <2>1. Len(attempts') = Len(attempts)
    BY <1>0, <1>6, UnmountType DEF SelectMethod
  <2>2. ~card'.paymentWaiting /\ UNCHANGED <<presses, solved, setups>>
    BY <1>6 DEF SelectMethod, UnusedCard
  <2> QED BY <1>1, <2>1, <2>2
<1>7. CASE EditCard
  <2>1. card'.paymentWaiting = card.paymentWaiting
    BY <1>0, <1>7 DEF EditCard, CardRecord
  <2> QED BY <1>1, <1>7, <2>1 DEF EditCard
<1>8. CASE \/ EditDetails \/ ExpireRecaptcha \/ CheckAccount \/ EditAccount \/ AccountChecked
           \/ \E p \in Postcodes \cup {Malformed} : EnterPostcode(p)
           \/ \E d \in Agents : ChooseAgent(d)
           \/ \E i \in lookups : AgentsFound(i)
  <2>1. UNCHANGED <<attempts, presses, solved, setups, card>>
    BY <1>8 DEF EditDetails, ExpireRecaptcha, CheckAccount, EditAccount, AccountChecked,
                EnterPostcode, ChooseAgent, AgentsFound
  <2> QED BY <1>1, <2>1
<1>9. ASSUME NEW a \in DOMAIN attempts, Answer(a) PROVE Pressed'
  <2>1. Len(attempts') = Len(attempts)
    BY <1>0, <1>9, Moved, PutType DEF Moves
  <2>2. UNCHANGED <<presses, solved, setups>>
    BY <1>9 DEF Answer, Confirmed, WindowCloses, Agreed, Created, JobEnds, Poll, Answered
  <2>3. card'.paymentWaiting => card.paymentWaiting
    <3>1. CASE Confirmed(a)
      BY <1>0, <3>1 DEF Confirmed, CardRecord
    <3>2. CASE ~Confirmed(a)
      BY <1>9, <3>2 DEF Answer, WindowCloses, Agreed, Created, JobEnds, Poll, Answered
    <3> QED BY <3>1, <3>2
  <2> QED BY <1>1, <2>1, <2>2, <2>3
<1>10. CASE UNCHANGED vars
  BY <1>1, <1>10 DEF vars
<1> QED BY <1>2, <1>3, <1>4, <1>5, <1>6, <1>7, <1>8, <1>9, <1>10 DEF Next, Customer

\* A payment needs a press, and those beyond the presses a recaptcha solved again.
THEOREM PaidByAPressCorrect == Spec => []PaidByAPress
<1>1. Init => Pressed
  <2> SUFFICES ASSUME Init PROVE Pressed
    OBVIOUS
  <2>1. IsFiniteSet(setups) /\ Cardinality(setups) = 0
    BY FS_EmptySet DEF Init
  <2> QED BY <2>1 DEF Init, Pressed, Excess, UnusedCard
<1>2. TypeOK /\ Pressed => PaidByAPress
  BY Numbers DEF Pressed, Excess, PaidByAPress
<1> QED BY <1>1, <1>2, TypeInit, TypeStep, PressedStep, PTL DEF Spec

-----------------------------------------------------------------------------
(* ImplementsVisit.                                                        *)

Jobs == {"none", "running", "succeeded", "failed"}
Mapped(at, job) == [job |-> Status(job), told |-> Verdict(at)]
Seen == [a \in DOMAIN attempts |-> Mapped(attempts[a].stage, attempts[a].job)]
HasThanked == stage # "checkout"

\* What the customer has been told of an attempt, and what has come of it.
LEMMA MappedFields ==
  \A at, job : Mapped(at, job).job = Status(job) /\ Mapped(at, job).told = Verdict(at)
BY DEF Mapped

\* The job of an attempt.
LEMMA JobType == ASSUME TypeOK, NEW a \in DOMAIN attempts PROVE attempts[a].job \in Jobs
<1>1. attempts[a] \in AttemptRecord
  BY TypeParts
<1> QED BY <1>1 DEF AttemptRecord, Jobs

\* A step that is no answer begins an order or is none of the customer's orders.
LEMMA OtherMapped == ASSUME TypeOK, Others PROVE Visit!Begin \/ UNCHANGED Visit!vars
<1>1. /\ stage' = stage /\ New \notin DOMAIN attempts
      /\ \A b \in DOMAIN attempts : b \in DOMAIN attempts' /\ Kept(b)
      /\ NothingNew \/ BeginsNew \/ OrdersNew
  BY OtherStep
<1>2. \A b \in DOMAIN attempts : Seen'[b] = Seen[b]
  BY <1>1 DEF Kept, Seen
<1>3. CASE NothingNew
  <2>1. Seen' = Seen
    BY <1>2, <1>3 DEF NothingNew, Seen
  <2> QED BY <1>1, <2>1 DEF Visit!vars, Seen, Mapped
<1>4. CASE BeginsNew \/ OrdersNew
  <2>1. /\ DOMAIN attempts' = DOMAIN attempts \cup {New}
        /\ attempts'[New].stage \in {"confirming", "window", "posting"}
        /\ attempts'[New].job = "none"
    BY <1>4 DEF BeginsNew, OrdersNew
  <2>2. Seen'[New] = [job |-> "none", told |-> "waiting"]
    BY <2>1 DEF Seen, Mapped, Status, Verdict, Failures
  <2>3. Len(attempts) \in Nat /\ DOMAIN attempts = 1..Len(attempts)
    BY TypeParts
  <2>4. /\ Seen \in Seq({Mapped(attempts[a].stage, attempts[a].job) : a \in DOMAIN attempts})
        /\ Len(Seen) = Len(attempts)
    BY <2>3 DEF Seen
  <2>5. DOMAIN Seen' = 1..(Len(attempts) + 1)
    BY <2>1, <2>3 DEF Seen, New
  <2>6. Seen' = [b \in 1..(Len(attempts) + 1) |-> Seen'[b]]
    BY <2>5 DEF Seen
  <2>7. Append(Seen, [job |-> "none", told |-> "waiting"])
          = [b \in 1..(Len(attempts) + 1) |->
               IF b = Len(attempts) + 1 THEN [job |-> "none", told |-> "waiting"] ELSE Seen[b]]
    BY <2>3, <2>4
  <2>8. \A b \in 1..(Len(attempts) + 1) :
          Seen'[b] = IF b = Len(attempts) + 1 THEN [job |-> "none", told |-> "waiting"]
                     ELSE Seen[b]
    BY <1>2, <2>2, <2>3 DEF New
  <2>9. Seen' = Append(Seen, [job |-> "none", told |-> "waiting"])
    BY <2>6, <2>7, <2>8
  <2> QED BY <1>1, <2>9 DEF Visit!Begin, Seen, Mapped
<1> QED BY <1>1, <1>3, <1>4

\* An answer moves its own order.
LEMMA MoveMapped ==
  ASSUME TypeOK, NEW a \in DOMAIN attempts, Answer(a)
  PROVE  /\ Seen' = [Seen EXCEPT ![a] = Mapped(attempts'[a].stage, attempts'[a].job)]
         /\ a \in DOMAIN Seen /\ Seen[a] = Mapped(attempts[a].stage, attempts[a].job)
<1>1. /\ DOMAIN attempts' = DOMAIN attempts
      /\ \A b \in DOMAIN attempts : b # a => attempts'[b] = attempts[b]
  BY AnswerStep
<1> QED BY <1>1 DEF Seen

\* An answer after which stage and job mean the same is none of the promise's.
LEMMA SameMapped ==
  ASSUME TypeOK, NEW a \in DOMAIN attempts, Answer(a), UNCHANGED stage,
         Mapped(attempts'[a].stage, attempts'[a].job) = Mapped(attempts[a].stage, attempts[a].job)
  PROVE  UNCHANGED Visit!vars
<1>1. Seen' = Seen
  BY MoveMapped DEF Seen
<1> QED BY <1>1 DEF Visit!vars, Seen, Mapped

\* A job that moves, with nothing new for the customer, is one of its order.
LEMMA JobMapped ==
  ASSUME TypeOK, NEW a \in DOMAIN attempts, Answer(a), UNCHANGED stage,
         Verdict(attempts'[a].stage) = Verdict(attempts[a].stage)
  PROVE  Visit!Job(a, Status(attempts[a].job), Status(attempts'[a].job))
<1>1. /\ Seen' = [Seen EXCEPT ![a] = Mapped(attempts'[a].stage, attempts'[a].job)]
      /\ a \in DOMAIN Seen /\ Seen[a] = Mapped(attempts[a].stage, attempts[a].job)
  BY MoveMapped
<1>2. Mapped(attempts'[a].stage, attempts'[a].job)
        = [Seen[a] EXCEPT !.job = Status(attempts'[a].job)]
  BY <1>1 DEF Mapped
<1>3. Seen' = [Seen EXCEPT ![a].job = Status(attempts'[a].job)]
  BY <1>1, <1>2
<1>4. Seen[a].job = Status(attempts[a].job)
  BY <1>1, MappedFields
<1> QED BY <1>3, <1>4 DEF Visit!Job, Seen, Mapped

\* A verdict without a change of the job is one of its order.
LEMMA TellMapped ==
  ASSUME TypeOK, NEW a \in DOMAIN attempts, Answer(a), attempts'[a].job = attempts[a].job,
         Verdict(attempts[a].stage) = "waiting"
  PROVE  /\ Visit!Tell(a, Verdict(attempts'[a].stage))
         /\ Seen[a].job = Status(attempts[a].job)
<1>1. /\ Seen' = [Seen EXCEPT ![a] = Mapped(attempts'[a].stage, attempts[a].job)]
      /\ a \in DOMAIN Seen /\ Seen[a] = Mapped(attempts[a].stage, attempts[a].job)
  BY MoveMapped
<1>2. Mapped(attempts'[a].stage, attempts[a].job)
        = [Seen[a] EXCEPT !.told = Verdict(attempts'[a].stage)]
  BY <1>1 DEF Mapped
<1>3. Seen' = [Seen EXCEPT ![a].told = Verdict(attempts'[a].stage)]
  BY <1>1, <1>2
<1>4. Seen[a].told = "waiting" /\ Seen[a].job = Status(attempts[a].job)
  BY <1>1, MappedFields
<1> QED BY <1>3, <1>4 DEF Visit!Tell, Seen, Mapped

\* An order that is turned down or gives up has no job, or one that failed.
LEMMA RefuseMapped ==
  ASSUME TypeOK, NEW a \in DOMAIN attempts, Answer(a), UNCHANGED stage,
         attempts[a].job \in {"none", "failed"}, attempts'[a].job = attempts[a].job,
         Verdict(attempts[a].stage) = "waiting", Verdict(attempts'[a].stage) = "failure"
  PROVE  Visit!Refuse(a)
<1>1. Status(attempts[a].job) \in {"none", "failure"}
  BY DEF Status
<1>2. Visit!Tell(a, "failure") /\ Seen[a].job \in {"none", "failure"}
  BY <1>1, TellMapped
<1> QED BY <1>2 DEF Visit!Refuse, Seen, Mapped

\* Every answer is a step of the promise's, or tells and changes nothing.
LEMMA AnswerKeepsVisit ==
  ASSUME TypeOK, Books, NEW a \in DOMAIN attempts, Answer(a)
  PROVE  Visit!Next \/ UNCHANGED Visit!vars
<1>0. /\ attempts[a].job \in Jobs /\ DOMAIN Seen = DOMAIN attempts
      /\ GivesUp(a) \/ IsOrdered(a) \/ IsAnswered(a)
  BY AnswerStep, JobType DEF Seen
<1>1. ASSUME \/ Visit!Accept(a) \/ Visit!End(a) \/ Visit!Thank(a) \/ Visit!Refuse(a)
             \/ Visit!Lose(a) \/ Visit!GiveUp(a)
      PROVE  Visit!Next
  BY <1>0, <1>1 DEF Visit!Next, Seen, Mapped
<1>2. CASE GivesUp(a)
  <2>1. /\ UNCHANGED stage /\ attempts'[a].job = attempts[a].job
        /\ attempts[a].stage \in {"confirming", "window", "agreeing"}
        /\ attempts'[a].stage \in {"declined", "unsubmitted", "agreeing", "abandoned"}
    BY <1>2 DEF GivesUp, Turns
  <2>2. attempts[a].job = "none" /\ Verdict(attempts[a].stage) = "waiting"
    BY <2>1 DEF Books, Verdict, Failures
  <2>3. CASE attempts'[a].stage = "agreeing"
    <3>1. Mapped(attempts'[a].stage, attempts'[a].job)
            = Mapped(attempts[a].stage, attempts[a].job)
      BY <2>1, <2>2, <2>3 DEF Mapped, Verdict, Failures
    <3> QED BY <2>1, <3>1, SameMapped
  <2>4. CASE attempts'[a].stage # "agreeing"
    <3>1. Verdict(attempts'[a].stage) = "failure"
      BY <2>1, <2>4 DEF Verdict, Failures
    <3> QED BY <1>1, <2>1, <2>2, <3>1, RefuseMapped
  <2> QED BY <2>3, <2>4
<1>3. CASE IsOrdered(a)
  <2>1. /\ UNCHANGED stage /\ attempts'[a].job = attempts[a].job
        /\ attempts[a].stage \in {"confirming", "agreeing"} /\ attempts'[a].stage = "posting"
    BY <1>3 DEF IsOrdered
  <2>2. Mapped(attempts'[a].stage, attempts'[a].job) = Mapped(attempts[a].stage, attempts[a].job)
    BY <2>1 DEF Mapped, Verdict, Failures
  <2> QED BY <2>1, <2>2, SameMapped
<1>4. CASE /\ attempts[a].stage = "posting" /\ Turns(a, "polling", "running")
           /\ UNCHANGED stage
  <2>1. /\ attempts[a].job = "none" /\ attempts'[a].job = "running"
        /\ attempts'[a].stage = "polling"
    BY <1>4 DEF Books, Turns
  <2>2. /\ Verdict("polling") = "waiting" /\ Verdict("posting") = "waiting"
        /\ Status("none") = "none" /\ Status("running") = "pending"
    BY DEF Verdict, Failures, Status
  <2>3. Visit!Job(a, "none", "pending")
    BY <1>4, <2>1, <2>2, JobMapped
  <2>4. Seen[a].told = "waiting"
    BY <1>4, <2>2, MoveMapped, MappedFields
  <2>5. Visit!Accept(a)
    BY <2>3, <2>4 DEF Visit!Accept, Seen, Mapped
  <2> QED BY <1>1, <2>5
<1>5. CASE /\ attempts[a].stage = "posting" /\ Turns(a, "lost", "running")
           /\ UNCHANGED stage
  <2>1. attempts[a].job = "none"
    BY <1>5 DEF Books
  <2>2. Seen' = [Seen EXCEPT ![a] = [job |-> "pending", told |-> "unknown"]]
    BY <1>5, MoveMapped DEF Turns, Mapped, Verdict, Failures, Status
  <2>3. Seen[a] = [job |-> "none", told |-> "waiting"]
    BY <1>5, <2>1 DEF Seen, Mapped, Verdict, Failures, Status
  <2>4. Visit!Lose(a)
    BY <1>5, <2>2, <2>3 DEF Visit!Lose, Seen, Mapped
  <2> QED BY <1>1, <2>4
<1>6. CASE /\ attempts[a].stage = "posting" /\ Turns(a, "lost", attempts[a].job)
           /\ UNCHANGED stage
  <2>1. /\ attempts'[a].job = attempts[a].job
        /\ Verdict(attempts[a].stage) = "waiting" /\ Verdict(attempts'[a].stage) = "unknown"
    BY <1>6 DEF Turns, Verdict, Failures
  <2>2. Visit!Tell(a, "unknown")
    BY <2>1, TellMapped
  <2>3. Visit!Lose(a)
    BY <1>6, <2>2 DEF Visit!Lose
  <2> QED BY <1>1, <2>3
<1>7. CASE /\ \/ attempts[a].stage = "posting" /\ Turns(a, "refused", attempts[a].job)
              \/ /\ attempts[a].stage = "polling" /\ attempts[a].job = "failed"
                 /\ Turns(a, "failed", "failed")
           /\ UNCHANGED stage
  <2>1. /\ attempts[a].job \in {"none", "failed"} /\ attempts'[a].job = attempts[a].job
        /\ attempts[a].stage \in {"posting", "polling"}
        /\ attempts'[a].stage \in {"refused", "failed"}
    BY <1>7 DEF Books, Turns
  <2>2. Verdict(attempts[a].stage) = "waiting" /\ Verdict(attempts'[a].stage) = "failure"
    BY <2>1 DEF Verdict, Failures
  <2> QED BY <1>1, <1>7, <2>1, <2>2, RefuseMapped
<1>8. CASE /\ attempts[a].job = "running" /\ UNCHANGED stage
           /\ \E j \in {"succeeded", "failed"} : Turns(a, attempts[a].stage, j)
  <2>1. /\ attempts'[a].stage = attempts[a].stage
        /\ attempts'[a].job \in {"succeeded", "failed"}
    BY <1>8 DEF Turns
  <2>2. Visit!Job(a, Status(attempts[a].job), Status(attempts'[a].job))
    BY <1>8, <2>1, JobMapped
  <2>3. /\ Status(attempts[a].job) = "pending"
        /\ Status(attempts'[a].job) \in {"success", "failure"}
    BY <1>8, <2>1 DEF Status
  <2>4. Visit!End(a)
    BY <2>2, <2>3 DEF Visit!End
  <2> QED BY <1>1, <2>4
<1>9. CASE /\ attempts[a].stage = "polling" /\ attempts[a].job = "succeeded"
           /\ Turns(a, "succeeded", "succeeded") /\ stage' = "thankyou"
  <2>1. /\ attempts'[a].job = attempts[a].job
        /\ Verdict(attempts[a].stage) = "waiting" /\ Verdict(attempts'[a].stage) = "success"
        /\ Status(attempts[a].job) = "success"
    BY <1>9 DEF Turns, Verdict, Failures, Status
  <2>2. Visit!Tell(a, "success") /\ Seen[a].job = "success"
    BY <2>1, TellMapped
  <2>3. Visit!Thank(a)
    BY <1>9, <2>2 DEF Visit!Thank, Seen, Mapped
  <2> QED BY <1>1, <2>3
<1>10. CASE /\ attempts[a].stage = "polling" /\ Turns(a, "polling", attempts[a].job)
            /\ UNCHANGED stage
  <2>1. Mapped(attempts'[a].stage, attempts'[a].job) = Mapped(attempts[a].stage, attempts[a].job)
    BY <1>10 DEF Turns
  <2> QED BY <1>10, <2>1, SameMapped
<1>11. CASE /\ attempts[a].stage = "polling" /\ Turns(a, "exhausted", attempts[a].job)
            /\ stage' = "thankyou-pending"
  <2>1. /\ attempts'[a].job = attempts[a].job
        /\ Verdict(attempts[a].stage) = "waiting" /\ Verdict(attempts'[a].stage) = "unknown"
    BY <1>11 DEF Turns, Verdict, Failures
  <2>2. attempts[a].job # "none"
    BY <1>11 DEF Books
  <2>3. Status(attempts[a].job) # "none"
    BY <1>0, <2>2 DEF Jobs, Status
  <2>4. Visit!Tell(a, "unknown") /\ Seen[a].job # "none"
    BY <2>1, <2>3, TellMapped
  <2>5. Visit!GiveUp(a)
    BY <1>11, <2>4 DEF Visit!GiveUp, Seen, Mapped
  <2> QED BY <1>1, <2>5
<1> QED BY <1>0, <1>2, <1>3, <1>4, <1>5, <1>6, <1>7, <1>8, <1>9, <1>10, <1>11 DEF IsAnswered

(* The page keeps what CheckoutVisit promises: whatever orders overlap and *)
(* whichever look-up, window or answer comes when, each step is one of an  *)
(* order or none.                                                          *)
THEOREM VisitImplemented == Spec => ImplementsVisit
<1>1. Init => Visit!Init
  <2> SUFFICES ASSUME Init PROVE Visit!Init
    OBVIOUS
  <2>1. ~HasThanked
    BY DEF Init, HasThanked
  <2>2. Seen = <<>>
    BY DEF Init, Seen
  <2> QED BY <2>1, <2>2 DEF Visit!Init, Seen, Mapped, HasThanked
<1>2. TypeOK /\ Books /\ [Next]_vars => [Visit!Next]_Visit!vars
  <2> SUFFICES ASSUME TypeOK, Books, [Next]_vars PROVE Visit!Next \/ UNCHANGED Visit!vars
    OBVIOUS
  <2>1. CASE Others
    BY <2>1, OtherMapped DEF Visit!Next
  <2>2. ASSUME NEW a \in DOMAIN attempts, Answer(a)
        PROVE  Visit!Next \/ UNCHANGED Visit!vars
    BY <2>2, AnswerKeepsVisit
  <2>3. CASE UNCHANGED vars
    BY <2>3 DEF vars, Visit!vars
  <2> QED BY <2>1, <2>2, <2>3 DEF Next, Others
<1> QED BY <1>1, <1>2, BooksCorrect, PTL DEF Spec, ImplementsVisit, Visit!Spec
=============================================================================
