-------------------------- MODULE GenericCheckout --------------------------
(***************************************************************************)
(* The generic checkout, /<geoId>/checkout, and the thank-you page it       *)
(* leads to.  One component, one form and one submit handler; the state is  *)
(* React's, so a handler sees what the last render saw, and every render    *)
(* forgets the order that the thank-you page is to read.  Fetches, Stripe   *)
(* and PayPal answer in any order while the customer goes on.               *)
(* Stripe.js is loaded before the customer can use the form.                *)
(***************************************************************************)
EXTENDS Integers, Sequences, FiniteSets

CONSTANTS
  Visits,         \* the links considered: product, rate plan, price, country, amounts test
  Pricing,        \* [product -> price of its rate plan], productCatalog
  MaxSubmits,     \* clicks on Pay now
  MaxApprovals,   \* PayPal windows opened
  MaxTokens       \* recaptchas solved

NoPrice == -1     \* no price in the query string; a price below zero is -2
Products == {"Contribution", "SupporterPlus", "GuardianWeekly", "TierThree", "unknown"}
RatePlans == {"Monthly", "Annual", "Quarterly", "unknown"}
PaymentMethods == {"Sepa", "DirectDebit", "Stripe", "PayPal", "AmazonPay"}

ASSUME BoundsAssumption ==
  MaxSubmits \in Nat /\ MaxApprovals \in Nat /\ MaxTokens \in Nat
ASSUME VisitsAssumption ==
  Visits \subseteq [product : Products, ratePlan : RatePlans, price : Int,
                    country : {"GB", "US", "DE"}, contributionsOnly : BOOLEAN]
ASSUME PricingAssumption ==
  Pricing \in [Products \ {"unknown"} -> Nat \ {0}]

VARIABLES
  visit,          \* the link
  page,           \* what is shown
  order,          \* thankYouOrder in the session storage
  method,         \* paymentMethod
  valid,          \* the form's own fields pass the browser's validation
  account,        \* so do the direct debit fields
  cardSeen,       \* the last render found the card element
  token,          \* recaptchaToken
  secret,         \* stripeClientSecret, named by the token it was fetched with
  inProgress,     \* stripeClientSecretInProgress
  setups,         \* tokens whose setup intent is being fetched
  payPal,         \* payPalLoaded, and whether the script is being fetched
  agreements,     \* PayPal windows, in the order they were opened
  payPalBAID,     \* the agreement the form holds
  isProcessing,   \* isProcessingPayment: the overlay is shown
  attempts,       \* submissions that confirm a card or create a subscription
  submits

vars == <<visit, page, order, method, valid, account, cardSeen, token, secret, inProgress,
          setups, payPal, agreements, payPalBAID, isProcessing, attempts, submits>>

-----------------------------------------------------------------------------
(* The link *)

\* The price shown: the one asked for, or the catalogue's.
price(v) == IF v.price = NoPrice THEN Pricing[v.product] ELSE v.price

\* The product sent to /subscribe/create: only these have fields, and only a contribution
\* and Supporter Plus have an amount, which is zero when none is asked for.
HasProductFields(v) == v.product \in {"Contribution", "SupporterPlus", "GuardianWeekly"}
Amount(v) ==
  IF v.product \in {"Contribution", "SupporterPlus"} /\ v.price # NoPrice
  THEN v.price ELSE 0

\* Mutant: a contribution is compared with > instead of >=.
ContributionsReachSupporterPlus(v) ==
  \/ /\ v.product = "Contribution" /\ v.price \notin {NoPrice, 0}
     /\ v.price < 1 \/ (~v.contributionsOnly /\ v.price > Pricing["SupporterPlus"])
  \/ /\ v.product = "SupporterPlus" /\ v.price \notin {NoPrice, 0}
     /\ v.price < Pricing["SupporterPlus"]

isInvalidAmount(v) ==
  \/ /\ v.product = "Contribution" /\ v.price \notin {NoPrice, 0}
     /\ v.price < 1 \/ (~v.contributionsOnly /\ v.price >= Pricing["SupporterPlus"])
  \/ /\ v.product = "SupporterPlus" /\ v.price \notin {NoPrice, 0}
     /\ v.price < Pricing["SupporterPlus"]

\* A price of zero is taken for a missing one.
PageOf(v) ==
  IF v.product = "unknown" \/ v.ratePlan = "unknown" THEN "noProduct"
  ELSE IF ~HasProductFields(v) \/ price(v) = 0 THEN "noProduct"
  ELSE IF isInvalidAmount(v) THEN "invalidAmount" ELSE "checkout"

validPaymentMethods(v) ==
  {"Stripe", "PayPal"}
    \cup (IF v.country = "DE" THEN {"Sepa"} ELSE {})
    \cup (IF v.country = "GB" THEN {"DirectDebit"} ELSE {})
    \cup (IF v.country = "US" THEN {"AmazonPay"} ELSE {})

\* ThankYou: the order must parse, and its plan must name a contribution type.
ThankYou ==
  IF order = "None" THEN "noOrder"
  ELSE IF visit.ratePlan \in {"Monthly", "Annual"} \/ visit.product = "Contribution"
  THEN "thankYou" ELSE "noType"

-----------------------------------------------------------------------------
(* Renders and submissions *)

Shown == page \in {"checkout", "leaving"}

\* CheckoutComponent runs: the order is unset, and the card element is found if an earlier
\* render mounted it.
Render ==
  /\ order' = "None"
  /\ cardSeen' = (method = "Stripe")

\* The overlay takes clicks and keys, PayPal's window while it is open.
Free ==
  /\ Shown
  /\ ~isProcessing
  /\ \A i \in DOMAIN agreements : agreements[i] # "window"

\* checkValidity: the direct debit fields are only there when it is selected.
checkValidity == valid /\ (method = "DirectDebit" => account)

CardReady == method = "Stripe" /\ cardSeen /\ secret # 0

Attempt(by, baid, stage) ==
  [by |-> by, method |-> method, baid |-> baid, secret |-> secret, token |-> token,
   amount |-> Amount(visit), stage |-> stage, job |-> "none"]

\* formOnSubmit up to its first await.  What has no payment fields turns the overlay on
\* and off in one batch, which renders nothing new unless it was on already.
formOnSubmit(by, baid) ==
  \/ /\ CardReady
     /\ attempts' = Append(attempts, Attempt(by, 0, "confirming"))
     /\ isProcessing' = TRUE
     /\ Render
  \/ /\ method \in {"PayPal", "DirectDebit"}
     /\ attempts' = Append(attempts, Attempt(by, baid, "posting"))
     /\ isProcessing' = TRUE
     /\ Render
  \/ /\ ~CardReady /\ method \notin {"PayPal", "DirectDebit"}
     /\ isProcessing' = FALSE
     /\ IF isProcessing THEN Render ELSE order' = "None" /\ UNCHANGED cardSeen
     /\ UNCHANGED attempts

-----------------------------------------------------------------------------
(* The customer *)

Init ==
  /\ visit \in Visits
  /\ page = PageOf(visit)
  /\ order = "None"
  /\ method = "None"
  /\ valid = FALSE /\ account = FALSE
  /\ cardSeen = FALSE
  /\ token = 0 /\ secret = 0 /\ inProgress = FALSE /\ setups = {}
  /\ payPal = "absent" /\ agreements = <<>> /\ payPalBAID = 0
  /\ isProcessing = FALSE
  /\ attempts = <<>>
  /\ submits = 0

\* Selecting PayPal begins to load its script, once more for as long as it is not there.
SelectMethod(m) ==
  /\ Free
  /\ m \in validPaymentMethods(visit) \ {method}
  /\ method' = m
  /\ payPal' = IF m = "PayPal" /\ payPal = "absent" THEN "loading" ELSE payPal
  /\ order' = "None" /\ cardSeen' = FALSE
  /\ UNCHANGED <<visit, page, valid, account, token, secret, inProgress, setups, agreements,
                 payPalBAID, isProcessing, attempts, submits>>

Edit ==
  /\ Free
  /\ valid' = ~valid
  /\ Render
  /\ UNCHANGED <<visit, page, method, account, token, secret, inProgress, setups, payPal,
                 agreements, payPalBAID, isProcessing, attempts, submits>>

EditAccount ==
  /\ Free
  /\ method = "DirectDebit"
  /\ account' = ~account
  /\ Render
  /\ UNCHANGED <<visit, page, method, valid, token, secret, inProgress, setups, payPal,
                 agreements, payPalBAID, isProcessing, attempts, submits>>

\* onRecaptchaCompleted.  The token is shared; a card also fetches a setup intent.
SolveRecaptcha ==
  /\ Free
  /\ method \in {"Stripe", "DirectDebit"}
  /\ token < MaxTokens
  /\ token' = token + 1
  /\ IF method = "Stripe"
     THEN inProgress' = TRUE /\ setups' = setups \cup {token'}
     ELSE UNCHANGED <<inProgress, setups>>
  /\ Render
  /\ UNCHANGED <<visit, page, method, valid, account, secret, payPal, agreements, payPalBAID,
                 isProcessing, attempts, submits>>

\* Pay now is not there under PayPal, and disabled while a setup intent is fetched.
PayNow ==
  /\ Free
  /\ method # "PayPal" /\ ~inProgress
  /\ checkValidity
  /\ submits < MaxSubmits
  /\ submits' = submits + 1
  /\ formOnSubmit("click", 0)
  /\ UNCHANGED <<visit, page, method, valid, account, token, secret, inProgress, setups,
                 payPal, agreements, payPalBAID>>

\* PayPal's button is enabled while the form is valid.
ClickPayPal ==
  /\ Free
  /\ method = "PayPal" /\ payPal = "loaded"
  /\ checkValidity
  /\ Len(agreements) < MaxApprovals
  /\ agreements' = Append(agreements, "window")
  /\ UNCHANGED <<visit, page, order, method, valid, account, cardSeen, token, secret,
                 inProgress, setups, payPal, payPalBAID, isProcessing, attempts, submits>>

-----------------------------------------------------------------------------
(* Answers *)

PayPalLoads ==
  /\ Shown /\ payPal = "loading"
  /\ payPal' = "loaded"
  /\ Render
  /\ UNCHANGED <<visit, page, method, valid, account, token, secret, inProgress, setups,
                 agreements, payPalBAID, isProcessing, attempts, submits>>

\* The setup intent of token t.  Whichever answers last is kept, the first answer enables
\* the button, and a fetch that fails leaves it disabled.
SetupIntent(t) ==
  /\ Shown /\ t \in setups
  /\ setups' = setups \ {t}
  /\ \/ secret' = t /\ inProgress' = FALSE /\ Render
     \/ UNCHANGED <<secret, inProgress, order, cardSeen>>
  /\ UNCHANGED <<visit, page, method, valid, account, token, payPal, agreements, payPalBAID,
                 isProcessing, attempts, submits>>

WindowCloses(i) ==
  /\ Shown
  /\ i \in DOMAIN agreements /\ agreements[i] = "window"
  /\ \E answer \in {"approved", "abandoned"} :
       agreements' = [agreements EXCEPT ![i] = answer]
  /\ UNCHANGED <<visit, page, order, method, valid, account, cardSeen, token, secret,
                 inProgress, setups, payPal, payPalBAID, isProcessing, attempts, submits>>

\* Mutant: onAuthorize submits the form, and so does the effect.
SubmittedTwice(i) ==
  /\ Shown
  /\ i \in DOMAIN agreements /\ agreements[i] = "approved" /\ method = "PayPal" /\ valid
  /\ agreements' = [agreements EXCEPT ![i] = "answered"]
  /\ payPalBAID' = i
  /\ attempts' = attempts \o <<Attempt("baid", i, "posting"), Attempt("baid", i, "posting")>>
  /\ isProcessing' = TRUE
  /\ Render
  /\ UNCHANGED <<visit, page, method, valid, account, token, secret, inProgress, setups,
                 payPal, submits>>

\* one-click-checkout answers, and the effect on payPalBAID submits the form as it is now,
\* whatever is selected, if the browser finds it valid; a failure is not handled.
Agreed(i) ==
  /\ Shown
  /\ i \in DOMAIN agreements /\ agreements[i] = "approved"
  /\ \/ /\ agreements' = [agreements EXCEPT ![i] = "answered"]
        /\ payPalBAID' = i
        /\ IF checkValidity THEN formOnSubmit("baid", i)
           ELSE Render /\ UNCHANGED <<isProcessing, attempts>>
     \/ /\ agreements' = [agreements EXCEPT ![i] = "failed"]
        /\ UNCHANGED <<payPalBAID, order, cardSeen, isProcessing, attempts>>
  /\ UNCHANGED <<visit, page, method, valid, account, token, secret, inProgress, setups,
                 payPal, submits>>

Answering(a, stage) ==
  /\ Shown
  /\ a \in DOMAIN attempts /\ attempts[a].stage = stage

To(a, stage, job) ==
  attempts' = [attempts EXCEPT ![a].stage = stage, ![a].job = job]

FormRest == <<visit, method, valid, account, token, secret, inProgress, setups, payPal,
              agreements, payPalBAID, submits>>

\* confirmCardSetup
Confirmed(a) ==
  /\ Answering(a, "confirming")
  /\ \/ To(a, "posting", "none") /\ UNCHANGED <<order, cardSeen, isProcessing>>
     \/ To(a, "declined", "none") /\ isProcessing' = FALSE /\ Render
  /\ UNCHANGED <<page, FormRest>>

\* Mutant: an error of the request takes the overlay away, as in the older checkouts.
ErrorsAreHandled(a) ==
  /\ Answering(a, "posting")
  /\ \/ To(a, "polling", "running") /\ UNCHANGED <<order, cardSeen, isProcessing>>
     \/ /\ \E job \in {"none", "running"} : To(a, "lost", job)
        /\ isProcessing' = FALSE /\ Render
  /\ UNCHANGED <<page, FormRest>>

\* /subscribe/create: accepted, or an answer that is not JSON or does not come, when the
\* request may have arrived all the same; nothing handles the rejected promise.
Created(a) ==
  /\ Answering(a, "posting")
  /\ \/ To(a, "polling", "running")
     \/ \E job \in {"none", "running"} : To(a, "lost", job)
  /\ UNCHANGED <<page, order, cardSeen, isProcessing, FormRest>>

\* support-workers, also when the customer has gone.
JobEnds(a) ==
  /\ a \in DOMAIN attempts /\ attempts[a].job = "running"
  /\ \E job \in {"succeeded", "failed"} : To(a, attempts[a].stage, job)
  /\ UNCHANGED <<page, order, cardSeen, isProcessing, FormRest>>

\* Mutants of processPayment: the first status is final; what is not pending is a success.
OneStatus(a) ==
  /\ Answering(a, "polling")
  /\ \/ /\ attempts[a].job = "succeeded"
        /\ To(a, "succeeded", "succeeded")
        /\ order' = attempts[a].method /\ page' = "leaving"
     \/ /\ attempts[a].job \in {"running", "failed"}
        /\ To(a, "posted", attempts[a].job)
        /\ UNCHANGED <<page, order>>
  /\ UNCHANGED <<cardSeen, isProcessing, FormRest>>
NotPendingIsSuccess(a) ==
  /\ Answering(a, "polling") /\ attempts[a].job # "running"
  /\ To(a, "succeeded", attempts[a].job)
  /\ order' = attempts[a].method /\ page' = "leaving"
  /\ UNCHANGED <<cardSeen, isProcessing, FormRest>>

\* processPayment: a pending status asks again, for ever; a success sets the order and
\* begins to leave; a failure is logged under the overlay; a lost answer ends it.
Poll(a) ==
  /\ Answering(a, "polling")
  /\ \/ /\ attempts[a].job = "succeeded"
        /\ To(a, "succeeded", "succeeded")
        /\ order' = attempts[a].method /\ page' = "leaving"
     \/ /\ attempts[a].job = "failed"
        /\ To(a, "failed", "failed")
        /\ UNCHANGED <<page, order>>
     \/ To(a, "lost", attempts[a].job) /\ UNCHANGED <<page, order>>
  /\ UNCHANGED <<cardSeen, isProcessing, FormRest>>

Navigate ==
  /\ page = "leaving"
  /\ page' = ThankYou
  /\ UNCHANGED <<order, cardSeen, isProcessing, attempts, FormRest>>

-----------------------------------------------------------------------------
Customer ==
  \/ \E m \in PaymentMethods : SelectMethod(m)
  \/ Edit
  \/ EditAccount
  \/ SolveRecaptcha
  \/ PayNow
  \/ ClickPayPal

Next ==
  \/ Customer
  \/ PayPalLoads
  \/ \E t \in setups : SetupIntent(t)
  \/ \E i \in DOMAIN agreements : WindowCloses(i) \/ Agreed(i)
  \/ \E a \in DOMAIN attempts : Confirmed(a) \/ Created(a) \/ JobEnds(a) \/ Poll(a)
  \/ Navigate

Spec == Init /\ [][Next]_vars

\* Jobs end, and a status that is asked for every second is answered once it is final.
FairSpec ==
  /\ Spec
  /\ WF_vars(Navigate)
  /\ \A a \in 1..(MaxSubmits + MaxApprovals) : WF_vars(JobEnds(a)) /\ WF_vars(Poll(a))

-----------------------------------------------------------------------------
Attempts ==
  [by : {"click", "baid"}, method : {"Stripe", "PayPal", "DirectDebit"},
   baid : 0..MaxApprovals, secret : 0..MaxTokens, token : 0..MaxTokens, amount : Int,
   stage : {"confirming", "declined", "posting", "polling", "succeeded", "failed", "lost"},
   job : {"none", "running", "succeeded", "failed"}]

\* The state of CheckoutComponent keeps the types its useState calls give it.
TypeOK ==
  /\ visit \in Visits
  /\ page \in {"noProduct", "invalidAmount", "checkout", "leaving", "thankYou", "noOrder",
               "noType"}
  /\ order \in {"None", "Stripe", "PayPal", "DirectDebit"}
  /\ method \in PaymentMethods \cup {"None"}
  /\ valid \in BOOLEAN /\ account \in BOOLEAN /\ cardSeen \in BOOLEAN
  /\ token \in 0..MaxTokens /\ secret \in 0..MaxTokens
  /\ inProgress \in BOOLEAN /\ setups \subseteq 1..MaxTokens
  /\ payPal \in {"absent", "loading", "loaded"}
  /\ agreements \in Seq({"window", "approved", "abandoned", "answered", "failed"})
  /\ Len(agreements) <= MaxApprovals
  /\ payPalBAID \in 0..MaxApprovals
  /\ isProcessing \in BOOLEAN
  /\ attempts \in Seq(Attempts)
  /\ submits \in 0..MaxSubmits

\* The customer is sent to the thank-you page only when a subscription was created and its
\* job succeeded, and the order that page reads is that of such a subscription.
ThankYouIsTrue ==
  page \in {"leaving", "thankYou", "noType", "noOrder"} =>
    \E a \in DOMAIN attempts :
      /\ attempts[a].job = "succeeded"
      /\ order \in {"None", attempts[a].method}

\* A PayPal agreement, once given, creates one subscription at most.
OneRequestPerAgreement ==
  \A a, b \in DOMAIN attempts :
    /\ attempts[a].method = "PayPal" /\ attempts[b].method = "PayPal"
    /\ attempts[a].baid = attempts[b].baid
    => a = b

Live == {a \in DOMAIN attempts : attempts[a].stage # "declined"}
Answered == {i \in DOMAIN agreements : agreements[i] = "answered"}

\* The overlay is the only thing that stops a second purchase.  Agreements that answer
\* late go round it; nothing else does: a customer without them buys at most once.
PurchasesBounded == Cardinality(Live) <= Cardinality(Answered) + 1

\* Whatever the query string says, no amount is sent that the pages elsewhere refuse: a
\* contribution is at least 1 and below Supporter Plus where that is sold, Supporter Plus
\* is at least its price; only a link without a price sends 0.
AmountsAreAcceptable ==
  \A a \in DOMAIN attempts :
    LET amount == attempts[a].amount IN
    \/ visit.price = NoPrice /\ amount = 0
    \/ /\ visit.product = "Contribution" /\ amount >= 1
       /\ visit.contributionsOnly \/ amount < Pricing["SupporterPlus"]
    \/ visit.product = "SupporterPlus" /\ amount >= Pricing["SupporterPlus"]
    \/ visit.product = "GuardianWeekly" /\ amount = 0

AtStage(a, stages) == a \in DOMAIN attempts /\ attempts[a].stage \in stages

(* The refinement of CheckoutVisit.  There are no thanks for pending orders here. *)
Verdict(stage) ==
  CASE stage \in {"declined", "failed"} -> "failure"
    [] stage = "succeeded" -> "success"
    [] stage = "lost" -> "unknown"
    [] OTHER -> "waiting"
Status(job) ==
  CASE job = "running" -> "pending"
    [] job = "succeeded" -> "success"
    [] job = "failed" -> "failure"
    [] OTHER -> "none"

Visit == INSTANCE CheckoutVisit WITH
  ThanksForPending <- FALSE,
  orders <- [a \in DOMAIN attempts |-> [job |-> Status(attempts[a].job),
                                        told |-> Verdict(attempts[a].stage)]],
  thanked <- page \in {"leaving", "thankYou", "noOrder", "noType"}

\* The page keeps its promise, whatever submissions overlap and whichever answer is lost: a
\* verdict is given once and is true, and what was reported as failed is not bought later.
ImplementsVisit == Visit!Spec

\* processPayment removes the pending state by retrying: a request that is accepted and
\* whose answers are not lost ends in a success or a failure, however long the job takes.
PendingEnds ==
  \A a \in 1..(MaxSubmits + MaxApprovals) :
    page = "checkout" /\ AtStage(a, {"polling"})
    ~> page # "checkout" \/ AtStage(a, {"succeeded", "failed", "lost"})

=============================================================================
