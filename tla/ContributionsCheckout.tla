----------------------- MODULE ContributionsCheckout -----------------------
(***************************************************************************)
(* The contributions checkout in the browser: the landing page, the        *)
(* checkout page with its payment buttons, the Redux slices they share, and *)
(* the promises that are under way while the customer may go on clicking.  *)
(* One visit, one customer.  The effect of a payment button runs after the *)
(* render whose dependencies changed and before the next event; everything *)
(* else that answers (Stripe, PayPal, Google, our servers) answers in any  *)
(* order.  Amounts are in range, personal details are one field, and the   *)
(* forms of Sepa and of an existing card are always valid.                 *)
(***************************************************************************)
EXTENDS Naturals, Sequences, FiniteSets

CONSTANTS
  Offers,       \* the visits considered: country, contribution types, switches, wallet
  MaxClicks,    \* clicks on a payment button in a visit
  MaxTokens,    \* recaptchas solved in a visit
  MaxPolls      \* MAX_POLLS, 10 in the code

ContributionTypes == {"ONE_OFF", "MONTHLY"}     \* ANNUAL goes where MONTHLY goes
PaymentMethods == {"Stripe", "PayPal", "DirectDebit", "Sepa", "ExistingCard"}

ASSUME BoundsAssumption ==
  MaxClicks \in Nat /\ MaxTokens \in Nat /\ MaxPolls \in Nat
ASSUME OffersAssumption ==
  Offers \subseteq [country : {"GB", "DE", "CA"}, types : SUBSET ContributionTypes,
                    switches : [ContributionTypes -> SUBSET PaymentMethods],
                    wallet : BOOLEAN]

VARIABLES
  offer,        \* the visit
  page,         \* "landing", "checkout", "thankYou", or "left" for paypal.com
  type,         \* product.productType
  payment,      \* payment.paymentMethod.name
  form,         \* the form slice
  details,      \* personal details: are they valid, is an error recorded
  recaptcha,    \* the recaptcha slice (completed = token # 0) and the widget
  stripe,       \* the Stripe card slice and the card elements
  directDebit,  \* the direct debit slice; account: what the customer typed
  wallet,       \* the payment request button slice and the browser's sheet
  button,       \* the local state of the mounted payment button: the last click, the
                \* recorded intention, and the dependencies its effects last ran with
  setups,       \* recaptcha tokens whose setup intent is being fetched
  checks,       \* accounts being checked
  attempts,     \* every payment begun, in order
  clicks, tokens

slices == <<form, details, recaptcha, stripe, directDebit, wallet>>
vars == <<offer, page, type, payment, slices, button, setups, checks, attempts,
          clicks, tokens>>

-----------------------------------------------------------------------------
(* Payment methods *)

getPaymentMethods(t, country) ==
  {"ExistingCard", "Stripe", "PayPal"}
    \cup (IF t # "ONE_OFF" /\ country = "GB" THEN {"DirectDebit"} ELSE {})
    \cup (IF t # "ONE_OFF" /\ country = "DE" THEN {"Sepa"} ELSE {})

getValidPaymentMethods(t) ==
  getPaymentMethods(t, offer.country) \cap offer.switches[t]

-----------------------------------------------------------------------------
(* Validation *)

\* validateForm(method), on each slice that listens.
DetailsValidated == [details EXCEPT !.error = ~details.valid]
RecaptchaValidated ==
  [recaptcha EXCEPT !.error = recaptcha.error \/ recaptcha.token = 0]
StripeValidated(m) == [stripe EXCEPT !.showErrors = stripe.showErrors \/ m = "Stripe"]
\* A schema that succeeds leaves the errors recorded before.
DirectDebitValidated(m) ==
  [directDebit EXCEPT
     !.error = directDebit.error \/ (m = "DirectDebit" /\ directDebit.account = "none")]
WalletValidated ==
  IF wallet.completed
  THEN [wallet EXCEPT !.clicked = FALSE, !.completed = FALSE, !.error = FALSE]
  ELSE wallet

validateForm(m) ==
  /\ details' = DetailsValidated
  /\ recaptcha' = RecaptchaValidated
  /\ stripe' = StripeValidated(m)
  /\ directDebit' = DirectDebitValidated(m)
  /\ wallet' = WalletValidated

getPaymentMethodErrors ==
  CASE payment = "Stripe" -> stripe.showErrors /\ (stripe.error \/ recaptcha.error)
    [] payment = "DirectDebit" ->
         directDebit.error \/ directDebit.formError \/ recaptcha.error
    [] OTHER -> FALSE

\* While the wallet button is clicked only the wallet's own errors count.
contributionsFormHasErrors ==
  IF wallet.clicked
  THEN wallet.completed /\ (wallet.error \/ details.error)
  ELSE details.error \/ getPaymentMethodErrors

-----------------------------------------------------------------------------
(* Attempts to pay *)

Stages == {"createPaymentMethod", "confirmCardSetup", "walletSetup", "createPayPal",
           "window", "oneClickCheckout", "posting", "polling", "charging", "threeDS",
           "confirming",
           "succeeded", "failed", "abandoned", "refused", "lost", "redirected"}

Begun(by, m, stage) ==
  [by |-> by, click |-> button.click, method |-> m, type |-> type, stage |-> stage,
   job |-> "none", polls |-> 0, paid |-> FALSE, unknown |-> FALSE]

Begin(by, m, stage) == attempts' = Append(attempts, Begun(by, m, stage))

To(a, stage) == attempts' = [attempts EXCEPT ![a].stage = stage]

\* onThirdPartyPaymentAuthorised: the stage that follows is chosen by the contribution
\* type and the method selected NOW, whatever r authorised.  A refusal is a resolved
\* promise that nothing passes to onPaymentResult.
paymentAuthorisationHandlers(r) ==
  CASE payment = "None" -> "refused"
    [] payment # "None" /\ type # "ONE_OFF" -> "posting"
    [] payment = "Stripe" /\ type = "ONE_OFF" ->
         IF r.method = "Wallet" \/ (r.method = "Stripe" /\ r.type = "ONE_OFF")
         THEN "charging" ELSE "refused"
    [] OTHER -> "refused"

BeginAuthorised(by, m) ==
  Begin(by, m, paymentAuthorisationHandlers(Begun(by, m, "new")))

Authorised(a) == To(a, paymentAuthorisationHandlers(attempts[a]))

\* onPaymentResult; the navigation follows the success at once.
Succeeded ==
  /\ form' = [form EXCEPT !.paymentComplete = TRUE]
  /\ page' = "thankYou"
  /\ UNCHANGED wallet

\* Mutant: onPaymentResult without its paymentWaiting(false).
FailedUnderTheOverlay(m) ==
  /\ form' = [form EXCEPT !.paymentError = form.paymentError \/ m # "Wallet"]
  /\ wallet' = [wallet EXCEPT !.error = wallet.error \/ m = "Wallet"]
  /\ UNCHANGED page

Failed(m) ==
  /\ form' = [isWaiting |-> FALSE, paymentComplete |-> FALSE,
              paymentError |-> form.paymentError \/ m # "Wallet"]
  /\ wallet' = [wallet EXCEPT !.error = wallet.error \/ m = "Wallet"]
  /\ UNCHANGED page

\* handleStripeError, createPaymentRequestErrorHandler
NotAuthorised(a) ==
  /\ To(a, "failed")
  /\ Failed(attempts[a].method)

-----------------------------------------------------------------------------
(* The payment button and its effects *)

Mounted == [click |-> 0, awaiting |-> FALSE, ran |-> <<>>, ranSecret |-> <<0, FALSE>>]

HasButton ==
  page = "checkout" /\ payment # "None" /\ ~(payment = "PayPal" /\ type # "ONE_OFF")

\* Mutant: every value the effect reads is a dependency, as a linter would have it.
EveryValueRead ==
  <<button.click, contributionsFormHasErrors,
    payment = "DirectDebit" /\ directDebit.phase = "confirmation", form>>

ValidationDeps ==
  <<button.click, contributionsFormHasErrors,
    payment = "DirectDebit" /\ directDebit.phase = "confirmation">>

SecretDeps == <<stripe.secret, button.awaiting>>

ValidationDue == HasButton /\ button.ran # ValidationDeps
SecretDue ==
  HasButton /\ payment = "Stripe" /\ type # "ONE_OFF" /\ button.ranSecret # SecretDeps
EffectDue == ValidationDue \/ SecretDue

\* The overlay takes clicks and keys while isWaiting, PayPal's window and the
\* wallet's sheet while they are open.
Free ==
  /\ page \in {"landing", "checkout"}
  /\ ~EffectDue
  /\ ~form.isWaiting
  /\ wallet.sheet # "open"
  /\ \A a \in DOMAIN attempts : attempts[a].stage # "window"

\* What a button does with a valid form (pay, payOneOffWithPayPal, payWithSepa ...).
paymentHandler ==
  \/ /\ payment = "Stripe" /\ type = "ONE_OFF"
     /\ Begin("click", "Stripe", "createPaymentMethod")
  \/ /\ payment = "Stripe" /\ type # "ONE_OFF" /\ stripe.secret # 0
     /\ Begin("click", "Stripe", "confirmCardSetup")
  \/ /\ payment = "Stripe" /\ type # "ONE_OFF" /\ stripe.secret = 0
     /\ UNCHANGED attempts
  \/ /\ payment = "PayPal"
     /\ Begin("click", "PayPal", "createPayPal")
  \/ /\ payment \in {"DirectDebit", "Sepa", "ExistingCard"}
     /\ BeginAuthorised("click", payment)

\* The effect of useValidation and of useDirectDebitValidation.  Errors drop the click;
\* they do not drop a recorded intention.
ValidationEffect ==
  /\ ValidationDue
  /\ IF contributionsFormHasErrors
     THEN /\ button' = [button EXCEPT !.click = 0,
                                      !.ran = <<0, TRUE, ValidationDeps[3]>>]
          /\ form' = IF payment = "DirectDebit"
                     THEN [form EXCEPT !.isWaiting = FALSE, !.paymentComplete = FALSE]
                     ELSE form
          /\ UNCHANGED attempts
     ELSE IF button.click = 0 \/ (payment = "DirectDebit" /\ ~ValidationDeps[3])
     THEN /\ button' = [button EXCEPT !.ran = ValidationDeps]
          /\ UNCHANGED <<form, attempts>>
     ELSE /\ button' = [button EXCEPT
                          !.ran = ValidationDeps,
                          !.awaiting = @ \/ (payment = "Stripe" /\ type # "ONE_OFF"
                                             /\ stripe.secret = 0)]
          /\ form' = IF payment = "DirectDebit" THEN form
                     ELSE [form EXCEPT !.isWaiting = TRUE, !.paymentComplete = FALSE]
          /\ paymentHandler
  /\ UNCHANGED <<offer, page, type, payment, details, recaptcha, stripe, directDebit,
                 wallet, setups, checks, clicks, tokens>>

\* The effect in StripePaymentButton: a secret and an intention to pay.
SecretEffect ==
  /\ SecretDue
  /\ button' = [button EXCEPT !.ranSecret = SecretDeps]
  /\ IF stripe.secret # 0 /\ button.awaiting
     THEN Begin("secret", "Stripe", "confirmCardSetup")
     ELSE UNCHANGED attempts
  /\ UNCHANGED <<offer, page, type, payment, slices, setups, checks, clicks, tokens>>

-----------------------------------------------------------------------------
(* The customer *)

Init ==
  /\ offer \in Offers
  /\ page = "landing"
  /\ type \in offer.types
  /\ payment = "None"
  /\ form = [isWaiting |-> FALSE, paymentComplete |-> FALSE, paymentError |-> FALSE]
  /\ details = [valid |-> FALSE, error |-> FALSE]
  /\ recaptcha = [token |-> 0, solved |-> FALSE, error |-> FALSE]
  /\ stripe = [complete |-> FALSE, error |-> FALSE, showErrors |-> FALSE, secret |-> 0]
  /\ directDebit = [account |-> "none", error |-> FALSE, formError |-> FALSE,
                    phase |-> "entry"]
  /\ wallet = [clicked |-> FALSE, completed |-> FALSE, error |-> FALSE, sheet |-> "closed"]
  /\ button = Mounted
  /\ setups = {} /\ checks = {} /\ attempts = <<>>
  /\ clicks = 0 /\ tokens = 0

\* The landing page: setProductType forgets the payment method.
ChooseType(t) ==
  /\ Free /\ page = "landing"
  /\ t \in offer.types \ {type}
  /\ type' = t
  /\ payment' = "None"
  /\ UNCHANGED <<offer, page, slices, button, setups, checks, attempts, clicks, tokens>>

\* The checkout mounts: empty card elements and recaptcha widget, and a fresh button.
\* The PayPal button validates as it mounts; a single method is selected.
Shown(m) ==
  /\ payment' = m
  /\ button' = Mounted
  /\ stripe' = [stripe EXCEPT !.complete = FALSE]
  /\ IF m = "PayPal"
     THEN details' = DetailsValidated /\ wallet' = WalletValidated
     ELSE UNCHANGED <<details, wallet>>

\* Continue to checkout goes through useValidation too: an error that is left blocks it.
Continue ==
  /\ Free /\ page = "landing"
  /\ ~contributionsFormHasErrors
  /\ page' = "checkout"
  /\ LET shown == getValidPaymentMethods(type) \ {"ExistingCard"}
         single == Cardinality(shown) = 1
     IN  /\ Shown(IF single THEN CHOOSE m \in shown : TRUE ELSE payment)
         /\ recaptcha' = [token |-> IF single THEN 0 ELSE recaptcha.token, solved |-> FALSE,
                          error |-> recaptcha.error \/ payment' = "PayPal"]
  /\ UNCHANGED <<offer, type, form, directDebit, setups, checks, attempts, clicks, tokens>>

SelectMethod(m) ==
  /\ Free /\ page = "checkout"
  /\ m \in getValidPaymentMethods(type) \ {payment}
  /\ Shown(m)
  /\ recaptcha' = [token |-> 0, solved |-> FALSE,
                   error |-> recaptcha.error \/ m = "PayPal"]
  /\ UNCHANGED <<offer, page, type, form, directDebit, setups, checks, attempts, clicks,
                 tokens>>

\* The Change button: resetValidation, and the landing page resets it again.
Change ==
  /\ Free /\ page = "checkout"
  /\ page' = "landing"
  /\ details' = [details EXCEPT !.error = FALSE]
  /\ recaptcha' = [recaptcha EXCEPT !.error = FALSE, !.solved = FALSE]
  /\ stripe' = [stripe EXCEPT !.error = FALSE, !.complete = FALSE]
  /\ directDebit' = [directDebit EXCEPT !.error = FALSE]
  /\ wallet' = [wallet EXCEPT !.error = FALSE]
  /\ UNCHANGED <<offer, type, payment, form, button, setups, checks, attempts, clicks,
                 tokens>>

EditDetails(v) ==
  /\ Free /\ page = "checkout"
  /\ v # details.valid
  /\ details' = [valid |-> v, error |-> FALSE]
  /\ UNCHANGED <<offer, page, type, payment, form, recaptcha, stripe, directDebit, wallet,
                 button, setups, checks, attempts, clicks, tokens>>

EditCard(c) ==
  /\ Free /\ page = "checkout" /\ payment = "Stripe"
  /\ c # stripe.complete
  /\ stripe' = [stripe EXCEPT !.complete = c, !.error = ~c]
  /\ UNCHANGED <<offer, page, type, payment, form, details, recaptcha, directDebit, wallet,
                 button, setups, checks, attempts, clicks, tokens>>

\* The setters of the direct debit slice keep the errors.
EditAccount(account) ==
  /\ Free /\ page = "checkout" /\ payment = "DirectDebit"
  /\ account # directDebit.account
  /\ directDebit' = [directDebit EXCEPT !.account = account]
  /\ UNCHANGED <<offer, page, type, payment, form, details, recaptcha, stripe, wallet,
                 button, setups, checks, attempts, clicks, tokens>>

\* onRecaptchaCompleted; a card for regular payments needs a setup intent.
SolveRecaptcha ==
  /\ Free /\ page = "checkout" /\ payment \in {"Stripe", "DirectDebit"}
  /\ ~recaptcha.solved /\ tokens < MaxTokens
  /\ tokens' = tokens + 1
  /\ recaptcha' = [token |-> tokens', solved |-> TRUE, error |-> FALSE]
  /\ setups' = IF payment = "Stripe" /\ type # "ONE_OFF"
               THEN setups \cup {tokens'} ELSE setups
  /\ UNCHANGED <<offer, page, type, payment, form, details, stripe, directDebit, wallet,
                 button, checks, attempts, clicks>>

ExpireRecaptcha ==
  /\ page = "checkout" /\ ~EffectDue
  /\ recaptcha.solved
  /\ recaptcha' = [recaptcha EXCEPT !.token = 0, !.solved = FALSE]
  /\ UNCHANGED <<offer, page, type, payment, form, details, stripe, directDebit, wallet,
                 button, setups, checks, attempts, clicks, tokens>>

\* The buttons behind useFormValidation.
ClickPay ==
  /\ Free /\ HasButton /\ payment # "DirectDebit"
  /\ clicks < MaxClicks
  /\ clicks' = clicks + 1
  /\ validateForm(payment)
  /\ button' = [button EXCEPT !.click = clicks']
  /\ UNCHANGED <<offer, page, type, payment, form, setups, checks, attempts, tokens>>

\* useDirectDebitValidation: the overlay, the validation and confirmAccountDetails.
ClickDirectDebit ==
  /\ Free /\ HasButton /\ payment = "DirectDebit"
  /\ clicks < MaxClicks
  /\ clicks' = clicks + 1
  /\ form' = [form EXCEPT !.isWaiting = TRUE, !.paymentComplete = FALSE]
  /\ details' = DetailsValidated
  /\ recaptcha' = RecaptchaValidated
  /\ wallet' = WalletValidated
  /\ directDebit' = [DirectDebitValidated("DirectDebit") EXCEPT !.formError = FALSE]
  /\ checks' = checks \cup {<<clicks', directDebit.account>>}
  /\ button' = [button EXCEPT !.click = clicks']
  /\ UNCHANGED <<offer, page, type, payment, stripe, setups, attempts, tokens>>

\* PayPal for regular contributions: its own button, enabled while there are no errors;
\* setUpPayPalPayment opens no window for a form that has become invalid.
ClickPayPal ==
  /\ Free /\ page = "checkout" /\ payment = "PayPal" /\ type # "ONE_OFF"
  /\ ~contributionsFormHasErrors
  /\ clicks < MaxClicks
  /\ clicks' = clicks + 1
  /\ validateForm("PayPal")
  /\ IF details'.error \/ (wallet'.clicked /\ wallet'.error)
     THEN UNCHANGED attempts
     ELSE attempts' = Append(attempts,
                             [Begun("click", "PayPal", "window") EXCEPT !.click = clicks'])
  /\ UNCHANGED <<offer, page, type, payment, form, button, setups, checks, tokens>>

\* The payment request button; showing the sheet selects Stripe.
ClickWallet ==
  /\ Free /\ page = "checkout" /\ offer.wallet
  /\ clicks < MaxClicks
  /\ clicks' = clicks + 1
  /\ wallet' = [wallet EXCEPT !.clicked = TRUE, !.completed = FALSE, !.sheet = "open"]
  /\ payment' = "Stripe"
  /\ IF payment = "Stripe"
     THEN /\ recaptcha' = [recaptcha EXCEPT !.token = 0]
          /\ UNCHANGED <<stripe, button>>
     ELSE /\ recaptcha' = [recaptcha EXCEPT !.token = 0, !.solved = FALSE]
          /\ stripe' = [stripe EXCEPT !.complete = FALSE]
          /\ button' = Mounted
  /\ UNCHANGED <<offer, page, type, form, details, directDebit, setups, checks, attempts,
                 tokens>>

\* usePaymentRequestEvent: the wallet's details replace the form's (v: are they valid);
\* then the effect of usePaymentRequestCompletion.
AuthoriseWallet(v) ==
  /\ wallet.sheet = "open" /\ ~EffectDue
  /\ IF v /\ ~wallet.error
     THEN /\ wallet' = [wallet EXCEPT !.completed = TRUE, !.sheet = "authorised"]
          /\ details' = [valid |-> TRUE, error |-> FALSE]
          /\ form' = [form EXCEPT !.isWaiting = TRUE, !.paymentComplete = FALSE]
          /\ IF type = "ONE_OFF" THEN BeginAuthorised("wallet", "Wallet")
             ELSE Begin("wallet", "Wallet", "walletSetup")
          /\ recaptcha' = [recaptcha EXCEPT !.error = TRUE]
          /\ UNCHANGED payment
     ELSE /\ wallet' = [wallet EXCEPT !.completed = TRUE, !.error = TRUE,
                                      !.sheet = "authorised"]
          /\ details' = [valid |-> FALSE, error |-> FALSE]
          /\ form' = [form EXCEPT !.isWaiting = FALSE, !.paymentComplete = FALSE]
          /\ payment' = "None"
          /\ recaptcha' = [token |-> 0, solved |-> FALSE, error |-> TRUE]
          /\ UNCHANGED attempts
  /\ UNCHANGED <<offer, page, type, stripe, directDebit, button, setups, checks, clicks,
                 tokens>>

\* The cancel event may follow an authorisation; the handler that should notice was
\* registered before there was a payment method.
CancelWallet ==
  /\ page = "checkout" /\ ~EffectDue
  /\ wallet.sheet = "open" \/ (wallet.sheet = "authorised" /\ form.isWaiting)
  /\ wallet' = [wallet EXCEPT !.clicked = FALSE, !.sheet = "closed"]
  /\ payment' = "None"
  /\ recaptcha' = [recaptcha EXCEPT !.token = 0, !.solved = FALSE]
  /\ UNCHANGED <<offer, page, type, form, details, stripe, directDebit, button, setups,
                 checks, attempts, clicks, tokens>>

-----------------------------------------------------------------------------
(* Answers.  Nothing answers a page that was left for paypal.com. *)

Answering(a, stage) ==
  /\ a \in DOMAIN attempts /\ attempts[a].stage = stage
  /\ page # "left" /\ ~EffectDue

Rest == <<offer, type, payment, details, recaptcha, stripe, directDebit, button, setups,
          checks, clicks, tokens>>
NoVerdict == UNCHANGED <<page, form, wallet>>

\* getStripeSetupIntent.  A rejected thunk is a resolved promise, so the catch in
\* onRecaptchaCompleted never runs.
SetupIntent(t) ==
  /\ t \in setups /\ page # "left" /\ ~EffectDue
  /\ setups' = setups \ {t}
  /\ stripe' \in {stripe, [stripe EXCEPT !.secret = t]}
  /\ UNCHANGED <<offer, page, type, payment, form, details, recaptcha, directDebit, wallet,
                 button, checks, attempts, clicks, tokens>>

\* confirmAccountDetails; an account that is not filled in is rejected at once.
AccountChecked(c) ==
  /\ c \in checks /\ page # "left" /\ ~EffectDue
  /\ checks' = checks \ {c}
  /\ \/ /\ c[2] = "good"
        /\ directDebit' = [directDebit EXCEPT !.phase = "confirmation"]
     \/ directDebit' = [directDebit EXCEPT !.formError = TRUE]
  /\ UNCHANGED <<offer, page, type, payment, form, details, recaptcha, stripe, wallet,
                 button, setups, attempts, clicks, tokens>>

\* Stripe answers createPaymentMethod, confirmCardSetup, or the wallet's set-up.
Authorises(a) ==
  /\ \E stage \in {"createPaymentMethod", "confirmCardSetup", "walletSetup"} :
       Answering(a, stage)
  /\ \/ Authorised(a) /\ NoVerdict
     \/ NotAuthorised(a)
  /\ UNCHANGED Rest

\* PayPal's window, then our one-click-checkout, whose failure is only logged.
WindowCloses(a) ==
  /\ Answering(a, "window")
  /\ To(a, "oneClickCheckout") \/ To(a, "abandoned")
  /\ NoVerdict /\ UNCHANGED Rest

OneClickCheckout(a) ==
  /\ Answering(a, "oneClickCheckout")
  /\ \/ /\ Authorised(a)
        /\ form' = [form EXCEPT !.isWaiting = TRUE, !.paymentComplete = FALSE]
     \/ To(a, "abandoned") /\ UNCHANGED form
  /\ UNCHANGED <<page, wallet>> /\ UNCHANGED Rest

\* createOneOffPayPalPayment
PayPalCreated(a) ==
  /\ Answering(a, "createPayPal")
  /\ \/ To(a, "redirected") /\ page' = "left" /\ UNCHANGED <<form, wallet>>
     \/ To(a, "failed") /\ Failed("PayPal")
  /\ UNCHANGED Rest

\* Mutant: the customer is told of a failure while the job is under way.
CreatedIsNotAwaited(a) ==
  /\ Answering(a, "posting")
  /\ attempts' = [attempts EXCEPT ![a].stage = "failed", ![a].job = "running"]
  /\ Failed(attempts[a].method)
  /\ UNCHANGED Rest

\* postRegularPaymentRequest: accepted, refused (500 or 400), or no answer, when the
\* request may have arrived all the same.
Posted(a) ==
  /\ Answering(a, "posting")
  /\ \/ /\ attempts' = [attempts EXCEPT ![a].stage = "polling", ![a].job = "running"]
        /\ NoVerdict
     \/ To(a, "failed") /\ Failed(attempts[a].method)
     \/ /\ \E job \in {"none", "running"} :
             attempts' = [attempts EXCEPT ![a].stage = "failed", ![a].unknown = TRUE,
                                          ![a].job = job]
        /\ Failed(attempts[a].method)
  /\ UNCHANGED Rest

\* support-workers, for as long as they like.
JobEnds(a) ==
  /\ a \in DOMAIN attempts /\ attempts[a].job = "running"
  /\ \E job \in {"succeeded", "failed"} : attempts' = [attempts EXCEPT ![a].job = job]
  /\ NoVerdict /\ UNCHANGED Rest

\* Mutants of Poll: a poll that is lost is not counted; whatever is final is a success.
OnlyAnswersCount(a) ==
  /\ Answering(a, "polling")
  /\ \/ attempts[a].job = "succeeded" /\ To(a, "succeeded") /\ Succeeded
     \/ attempts[a].job = "failed" /\ To(a, "failed") /\ Failed(attempts[a].method)
     \/ attempts' = [attempts EXCEPT ![a].polls = @ + 1] /\ NoVerdict
  /\ UNCHANGED Rest
AnyFinalStatus(a) ==
  /\ Answering(a, "polling") /\ attempts[a].job \in {"succeeded", "failed"}
  /\ To(a, "succeeded") /\ Succeeded
  /\ UNCHANGED Rest

\* One poll of pollUntilPromise: a final status is the verdict; a pending one or a lost
\* answer counts, and the last of them is taken for a success.
Poll(a) ==
  /\ Answering(a, "polling")
  /\ \/ attempts[a].job = "succeeded" /\ To(a, "succeeded") /\ Succeeded
     \/ attempts[a].job = "failed" /\ To(a, "failed") /\ Failed(attempts[a].method)
     \/ /\ attempts[a].polls + 1 < MaxPolls
        /\ attempts' = [attempts EXCEPT ![a].polls = @ + 1]
        /\ NoVerdict
     \/ /\ attempts[a].polls + 1 = MaxPolls
        /\ attempts' = [attempts EXCEPT ![a].polls = @ + 1, ![a].stage = "succeeded"]
        /\ Succeeded
  /\ UNCHANGED Rest

\* Mutant: a charge without an answer is reported as a failure.
LostIsFailed(a) ==
  /\ Answering(a, "charging") \/ Answering(a, "confirming")
  /\ \/ attempts' = [attempts EXCEPT ![a].stage = "succeeded", ![a].paid = TRUE] /\ Succeeded
     \/ /\ \E paid \in BOOLEAN :
             attempts' = [attempts EXCEPT ![a].stage = "failed", ![a].paid = paid]
        /\ Failed(attempts[a].method)
  /\ UNCHANGED Rest

\* processStripePaymentIntentRequest.  An answer that is lost rejects the promise and
\* onPaymentResult never runs.
Charged(a) ==
  /\ Answering(a, "charging") \/ Answering(a, "confirming")
  /\ \/ /\ attempts' = [attempts EXCEPT ![a].stage = "succeeded", ![a].paid = TRUE]
        /\ Succeeded
     \/ To(a, "failed") /\ Failed(attempts[a].method)
     \/ attempts[a].stage = "charging" /\ To(a, "threeDS") /\ NoVerdict
     \/ /\ \E paid \in BOOLEAN :
             attempts' = [attempts EXCEPT ![a].stage = "lost", ![a].paid = paid]
        /\ NoVerdict
  /\ UNCHANGED Rest

\* handle3DS
Handle3DS(a) ==
  /\ Answering(a, "threeDS")
  /\ \/ To(a, "confirming") /\ NoVerdict
     \/ To(a, "failed") /\ Failed(attempts[a].method)
  /\ UNCHANGED Rest

-----------------------------------------------------------------------------
Customer ==
  \/ \E t \in ContributionTypes : ChooseType(t)
  \/ Continue
  \/ \E m \in PaymentMethods : SelectMethod(m)
  \/ Change
  \/ \E v \in BOOLEAN : EditDetails(v)
  \/ \E c \in BOOLEAN : EditCard(c)
  \/ \E account \in {"none", "good", "bad"} : EditAccount(account)
  \/ SolveRecaptcha
  \/ ExpireRecaptcha
  \/ ClickPay
  \/ ClickDirectDebit
  \/ ClickPayPal
  \/ ClickWallet
  \/ \E v \in BOOLEAN : AuthoriseWallet(v)
  \/ CancelWallet

Answer(a) ==
  \/ Authorises(a)
  \/ WindowCloses(a)
  \/ OneClickCheckout(a)
  \/ PayPalCreated(a)
  \/ Posted(a)
  \/ JobEnds(a)
  \/ Poll(a)
  \/ Charged(a)
  \/ Handle3DS(a)

Next ==
  \/ Customer
  \/ ValidationEffect
  \/ SecretEffect
  \/ \E t \in setups : SetupIntent(t)
  \/ \E c \in checks : AccountChecked(c)
  \/ \E a \in DOMAIN attempts : Answer(a)

Spec == Init /\ [][Next]_vars

\* Effects run, a fetch resolves or rejects, and the customer ends what has a window of
\* its own (3-D Secure, the wallet's sheet, PayPal).
FairSpec ==
  /\ Spec
  /\ WF_vars(ValidationEffect) /\ WF_vars(SecretEffect)
  /\ WF_vars(\E c \in checks : AccountChecked(c))
  /\ \A a \in 1..(MaxClicks + MaxTokens) :
       WF_vars(Authorises(a) \/ OneClickCheckout(a) \/ PayPalCreated(a) \/ Posted(a)
               \/ Poll(a) \/ Charged(a) \/ Handle3DS(a))

-----------------------------------------------------------------------------
Attempt ==
  [by : {"click", "secret", "wallet"}, click : 0..MaxClicks,
   method : PaymentMethods \cup {"Wallet"}, type : ContributionTypes,
   stage : Stages, job : {"none", "running", "succeeded", "failed"},
   polls : 0..MaxPolls, paid : BOOLEAN, unknown : BOOLEAN]

\* Every slice has the shape its reducer keeps.
TypeOK ==
  /\ offer \in Offers
  /\ page \in {"landing", "checkout", "thankYou", "left"}
  /\ type \in ContributionTypes
  /\ payment \in PaymentMethods \cup {"None"}
  /\ form \in [isWaiting : BOOLEAN, paymentComplete : BOOLEAN, paymentError : BOOLEAN]
  /\ details \in [valid : BOOLEAN, error : BOOLEAN]
  /\ recaptcha \in [token : 0..MaxTokens, solved : BOOLEAN, error : BOOLEAN]
  /\ stripe \in [complete : BOOLEAN, error : BOOLEAN, showErrors : BOOLEAN,
                 secret : 0..MaxTokens]
  /\ directDebit \in [account : {"none", "good", "bad"}, error : BOOLEAN,
                      formError : BOOLEAN, phase : {"entry", "confirmation"}]
  /\ wallet \in [clicked : BOOLEAN, completed : BOOLEAN, error : BOOLEAN,
                 sheet : {"closed", "open", "authorised"}]
  /\ button \in [click : 0..MaxClicks, awaiting : BOOLEAN,
                 ran : {<<>>} \cup ((0..MaxClicks) \X BOOLEAN \X BOOLEAN),
                 ranSecret : (0..MaxTokens) \X BOOLEAN]
  /\ setups \subseteq 1..MaxTokens
  /\ checks \subseteq (1..MaxClicks) \X {"none", "good", "bad"}
  /\ attempts \in Seq(Attempt)
  /\ clicks \in 0..MaxClicks /\ tokens \in 0..MaxTokens

\* The thank-you page (checkoutScaffold's effect on paymentComplete) is shown only to a
\* customer who was charged, whose job succeeded, or whose polls ran out.
ThankYouIsTrue ==
  page = "thankYou" =>
    \E a \in DOMAIN attempts :
      /\ attempts[a].stage = "succeeded"
      /\ attempts[a].paid \/ attempts[a].job = "succeeded" \/ attempts[a].polls = MaxPolls

\* A failure that onPaymentResult reports, unless it is that no answer came, is the
\* failure of a payment that bought nothing and never will.
FailureIsTrue ==
  \A a \in DOMAIN attempts :
    attempts[a].stage = "failed" /\ ~attempts[a].unknown =>
      ~attempts[a].paid /\ attempts[a].job \in {"none", "failed"}

\* A click is paid for at most once, however the errors and the phase that
\* useValidation's effects depend on change after it.
OneAttemptPerClick ==
  \A a, b \in DOMAIN attempts :
    /\ attempts[a].by = "click" /\ attempts[b].by = "click"
    /\ attempts[a].click = attempts[b].click
    => a = b

\* Where only one-off contributions are offered, the overlay and the effects together
\* see to it that a customer is charged at most once, even when an answer is lost.
PaidOnceInOneOffVisit ==
  offer.types = {"ONE_OFF"} =>
    \A a, b \in DOMAIN attempts : attempts[a].paid /\ attempts[b].paid => a = b

\* With Sepa or an existing card, two requests reach support-workers only after the
\* answer to the first was lost.
SecondPurchaseOnlyAfterLostPost ==
  /\ offer.types = {"MONTHLY"} /\ ~offer.wallet
  /\ offer.switches["MONTHLY"] \subseteq {"Sepa", "ExistingCard"}
  =>
    \A a, b \in DOMAIN attempts :
      /\ a < b
      /\ attempts[a].job \in {"running", "succeeded"}
      /\ attempts[b].job \in {"running", "succeeded"}
      => attempts[a].unknown

\* The overlay of a bank payment goes away, or gives way to the thank-you page: every
\* branch after the click (the check of the account, the request, the polls) reports.
WaitingEnds ==
  /\ offer.types = {"MONTHLY"} /\ ~offer.wallet
  /\ offer.switches["MONTHLY"] \subseteq {"DirectDebit", "Sepa", "ExistingCard"}
  /\ form.isWaiting
  ~> ~form.isWaiting \/ page = "thankYou"

\* What StripePaymentButton says of an early click: it records that the customer intends
\* to pay, and pays when the secret is available.
PaidByAClick ==
  Cardinality({a \in DOMAIN attempts : attempts[a].method = "Stripe"}) <= clicks

=============================================================================
