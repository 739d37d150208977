# A verification project for support-frontend

TLA+ models of the parts of support-frontend that move money and promises about:
the three checkouts in the browser, the Step Functions execution behind a recurring
checkout, the lambdas it invokes, the redemption of gift codes, what each of them
tells the customer, and the synchronisation of the supporter product data table
with Zuora. TLC checks
the models on small instances, TLAPS proves the main properties for every value
of the constants. `PROJECT.json` maps every definition to the lines it is
translated from.

## 1. The system

### Inventory

| Component | State it keeps | Operations | Hard behaviour |
|---|---|---|---|
| **support-workers** (`src/support-workers`) | the execution's input and `$.error`; nothing of its own | Step Functions states `PreparePaymentMethodForReuse`, `CreatePaymentMethod`, `CreateSalesforceContact`, `CreateZuoraSubscription`, the four branches of `ParallelTasks`, the second pass of the third tier, `FailureHandler` | lambdas retried without idempotency keys, answers lost after the effect, a Parallel state without a Catch, the second subscription of one request |
| **error classification** (`ErrorHandler.scala`, `Responses.scala`, `retries.yaml`) | none | an exception becomes `RetryNone`, `RetryLimited`, `RetryUnlimited` or keeps its own name | partial matches, errors wrapped or not |
| **gift redemption** (`ZuoraDigitalSubscriptionGiftRedemptionHandler`, `GiftCodeValidator`, `ZuoraGiftService`) | `CreatedRequestId__c`, `GifteeIdentityId__c` of the subscription in Zuora | look-up of the code, PUT of the redeemer | check and unconditional write, retry after a lost answer, expiry |
| **status page and its polling** (`SupportWorkersClient`, `readerRevenueApis.ts`) | none in the server, the number of polls in the browser | start of an execution, status from the execution's history, ten polls | the history is read while it grows; a success that is taken back |
| **supporter-product-data** (Zuora → SQS → DynamoDB) | `lastSuccessfulQueryTime`, CSV files in S3, a standard queue, the table | query, fetch, enqueue in batches, write one item | order on the queue, partial batch failures, attempts that repeat half a file |
| **support-payment-api** (one-off Stripe, PayPal, Amazon Pay) | none of its own; payments at the providers | create, confirm, capture and execute a payment, refund hooks, the tasks after a payment | payment first and everything else afterwards, without a transaction |
| **retry helper and identity** (`EitherTRetry`, `DelayedFuture`) | none | look-up or creation of an identity, three attempts | a future that fails instead of answering `Left` |
| **stripe-patrons-data** | rows of the same DynamoDB table | the daily import, sign-up and cancellation events | import against events, joint patrons |
| **settings and switches** | the cached settings of each server | polling of S3, purge of the CDN, the rate limiter's counter | read and write without a lock, a purge that fails |
| **acquisition events** (`support-lambdas`) | none | translation of one message at a time | partial failures of a batch |
| **contributions checkout** (`supporter-plus-landing`, its components and Redux slices) | the slices of one tab: product type, payment method, personal details, recaptcha, card, bank account, wallet, `form`; the local state of the payment button | choosing a contribution and a method, filling in, paying by card, bank, PayPal or wallet; the promises that follow | effects that pay when values they depend on change; answers after the customer has gone on; an overlay that several components put up and take down |
| **generic checkout** (`pages/[countryGroupId]/checkout.tsx`, `thank-you.tsx`) | the `useState`s of one component, `thankYouOrder` in the session storage | the link with its product and price, the form, `formOnSubmit`, PayPal's agreement, polling, the thank-you page | an effect that submits the form; state of the last render; an overlay no failure takes away |
| **subscription checkouts** (paper, Guardian Weekly) | the slices of one tab, `stage`, the local state of `StripeForm` | details, postcode and delivery agent, validation, payment by card, bank or PayPal, polls | a late look-up of delivery agents; a card that is set up while the form changes; rules checked by the page and others by the server |
| **remaining pages** (TypeScript) | one browser tab's | presentation | – |
| **models, configuration, CDK** | – | data definitions, deployment | – |

### How the parts interact

A checkout in the browser collects what the customer wants, has Stripe, PayPal or our
servers prepare the payment, and posts a request (a one-off payment goes to the payment
API instead). The web server starts one execution per request
(`SupportWorkersClient`, `Client.scala`) and answers the browser's polls from the
execution's history; what the browser shows as a verdict is its reading of these polls.
Nothing on the server knows that two requests are the same customer's second click: only
the browser's overlay and the dependencies of its effects prevent that. The
state machine (`state-machine.yaml`) invokes one lambda after the other; each
receives the JSON of the previous one, calls Stripe, PayPal, GoCardless,
Salesforce or Zuora, and answers or throws. `ErrorHandler` turns what was thrown
into the exception class the `Retry` blocks know; a class that is not retried
goes through `Catch` to `FailureHandler`, which mails the customer. Once a
subscription exists four branches run in parallel: `CheckoutSuccess`, which only
exists for the status page to find, the thank-you mail, the row of the supporter
product data table and the acquisition event. The state of a purchase is
therefore spread over Zuora, the mail queue, DynamoDB, the event bus and the
execution itself, and no step changes two of them at once.

### What makes each component correct

- *support-workers*: a request buys a product at most once; nothing is sent or
  recorded without a subscription of that request; the status page never lies and
  does not take back a success; one verdict by mail; every purchase is fulfilled
  or raises an alarm; every execution ends.
- *gift redemption*: who is thanked was written into the subscription; a refusal as
  used is never caused by the request's own earlier attempt; who is refused gets
  nothing; one request per code.
- *contributions checkout*: the thank-you page is shown to who bought, a failure to who did
  not; one click pays once; the customer is not charged twice without a lost answer; the
  overlay goes away.
- *generic checkout*: the same, with the overlay as the only guard; one agreement creates one
  subscription; no link makes the page send an amount the others refuse; pending ends.
- *subscription checkouts*: what the page says of an order is true; an order can be delivered;
  a payment needs a press of a button; a second subscription needs a lost answer or an order
  sent while another was waited for; the progress message goes away.
- *status polling*: an answer the browser shows as final is final.
- *supporter-product-data*: every change in Zuora reaches the table, and its newest
  version stays there.
- *payment-api*: a captured payment is recorded, a refund finds its contribution.
- *retry helper*: every call completes, after at most three attempts.
- *patrons*: a cancelled patron is not active again after the import.
- *settings*: every server ends up with the settings of S3.

## 2. The modules

| Module | What it is |
|---|---|
| `ErrorHandler` | constant module: the errors the handlers tell apart, their retry classes, what a Retry block does with a class, which errors count as a failed payment |
| `CheckoutExecution` | the executions of the state machine, their lambdas and what they leave behind |
| `CheckoutPromise` | abstract specification: what a checkout for one subscription promises its customer |
| `CheckoutJob` | abstract specification: what the polls of a browser may see of the jobs support-workers does |
| `CheckoutVisit` | abstract specification: what a checkout page promises its customer |
| `GiftRedemption` | the requests that redeem one gift code |
| `SupporterProductSync` | the executions that copy changes from Zuora to the supporter product data table, and the queue between |
| `ContributionsCheckout` | one visit to the contributions checkout: pages, slices, payment button, answers |
| `GenericCheckout` | one visit to the generic checkout and its thank-you page |
| `SubscriptionCheckout` | one visit to a paper or Guardian Weekly checkout: form, delivery agents, card form, direct debit, PayPal, orders |
| `MCCheckoutExecution`, `MCGiftRedemption`, `MCContributionsCheckout`, `MCGenericCheckout`, `MCSubscriptionCheckout` | inputs, faults, visits, links and offers of the instances TLC checks |
| `CheckoutExecutionProofs` | types, fulfilment, how checkouts end, and what the polls see, for every instance |
| `CheckoutVisitProofs` | what follows from `CheckoutVisit` for the customer, and what it relies on |
| `CheckoutPromiseProofs` | the properties of requests for one subscription, and the refinement of `CheckoutPromise` |
| `GiftRedemptionProofs` | the properties of the redemption |
| `SupporterProductSyncProofs` | type correctness, and that nothing is lost behind the query time |
| `ContributionsCheckoutProofs` | types, verdicts, clicks and charges of the contributions checkout |
| `GenericCheckoutProofs` | types, orders, purchases and amounts of the generic checkout, and its refinement of `CheckoutVisit` |
| `SubscriptionCheckoutProofs` | types, verdicts, deliveries, presses and second purchases of the subscription checkouts, and their refinement of `CheckoutVisit` |

`CheckoutExecution` extends `ErrorHandler` and instantiates `CheckoutPromise` with the
refinement mapping. The redemption is the `CreateZuoraSubscription` lambda of other
products and shares no state with the purchase; the synchronisation sees purchases only
as changes in Zuora. Each checkout in the browser is a module of its own in which an
accepted request becomes a `job` that ends at any time with any outcome. `CheckoutJob`
is the contract between the two sides: the executions keep it (`ImplementsJob`), the visits
rely on nothing else of their jobs (`ReliesOnJobs`, proved of `CheckoutVisit`, which
`GenericCheckout` and `SubscriptionCheckout` implement). `EveryExecutionEnds` adds that a
job does end.

### CheckoutExecution

One record of variables per request: `status` (as Step Functions sees the
execution), `step` and `phase` (the state and how far its lambda is), `retries`
and `branchRetries` (what the retriers have counted), `error` (`$.error`),
`product`, `branch` (the four branches), `history` (the exits the status page
looks for), `draft` and `giftCode`. The outside world is `subs` (Zuora), `late`
(calls whose caller gave up), `paymentMethods`, `contacts`, `thanked`,
`apologised`, `rows` and `events`.

- A lambda is not one step. `Invoke` starts it; `CreatePaymentMethod`,
  `CreateSalesforceContact`, `PreparePaymentMethodForReuse` and `RefusePaymentMethod`
  end it; `SetupFails` ends it with an error before or after its last call took effect.
- `CreateZuoraSubscription` is split at its calls: `LookUp`
  (`GetSubscriptionWithCurrentRequestId`, `ratePlansMatch`), `Subscribe`, and
  `SubscriptionKnown`, the answer. `ZuoraFails` may happen between any two, so a
  subscription may exist although its attempt failed, and with `LateCommits` may
  come to exist afterwards.
- `LambdaError` is the state's `Retry` and `Catch`; `BranchError` the `Retry` of a
  branch, which has no `Catch`. An invocation under way when its execution ends goes
  on: its effects happen and nobody waits for its answer.
- `Join` is the chain of choices after `ParallelTasks`; `FailureHandler` mails,
  then `SucceedOrFailChoice` ends the execution as failed or, for payment failures
  and test users, as succeeded (`ExecutionOutcome`).
- `ExecutionTimesOut` is `TimeoutSeconds: 86400`; it may strike at any time.

Data are abstracted to what the control looks at: the product type, whether an
account exists, whether the request is for the third tier, whether its promotion
is one of the fourteen the state machine lists, whether it is a test user.

A retrier for `RetryUnlimited` or `States.ALL` allows 999 999 attempts with a growing
backoff; the execution's day is over long before, so these attempts are not
counted. `LimitedAttempts` (5 in `retries.yaml`) and `EmailAttempts` (1 in
`emailRetries.yaml`) are constants.

### CheckoutPromise

Four variables a customer could name: what was bought, what they were welcomed
for, whether they were told of a failure, whether as a declined payment. `Buy` only
once and never after bad news, `Welcome` only what was bought and never after bad
news, `Fail` never after a welcome, `Decline` only when nothing was bought. The
refinement mapping reads `purchases` off `subs` (without the gift code), `welcomed`
off `thanked`, `told` off `apologised`, and `declined` off `apologised` and `error`.
It allows what the code cannot exclude: an unexplained failure mailed to a customer
whose subscription was created by an attempt whose answer was lost.

### CheckoutJob and CheckoutVisit

`CheckoutJob` has one variable, the `status` of every job as the status page answers it: "none"
until the request is accepted, "pending", then one final status. `CheckoutExecution` maps it to
`CheckoutStatus`; a request for the third tier counts as pending throughout, since its success
may be taken back by the second pass.

`CheckoutVisit` has the `orders` begun in a visit, each with its `job` and with what the
customer was `told` of it, and whether there are thanks on the page. An order becomes a job only
while the page waits for it (`Accept`) or as the answer is lost (`Lose`); it is told once
(`Thank`, `Refuse`, `Lose`, `GiveUp`), and `Refuse` is for an order without a job or with one that
failed. "unknown" is an order the page has lost sight of: an answer that never came, or polls that
ran out. The page may say "failed" of it or show the pending form of its thanks; no truth about
the job is promised. `ThanksForPending` is TRUE for the subscription checkouts, whose stage
"thankyou-pending" is `GiveUp`, and FALSE for the generic one, which polls without end. The
refinement mappings read `told` off the stage of an attempt (`Verdict`) and `thanked` off the page.
`ContributionsCheckout` is not mapped: its one-off payments are charged without a job.

### GiftRedemption

`redeemer` is the subscription's request id and giftee; `written` the requests whose
PUT was executed. `LookUp` is the query and `getSubscriptionState` with its order of
cases (expired before redeemed), `UpdateSubscriptionRedemptionData` the PUT, which
carries no condition, `Answer` the lambda's answer, `LambdaFails` an error at any
point, `LateCommit` a PUT executed after its caller's end, `Expire` the end of the
twelve months. A refusal raises a `RuntimeException`, which the state machine retries
like any other.

### SupporterProductSync

Time is counted in changes: `changes` lists the subscriptions changed in Zuora, and the
i-th change is version i of its subscription. `lastTime` is `lastSuccessfulQueryTime` in
the parameter store, `loaded` the values that containers of `QueryZuoraLambda` read when they
started, `latePuts` the writes of it that `FetchResultsLambda` starts and does not wait for.
An execution carries the data of its JSON (`asked` for `attemptedQueryTime`, `file`,
`processed`) and what Zuora has of it (`since`, `hasRun`); they are cleared when it ends.

- `Schedule` starts an execution whether or not others are under way. `QueryZuora` notes
  the time, up to a minute ago, and asks for the changes since the time its container
  knows, or for all of them (`Full`). `RunQuery` is Zuora's: the newest version of each
  subscription changed in the window, and perhaps older ones, in the order of the query.
- `FetchResults` ends an execution without rows and otherwise goes on; `QueryFails` is an
  error of either lambda, which `FetchResults` raises on purpose while the job runs.
- `Invoke`, `SendBatch`, `StopBeforeTimeout`, `AllSent` and `AddFails` are the invocations of
  `AddSupporterRatePlanItemToQueue`. `SendBatch` is `sqsClient.sendMessageBatch` twice, with
  any part of the batch accepted by each call; `SendBatchThrows` includes the index of a
  rejected entry that is out of the batch's range.
- `WriteItem`, `WriteFails` and `ProcessFails` handle one message in any order: delivery of a
  standard queue and `Future.sequence`. Each may leave the message on the queue, since another
  message of its batch may have failed; at `maxReceiveCount` it becomes a dead letter.

`reported` holds the rows whose failure is in the error log with an alarm asked for. That the
alarm itself may fail, which the code only logs, is not told apart.

### ContributionsCheckout

One variable per slice of the Redux store the payment depends on (`type`, `payment`, `form`,
`details`, `recaptcha`, `stripe`, `directDebit`, `wallet`), `button` for the local state of the
mounted payment button, and `attempts`, one record per payment begun with the stage its chain
of promises has reached.

- `Continue`, `Change`, `SelectMethod`, the edits and the clicks are the customer's. A customer
  can act where `Free` allows it: no overlay, no window of PayPal's or the wallet's.
- `ValidationEffect` and `SecretEffect` are React's effects. `button.ran` holds the dependencies
  they last ran with; an effect is due when they differ and runs before the next event. What
  an effect reads but does not depend on (the secret, the method) is read when it runs.
- `validateForm` is the action every slice listens to; a schema that succeeds leaves old errors.
- The answers (`SetupIntent`, `AccountChecked`, `Authorises`, `WindowCloses`, `OneClickCheckout`,
  `PayPalCreated`, `Posted`, `Poll`, `Charged`, `Handle3DS`) come in any order, fail or get lost
  as their handlers allow. `paymentAuthorisationHandlers` chooses what follows an authorisation
  by the type and method selected when it arrives, as `onThirdPartyPaymentAuthorised` does.

### GenericCheckout

One variable per `useState` of `CheckoutComponent`, and `order` for the session storage. `Render`
is what every render does besides showing the form: it unsets the order, and it looks for the
card element, which only an earlier render can have mounted. `formOnSubmit` runs to its first
await; `Confirmed`, `Created` and `Poll` are what follows it. `Agreed` is the answer of
one-click-checkout together with the effect on `payPalBAID`, which submits the form again.
`PageOf`, `isInvalidAmount` and `Amount` translate the link: what is shown, refused and sent.

### SubscriptionCheckout

`form` is what the reducers of the form keep (errors, the error of the submission,
`formSubmitted`), `valid` whether the personal details pass their rules, `entered` the postcodes
typed, the last of which is in the form, and `lookups` those whose delivery agents have not been
answered. `card` is the local state of `StripeForm`, `setups` and `secret` the setup intents
being fetched and the client secret, named by the recaptcha they belong to. `attempts` has one
record per payment begun; an order is one that has reached "posting".

- `deliveryErrors` and `postCodeError` are the rules, `dispatchAllErrors` what a failed
  validation writes: lists of errors replace the old ones, an empty list replaces nothing, so
  errors that were put right elsewhere stay and hold the next press back.
- `EnterPostcode` starts a look-up outside the M25 and clears the agents inside it;
  `AgentsFound` is an answer, in any order, with a single agent chosen at once.
- `PayNow` is the handler and the effect after its render. `SetupIntent` is the answer together
  with the effect that confirms for a payment that waits. `Confirmed` validates again and posts
  by the method selected by then; `Agreed` posts PayPal's order as it is.
- `Free` is the progress message and PayPal's window; it does not cover a card being confirmed.
- `ServerAccepts` is what `CreateSubscriptionController` looks at again: the recaptcha of a
  direct debit, and whether the agent covers the postcode or the postcode is within the M25.

Guardian Weekly is an offer of fulfilment "Collection" here: it has no agents and no M25.

## 3. What TLC checks

| Run | Instance | What it shows |
|---|---|---|
| `single` | one request; five inputs that cover both first states, products that may and may not reuse a payment method, a gift and a test user; one fault of each retry class at each lambda, with and without effect | types; no double subscription; a final status; no thank-you and apology together; no explained decline with a subscription; a success is fulfilled completely; mails bounded by the attempts; `CheckoutPromise` and `CheckoutJob` are implemented |
| `threetier` | both passes of the third tier, calls executed late | what still holds when a product may be bought twice: fulfilment, status, completeness |
| `live` | fairness, losses and limited errors | every execution ends before its timeout; every purchase is answered or raises an alarm |
| `second_subscription` | third tier, a lost answer | violated, see findings |
| `redemption` | three requests for one code, late PUTs, expiry | types; whoever is thanked was written; a code is reported as used only if another request used it |
| `two_redeemers` | two requests | violated, see findings |
| `sync` | a full and an incremental synchronisation, two subscriptions, two changes, batches of one, each message handled once | types; no change before `lastSuccessfulQueryTime` is unaccounted for |
| `cancellation` | one synchronisation of one subscription with two versions | violated, see findings |
| `contributions` | one visit for each combination of country, contribution types and methods whose handling differs; two clicks, one recaptcha, two polls | types; true verdicts; a click pays once; a one-off visitor is charged once; a second bank purchase only after a lost answer; the overlay of a bank payment ends |
| `paid_by_a_click` | a card visit, one click, two recaptchas | violated, see findings |
| `generic` | links at the edges of the price for every kind of product; two submissions, one PayPal window, two recaptchas | types; the thank-you page and its order are true; one request per agreement; the overlay bounds the purchases; amounts; `CheckoutVisit` is implemented; pending ends |
| `subscription` | seven offers: card, bank, card or PayPal, all methods; deliveries by card and PayPal with two postcodes typed, one for the weekend only; up to two presses and two recaptchas, two polls | types; the page is true; only a replaced postcode makes an order undeliverable; presses; second purchases; `CheckoutVisit` is implemented; the progress message ends |

Deadlock is not checked: an execution that has ended stops, as it should, so does the
synchronisation when no execution is left to be scheduled, and so does a visit.

**Bounds.** `MaxSubs` bounds the subscriptions of a behaviour and is a guard of
`CreateInZuora`. In `single` it is one more than the request should ever create, in the
third-tier runs one or two more than the two products: a further subscription would repeat a violation already
found. Uncounted retries need no bound, since they return to an earlier state.
`LimitedAttempts` is 0 to 2 and `EmailAttempts` 0 or 1: the code's guards compare the
counter with the constant only, so one attempt below and one at the limit are
both reached. Each class of retry behaviour occurs in the faults of `single`, with
errors in one class being indistinguishable for the machine; the errors that are
distinguished further (a declined payment, an error that leaves a call under way)
have a fault of their own. The runs of the redemption use symmetry on the requests.
That a refused request does not hold the gift needs late PUTs and expiry switched off and no
run of its own, since `RefusedCorrect` proves it for any number of requests. That
two requests of one customer do not disturb each other needs no run: `FulfilmentCorrect`,
`OneSubscriptionCorrect` and `PromiseImplemented` are proved for any number of requests. In `sync` two executions can overlap and save
their times in either order, `MaxChanges` of 2 lets a change fall before, into and after a
window and one version replace another, a `BatchSize` of 1 makes a file of two rows two
batches, and `MaxReceives` of 1 reaches the dead letters. `AddAttempts` is 0 there: an
invocation that starts again from `processed` also follows `StopBeforeTimeout`, and the
theorem holds for every bound. `cancellation` needs a `BatchSize` of 2 and one execution.

In `contributions`, `MaxClicks` of 2 lets a customer pay again after a failure and change
anything in between; `MaxPolls` of 2 separates the last poll from one before it (the code
compares the count with `MAX_POLLS` only); `MaxTokens` of 1 lets a recaptcha be solved and
expire, and `paid_by_a_click` needs 2. In `generic`, two submissions and one agreement can
overlap in every way that `PurchasesBounded` tells apart, and two recaptchas answer in either
order. Amounts are compared with the price of Supporter Plus only, so the links are at, below
and above 0, 1 and that price. In `subscription` each offer has bounds of its own (`EveryBound`)
and leaves out what its methods have no use for: two presses where one form is used
alone, two recaptchas for direct debit and where the card can be exchanged for PayPal, one of each where
all three forms can be exchanged, two postcodes for deliveries with one press, and two where PayPal delivers
the weekend only.
Inside the M25, a village with one agent (chosen at once) and a town with two (to be chosen)
are all the kinds of places the rules know. Two subscriptions, more payments than presses, an
order that cannot be delivered and a weekend order outside the M25 all occur. The theorems hold for every value of these bounds.

**Fairness.** `live` assumes weak fairness for what Step Functions and AWS Lambda do by
themselves: invoke the lambda of the current state, move on after an answer, and end
an invocation with an answer or an error, at the latest when its configured time is
up. It assumes strong fairness for the success of each call: an outage ends, so a call
repeated for ever with `RetryUnlimited` succeeds once. Without that a machine that
retries for a day can only be ended by its timeout, which the code does on purpose.
No fairness is assumed for errors, timeouts and late calls, and none for
`FailureHandler`'s mail, since its block has few attempts.

`contributions` assumes weak fairness of what the browser does by itself: effects run, a
fetch resolves or rejects (it does not stay open for ever), and the customer answers a
3-D Secure dialog one way or the other. A poll needs no fairness of support-workers: an
unanswered or pending poll counts too. `generic` assumes that jobs end, which `live` shows
of the executions, and that a status asked for every second is answered once it is final.
`subscription` assumes weak fairness of the requests and polls only, since the progress message
is up only while one of them is under way.
Nothing is assumed of the customer's own actions.

## 4. What is proved

| Theorem | Statement | Assumption |
|---|---|---|
| `CheckoutExecutionProofs!TypeCorrect` | `TypeOK` | – |
| `CheckoutExecutionProofs!FulfilmentCorrect` | `FulfilmentHasSubscription`, third tier and late calls included | – |
| `CheckoutExecutionProofs!StatusCorrect` | `StatusIsTrue`, third tier and late calls included | – |
| `CheckoutExecutionProofs!SucceededCorrect` | `SucceededMeansFulfilled`, both products of a third tier | – |
| `CheckoutExecutionProofs!MailsCorrect` | `MailsBounded` | – |
| `CheckoutExecutionProofs!SuccessFinalCorrect` | `SuccessIsFinal`, of requests for one subscription | – |
| `CheckoutExecutionProofs!JobImplemented` | `ImplementsJob` | – |
| `CheckoutExecutionProofs!OneVerdictCorrect` | `OneVerdictByMail`, late calls included | no input is of the third tier |
| `CheckoutPromiseProofs!OneSubscriptionCorrect` | `OneSubscriptionPerProduct` | `OneSubscriptionOnly` |
| `CheckoutPromiseProofs!DeclinedCorrect` | `DeclinedBoughtNothing` | `OneSubscriptionOnly` |
| `CheckoutPromiseProofs!PromiseImplemented` | `ImplementsPromise` | `OneSubscriptionOnly` |
| `CheckoutVisitProofs!VerdictsCorrect` | `VerdictsAreTrue` | – |
| `CheckoutVisitProofs!VerdictsStayCorrect` | `VerdictsStay` | – |
| `CheckoutVisitProofs!JobsReliedOn` | `ReliesOnJobs` | – |
| `GiftRedemptionProofs!TypeCorrect` | `TypeOK` | – |
| `GiftRedemptionProofs!AnsweredCorrect` | `AnsweredIsWritten` | – |
| `GiftRedemptionProofs!UsedByAnotherCorrect` | `UsedByAnother` | – |
| `GiftRedemptionProofs!RefusedCorrect` | `RefusedHoldsNothing` | `Calm` |
| `SupporterProductSyncProofs!TypeCorrect` | `TypeOK` | – |
| `SupporterProductSyncProofs!NothingLostCorrect` | `NothingLost` | – |
| `ContributionsCheckoutProofs!TypeCorrect` | `TypeOK` | – |
| `ContributionsCheckoutProofs!ThankYouIsTrueCorrect` | `ThankYouIsTrue` | – |
| `ContributionsCheckoutProofs!FailureIsTrueCorrect` | `FailureIsTrue` | – |
| `ContributionsCheckoutProofs!OneAttemptPerClickCorrect` | `OneAttemptPerClick` | – |
| `ContributionsCheckoutProofs!PaidOnceInOneOffVisitCorrect` | `PaidOnceInOneOffVisit` | – |
| `ContributionsCheckoutProofs!SecondPurchaseOnlyAfterLostPostCorrect` | `SecondPurchaseOnlyAfterLostPost` | – |
| `GenericCheckoutProofs!TypeCorrect` | `TypeOK` | – |
| `GenericCheckoutProofs!ThankYouIsTrueCorrect` | `ThankYouIsTrue` | – |
| `GenericCheckoutProofs!OneRequestPerAgreementCorrect` | `OneRequestPerAgreement` | – |
| `GenericCheckoutProofs!PurchasesBoundedCorrect` | `PurchasesBounded` | – |
| `GenericCheckoutProofs!AmountsAreAcceptableCorrect` | `AmountsAreAcceptable` | – |
| `GenericCheckoutProofs!VisitImplemented` | `ImplementsVisit` | – |
| `SubscriptionCheckoutProofs!TypeCorrect` | `TypeOK` | – |
| `SubscriptionCheckoutProofs!PageIsTrueCorrect` | `PageIsTrue` | – |
| `SubscriptionCheckoutProofs!OrdersAreDeliveredCorrect` | `OrdersAreDelivered` | – |
| `SubscriptionCheckoutProofs!PaidByAPressCorrect` | `PaidByAPress` | – |
| `SubscriptionCheckoutProofs!SecondPurchaseCorrect` | `SecondPurchase` | – |
| `SubscriptionCheckoutProofs!VisitImplemented` | `ImplementsVisit` | – |

All hold for any number of requests or executions, any inputs, any set of faults and any
limits; those of the checkouts for any visits, links or offers, any prices, postcodes and
agents, and any number of clicks, recaptchas and polls.

*Fulfilment.* That nothing is sent without a subscription is not inductive: a branch
delivers because its execution is in `ParallelTasks`, and it is there because
`CreateZuoraSubscription` was in phase "known". `FulfilInv` adds these links:
`KnownIsPurchased`, `ParallelIsPurchased` (both speak of the product of the current
pass, which is what makes the second pass of the third tier come out right) and
`BranchRunsInParallel`.

*How checkouts end.* The status, the completeness of a success and the number of mails are facts
about the end of an execution that its middle must prepare; `OutcomeInv` is what it carries:
`BranchesDeliver` says what a branch that is done has left for the product of the
current pass, `Round` that the second pass begins when the first product has been delivered,
`ThanksCounted` and `ApologiesCounted` that an e-mail lambda has sent at most one mail for each
attempt counted and one more when it is not tried again, and `HistoryIsTrue` what the exits
in the history stand for. `ThanksCounted` was not inductive until it said that a second pass is
due only for the third tier's product and promotions. No assumption is needed: a subscription
bought twice is still a subscription, which `FulfilInv` provides.

*What the polls see.* `JobInv` places an execution with a final status: after a failure it is
over, and after the success of one subscription it is in `ParallelTasks`, from where
it cannot reach `FailureHandler`. `StepExits` reduces the actions to three effects (no exit,
that of `CheckoutSuccess`, that of `SucceedOrFailChoice`); `SuccessIsFinal`, `ImplementsJob` and
`OneVerdictByMail` follow, late calls included. The third tier must be
excluded where it is: its second pass may fail after the first was thanked for.

*Visits.* `CheckoutVisit` needs an invariant of one line per verdict, and its steps seen through
`StatusOf` are those of `CheckoutJob`. The two checkouts reach it by what their
proofs know already: the generic one by `Effects`, which reduces its actions to a submission, an
answer to an agreement, a move or an end of an attempt, and by `Truth`; the subscription
checkouts by `OtherStep` and `AnswerStep` and by `Books`, without which a poll that runs out could not
be `GiveUp` (the job must exist) nor a refusal `Refuse` (it must not). What `VerdictsCorrect`
says then holds of the mapped orders of both pages, read through the refinement mapping.

*The promise.* `OneSubscriptionOnly` says that no input is of the third tier and that
Zuora executes no call after its caller gave up. Both halves are needed: the run
`second_subscription` violates the property without the first, and without the
second a look-up may come before a call that is still under way. `PromiseInv`
adds where an execution can be, given what it bought and what its customer
was told: nothing is bought before Zuora (`NoneBeforeZuora`), an attempt that is about
to subscribe has bought nothing (`AbsentIsAbsent`, the heart of the argument:
only the request's own lambda buys for it, and one is under way at a time), a payment
error means nothing was bought (`PaymentErrorBeforeSubs`), thanks and a success belong
to `ParallelTasks`, an apology to `FailureHandler`. The refinement follows action by
action: `Subscribe` is `Buy`, the delivery of the mail is `Welcome`, `FailureHandler` is
`Decline` or `Fail`, everything else a stutter.

*Redemption.* `WrittenInv` relates the redeemer to the PUTs that were executed. For
`RefusedHoldsNothing` the assumption `Calm` (no late PUTs, no expiry) is needed, since a
PUT that arrives late takes the gift over from whoever holds it.

*Synchronisation.* `NothingLost` speaks of the time in the parameter store only, but a later
step may put another one there. `SyncInv` says the same of every time that can get there:
`ClockInv` of those that containers have read (an older execution may query from
them) and of the late puts, `ExecutionInv` of the start of each query (`Covered(since)`). The
file covers the window between the start and `asked` (`WindowInFile`), the rows before the two
counts are accounted for (`SentInv`), so when all is sent the time asked for is covered
(`SentCovers`) and may be saved. What is covered stays so: history only grows
(`HistoryStays`), and a row leaves the queue only into the table, the dead letters or the log
(`AccountedStays`). Retries and overlaps need no case of their own: `SameQuery` covers every step
that keeps an execution's query, and `OthersKeep` the steps of others.

*Verdicts of the contributions checkout.* `Sound` says of each attempt by itself what its
stage says of its money and its job; `SoundOutcome` shows that no answer breaks it, once
`Answers` has reduced the eleven answers to changes of one record.

*One attempt per click.* The click number is unique, so what must be shown is that an attempt
by this click exists only if the effect has run for it (`Used` implies `Handled`), and that an
effect that has run for a click does not run for it again without errors in between, which
clear the click (`ClicksInv`). The mutant of this property makes the effect depend on every
value it reads, and the argument fails.

*Charges.* A visitor with one-off contributions, or with Sepa and existing cards, begins a
payment only without the overlay, and the overlay is up while an attempt is under way.
`ExclusiveInv` needs four parts: the method is one the visit offers (`Selection`), an attempt
under way is the last and covered by the overlay or the wallet's sheet (`Overlay`), the effect
has seen the click of an attempt under way (`Seen`), and errors dropped the click (`Dropped`).
Where direct debit, cards for regular payments or PayPal for regular payments are offered the
overlay has gaps, and the properties do not claim it.

*The generic checkout.* `PurchasesBounded` follows from `Bounded`: if the overlay is not shown,
every live attempt is paid for by an answered agreement; clicks need its absence, and what
an agreement begins is counted on both sides. `ThankYouIsTrue` follows from `Truth` (the order
is that of a succeeded attempt), `OneRequestPerAgreement` from `Agreements` (an attempt by
PayPal carries an agreement that has been answered), the amounts from `Amounts` (an attempt
exists only where the page showed a form).

*The subscription checkouts.* `PageIsTrue` needs `Books`: what an attempt's stage says of its
job. For `SecondPurchase`, `OneOrder` says that unless an order was late or an answer lost (`Overlap`), at
most one order is waited for or has succeeded, and the progress message is up then.
`OrdersAreDelivered` rests on `Delivery`: as long as no valid postcode has been replaced
(`TypedOnce`), look-ups are of places outside the M25, the agents in the store are those of the
postcode in the form or none (`AgentsMatch`), so whatever passes the rules can be delivered
(`CanDeliver`), and so can a form whose PayPal button is enabled or whose window is open.
For `PaidByAPress` the invariant
`Pressed` counts the payments `StripeForm` begins by itself: each uses up a setup intent, the
intents still being fetched can begin at most one each, and the first of them is paid for by
the press that began to wait.

**Only model-checked.** Liveness (`EveryExecutionEnds`, `PurchaseIsAnswered`, `WaitingEnds`,
`PendingEnds`, `OverlayEnds`): fairness and ENABLED are out of the prover's reach. Every invariant
and every action property of the passing runs, and every refinement, is stated by a theorem.
Induction over data and RECURSIVE operators, which the prover does not support either, do not
occur. That the theorems of `CheckoutVisitProofs` carry over to the checkouts by `VisitImplemented`
is an argument of this README and not an obligation of its own.

## 5. Findings

1. **A second Supporter Plus** (`second_subscription`).
   `GetSubscriptionWithCurrentRequestId.scala:31` returns the first subscription with
   the request's id. In the second pass of the third tier a request has two; when
   the answer of the second subscribe call is lost, the retry may be given the
   Guardian Weekly, whose rate plans do not match, and subscribes again. Zuora takes the
   payment with the subscription.
2. **A code redeemed by two requests** (`two_redeemers`). The check of the code and the
   PUT are two calls and the PUT has no condition; both requests succeed and the
   second takes the gift. The integration test says "exactly one request".
3. **The older version wins** (`cancellation`). `SelectActiveRatePlansQuery.scala:52` orders
   the rows so that "cancellations come after the active version of the sub". A standard
   queue, concurrent writes and an update without a condition do not keep that order: the
   table may end with the active version of a cancelled subscription.
4. **A payment without a click** (`paid_by_a_click`). `stripePaymentButton.tsx:49` records that
   a customer who clicks before the recaptcha *intends* to pay, and pays when the client
   secret is available. Nothing takes the intention back: when the recaptcha expires and is
   solved again, the next secret confirms another payment.

Other disagreements met on the way, which no run shows:

- `stripeForm.tsx:347` says of the effect that pays: "User has already completed the form and
  clicked the button". The press it remembers is put back by an error of Stripe's only: when the
  order that followed was refused or failed, a recaptcha solved again pays without a press
  (`PaidByAPress` allows exactly that).
- The progress message of the subscription checkouts covers the page from the request on, not
  while a card is confirmed. With two setup intents being fetched, a press that waits confirms
  for each, and two subscriptions may be bought; and a card that is confirmed after the method
  was changed to direct debit posts the account as typed (`Confirmed`).
- `StripeForm` keeps a client secret that was used: a card paid with it once more is declined
  until the recaptcha is solved again (`Spent`). After a setup intent that failed the button
  stays disabled.
- Errors put right elsewhere (the confirmation of an e-mail address, an agent chosen by an
  answer) are still in the form and hold the next press of "Pay now" back (`dispatchAllErrors`);
  an error of the postcode hides the agents that a later answer brings (`ChooseAgent`).
- PayPal's order is not validated again and its button is not looked at after a late answer of
  the look-up (`Agreed`, `AgentsFound`); that a Saturday or Sunday paper is delivered within the
  M25 only is a rule of the page which the server does not check.
- `state-machine.yaml:201` describes `CheckoutFailure` as a checkout that did not work; a
  declined second payment of the third tier ends there after the first subscription was
  bought and thanked for.
- `error-handling.md:21` says parsing errors are retried; `ErrorHandler.scala:63` classifies
  them as `RetryNone`.
- `usePaymentRequestEvent.ts:70` says a cancel event after an authorisation is ignored; its
  handler was registered before there was a payment method, deselects the method, and the
  payment that was authorised is refused without a word (`CancelWallet`).
- `thank-you.tsx` expects the order the checkout has set; a render between `setThankYouOrder`
  and the end of the navigation unsets it (`Navigate` to page "noOrder").

## 6. Not modelled

- How many customers, agreements or mandates the attempts of `CreatePaymentMethod` and
  `PreparePaymentMethodForReuse` leave at the providers: they are not used again.
- Amounts, dates, promotions and the content of mails: no control depends on them.
- The two mails of a gift purchase are one. That a retry generates a new code before it
  finds the subscription with the old one is modelled (`draft`, `giftCode`) and not yet
  asked about.
- The web page's own check of a gift code.
- Of the contributions checkout: amounts and their validation, Amazon Pay, an existing direct
  debit, entering the checkout page by its own address, how Stripe.js and PayPal's script
  load, the fields of the forms one by one.
- Of the generic checkout: Amazon Pay beyond its radio button, addresses and the single
  fields of the form, tracking, the acquisition data sent with the request.
- The larger part of the TypeScript presents: pages, components, styles, tables of countries,
  currencies, prices and copy, type definitions of libraries (`flow-typed`), stories and tests.
  It has no state that changes in more than one way, so there is nothing to check of it; the
  share of the lines the models stand for is small for that reason.
- Of the subscription checkouts: the other fields of the addresses and the billing address, gifts,
  a change of country, start dates, submission by the Enter key, a recaptcha that is switched
  off, how Stripe.js and PayPal's script load.
- Hazards of parts that are not modelled, besides those in `PROJECT.json`: a delayed attempt
  that fails with an exception never completes its promise (`DelayedFuture.scala:19`); a payment
  PayPal has executed is lost when the identity look-up fails (`PaypalBackend.scala:136`); a
  cancellation between the patrons import's read and its write is undone
  (`PatronCancelledEventLambda.scala:192`); a synchronisation loops when a file has fewer rows
  than counted (`cfn.yaml:306`).
- Of the synchronisation: the columns of a row, the contribution's amount, discount items
  (excluded by the query, dropped without a trace by the writer), files that cannot be read
  (an invocation that fails, `AddFails`), and a file with fewer rows than Zuora's
  `recordCount`, for which the state machine would loop.
- The components the inventory lists and section 2 does not: see the plan.

## 7. Plan

In this order; 1 to 7 and 11 are done.

1. `ErrorHandler`: the classes everything else uses.
2. `CheckoutExecution` with `CheckoutPromise`, and their proofs.
3. `GiftRedemption` and its proofs.
4. `SupporterProductSync` and the proof that nothing is lost. Left: whether a file with fewer
   rows than counted ends, and liveness (a change is delivered or reported at last).
5. `ContributionsCheckout` and its proofs.
6. `GenericCheckout` and its proofs.
7. `SubscriptionCheckout` and its proofs. Left: the fields of the addresses, and gifts.
8. `OneOffPayment`: the Stripe intents, PayPal's execute and capture, the tasks after a
   payment, the refund hooks and the contributions queue; a captured payment is tracked
   or an alarm raised, a refund overtaking its contribution.
9. `PatronsImport`: the import's page against sign-up and cancellation events, joint
   patrons; a cancelled patron stays cancelled.
10. `RetryHelper` with the identity look-up; the settings cache and the limiter's counter.
11. Proofs: `StatusIsTrue`, `SucceededMeansFulfilled` and `MailsBounded`; `CheckoutJob` and
    `CheckoutVisit` between the executions and the pages.
12. `ContributionsCheckout` as a visit: an order that is charged without a job.

A run whose question a theorem has answered for every instance makes room for those of later
modules, so that all of section 3 can be run again on every change.
