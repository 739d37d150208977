--------------------------- MODULE GiftRedemption ---------------------------
(***************************************************************************)
(* Checkout requests that redeem the code of one gift subscription: the    *)
(* CreateZuoraSubscription lambda of their executions, from its first      *)
(* invocation to the answer or the error that ends its state.  A request   *)
(* looks the code up and, if the gift is free, writes itself into the      *)
(* subscription; Zuora's PUT carries no condition, so what the look-up saw *)
(* may be stale when it is executed.                                       *)
(***************************************************************************)
EXTENDS ErrorHandler

CONSTANTS
  Requests,     \* the requests that try to redeem the code
  Nobody,       \* the redeemer of a free gift
  Faults,       \* the errors the environment may cause, a subset of Exceptions
  LateCommits,  \* TRUE: Zuora may execute a PUT after its caller gave up on it
  MayExpire     \* TRUE: the gift's twelve months may end while it is being redeemed

ASSUME RedemptionAssumption ==
  /\ Nobody \notin Requests
  /\ Faults \subseteq Exceptions
  /\ LateCommits \in BOOLEAN /\ MayExpire \in BOOLEAN

Phases == {"waiting", "running", "valid_gift_code", "redeemed_in_this_request", "ended"}
Refusals == {"code_already_used", "code_expired"}
Outcomes == {"none", "answered", "error"} \cup Refusals

VARIABLES
  redeemer,  \* CreatedRequestId__c and GifteeIdentityId__c of the subscription
  expired,   \* contractEffectiveDate is more than twelve months ago
  phase,     \* of each request's lambda
  retries,   \* attempts its RetryLimited retrier has counted
  outcome,   \* how the state CreateZuoraSubscription ended for the request
  written,   \* requests whose PUT Zuora has executed
  late       \* requests whose PUT is under way and not waited for

gift == <<redeemer, expired, written, late>>
lambda == <<phase, retries, outcome>>
vars == <<gift, lambda>>

Init ==
  /\ redeemer = Nobody /\ expired = FALSE
  /\ phase = [r \in Requests |-> "waiting"]
  /\ retries = [r \in Requests |-> 0]
  /\ outcome = [r \in Requests |-> "none"]
  /\ written = {} /\ late = {}

-----------------------------------------------------------------------------
\* Mutants: the test for the same request is gone; the client's name of a status
\* that is not one of the lambda's phases.
NoMatchByRequest(r) ==
  IF expired THEN "code_expired"
  ELSE IF redeemer = Nobody THEN "valid_gift_code" ELSE "code_already_used"
FreeAfterExpiry(r) == IF expired THEN "gift_code_expired" ELSE "valid_gift_code"

(* GiftCodeValidator.getSubscriptionState: the first case that holds.      *)
GetSubscriptionState(r) ==
  CASE expired -> "code_expired"
    [] ~expired /\ redeemer = Nobody -> "valid_gift_code"
    [] ~expired /\ redeemer = r -> "redeemed_in_this_request"
    [] OTHER -> "code_already_used"

Invoke(r) ==
  /\ phase[r] = "waiting"
  /\ phase' = [phase EXCEPT ![r] = "running"]
  /\ UNCHANGED <<gift, retries, outcome>>

(* The state's Retry block, and its Catch when there is no attempt left;   *)
(* "what" is what the failed execution reports.                            *)
LambdaError(r, e, what) ==
  LET class == ToRetryException(e) IN
  IF Retried(FALSE, class, retries[r]) THEN
    /\ phase' = [phase EXCEPT ![r] = "waiting"]
    /\ retries' = IF Counted(FALSE, class) THEN [retries EXCEPT ![r] = @ + 1] ELSE retries
    /\ UNCHANGED outcome
  ELSE
    /\ phase' = [phase EXCEPT ![r] = "ended"]
    /\ outcome' = [outcome EXCEPT ![r] = what]
    /\ UNCHANGED retries

(* The query of the code.  A code that may not be redeemed raises a        *)
(* RuntimeException, of which the state machine makes another attempt.     *)
LookUp(r) ==
  /\ phase[r] = "running"
  /\ IF GetSubscriptionState(r) \in Refusals
     THEN LambdaError(r, RuntimeException, GetSubscriptionState(r))
     ELSE /\ phase' = [phase EXCEPT ![r] = GetSubscriptionState(r)]
          /\ UNCHANGED <<retries, outcome>>
  /\ UNCHANGED gift

Write(r) ==
  /\ redeemer' = r
  /\ written' = written \cup {r}

\* Mutant: an answer with success = false passes for a success.
FailedResponseIsSuccess(r) ==
  /\ phase[r] = "valid_gift_code"
  /\ Write(r) \/ UNCHANGED <<redeemer, written>>
  /\ phase' = [phase EXCEPT ![r] = "redeemed_in_this_request"]
  /\ UNCHANGED <<expired, late, retries, outcome>>

(* updateSubscriptionRedemptionData, whoever the redeemer is by now.       *)
UpdateSubscriptionRedemptionData(r) ==
  /\ phase[r] = "valid_gift_code"
  /\ Write(r)
  /\ phase' = [phase EXCEPT ![r] = "redeemed_in_this_request"]
  /\ UNCHANGED <<expired, late, retries, outcome>>

\* The lambda answers and the execution goes on to thank the recipient.
Answer(r) ==
  /\ phase[r] = "redeemed_in_this_request"
  /\ phase' = [phase EXCEPT ![r] = "ended"]
  /\ outcome' = [outcome EXCEPT ![r] = "answered"]
  /\ UNCHANGED <<gift, retries>>

(* A call fails, or the PUT is executed and its answer lost.  An error of  *)
(* the PUT itself is wrapped in a RuntimeException unless the lambda is    *)
(* killed first; its PUT may still be on its way.                          *)
LambdaFails(r) ==
  /\ phase[r] \in {"running", "valid_gift_code", "redeemed_in_this_request"}
  /\ \E e \in Faults :
       /\ LambdaError(r, e, "error")
       /\ \/ UNCHANGED late
          \/ /\ LateCommits /\ phase[r] = "valid_gift_code"
             /\ e.code \in {"RuntimeException", "LambdaTimeout"}
             /\ late' = late \cup {r}
  /\ UNCHANGED <<redeemer, expired, written>>

LateCommit(r) ==
  /\ r \in late
  /\ Write(r)
  /\ late' = late \ {r}
  /\ UNCHANGED <<expired, lambda>>

\* Midnight of the day the code's twelve months are over.
Expire ==
  /\ MayExpire /\ ~expired
  /\ expired' = TRUE
  /\ UNCHANGED <<redeemer, written, late, lambda>>

Next ==
  \/ \E r \in Requests :
       \/ Invoke(r) \/ LookUp(r) \/ UpdateSubscriptionRedemptionData(r) \/ Answer(r)
       \/ LambdaFails(r) \/ LateCommit(r)
  \/ Expire

Spec == Init /\ [][Next]_vars

-----------------------------------------------------------------------------
(* Properties.                                                             *)

\* Every variable keeps its type.
TypeOK ==
  /\ redeemer \in Requests \cup {Nobody}
  /\ expired \in BOOLEAN
  /\ phase \in [Requests -> Phases]
  /\ retries \in [Requests -> Nat]
  /\ outcome \in [Requests -> Outcomes]
  /\ written \subseteq Requests /\ late \subseteq Requests

(* A recipient who is thanked has been written into a subscription: after  *)
(* however many attempts, and whether this attempt or an earlier one did.  *)
AnsweredIsWritten ==
  \A r \in Requests :
    outcome[r] = "answered" => r \in written /\ redeemer # Nobody

(* The comment on CodeRedeemedInThisRequest: a retry after a lost answer   *)
(* is not mistaken for a second use.  "code_already_used" is only said     *)
(* when another request has redeemed the code.                             *)
UsedByAnother ==
  \A r \in Requests :
    outcome[r] = "code_already_used" => \E q \in Requests \ {r} : q \in written

(* A request that was refused does not hold the gift, nor will it.         *)
RefusedHoldsNothing ==
  \A r \in Requests : outcome[r] \in Refusals => redeemer # r /\ r \notin late

(* The integration test: a code is redeemed "in exactly one request".      *)
RedeemedInOneRequest ==
  \A q, r \in Requests : (outcome[q] = "answered" /\ outcome[r] = "answered") => q = r

=============================================================================
