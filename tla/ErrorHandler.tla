---------------------------- MODULE ErrorHandler ----------------------------
(***************************************************************************)
(* The errors a support-workers lambda can end with, the retry class its   *)
(* error handler gives each of them, and what the Retry blocks of the      *)
(* state machine do with a class.  A constant module: no state.            *)
(*                                                                         *)
(* An error is named by the service it comes from and by the code that the *)
(* handlers tell apart; the wording of messages is left out, except for    *)
(* the two texts FailureHandler looks for.                                 *)
(***************************************************************************)
EXTENDS Naturals

CONSTANTS
  LimitedAttempts,  \* MaxAttempts of the RetryLimited retrier (5 in retries.yaml)
  EmailAttempts     \* MaxAttempts of the e-mail lambdas' retrier (1 in emailRetries.yaml)

ASSUME AttemptsAssumption == LimitedAttempts \in Nat /\ EmailAttempts \in Nat

RetryClasses == {"RetryNone", "RetryLimited", "RetryUnlimited", "Unclassified"}

ErrorsOf(service, codes) == [service : {service}, code : codes]

(* "idempotency_error" stands for a type that Stripe documents and         *)
(* fromStripeError does not list.                                          *)
StripeErrors == ErrorsOf("Stripe",
  {"api_connection_error", "api_error", "rate_limit_error", "authentication_error",
   "card_error", "invalid_request_error", "invalid_request_error: test token",
   "validation_error", "idempotency_error"})

PayPalErrors == ErrorsOf("PayPal", {"500", "400"})

ZuoraErrors == ErrorsOf("Zuora",
  {"API_DISABLED", "LOCK_COMPETITION", "REQUEST_EXCEEDED_LIMIT", "REQUEST_EXCEEDED_RATE",
   "SERVER_UNAVAILABLE", "UNKNOWN_ERROR", "TEMPORARY_ERROR", "INVALID_VALUE",
   "TRANSACTION_FAILED", "TRANSACTION_FAILED: postal_code"})

SalesforceErrors == ErrorsOf("Salesforce",
  {"INVALID_SESSION_ID", "REQUEST_LIMIT_EXCEEDED",
   "INSERT_UPDATE_DELETE_NOT_ALLOWED_DURING_MAINTENANCE", "UNKNOWN_ERROR"})

\* Answers whose body is not in the service's own error format: a 4xx code, any
\* other code or content (WebServiceHelperError), or a 2xx body that does not decode.
WebServiceErrors == ErrorsOf("WebService",
  {"401", "429", "400", "WebServiceHelperError", "DecodingFailure"})

\* putAcquisitionEvent answered Left: SendAcquisitionEvent throws a RetryNone itself.
EventBusErrors == ErrorsOf("EventBus", {"Left"})

(* Errors of the lambda's own code and of the platform.  A lambda whose    *)
(* time is up ends with a TimeoutException or is killed: "LambdaTimeout".  *)
GeneralErrors == ErrorsOf("General",
  {"SocketTimeoutException", "SocketException", "SSLException", "ParsingFailure", "MatchError",
   "StateNotValidException", "BuildSubscribePromoError", "RuntimeException", "LambdaTimeout"})

Exceptions ==
  UNION {StripeErrors, PayPalErrors, ZuoraErrors, SalesforceErrors, WebServiceErrors,
         EventBusErrors, GeneralErrors}

RuntimeException == [service |-> "General", code |-> "RuntimeException"]

-----------------------------------------------------------------------------
(* The partial match of fromStripeError: a type it does not list raises a  *)
(* MatchError inside the recover block, which no RetryException replaces.  *)
FromStripeError(e) ==
  CASE e.code \in {"api_connection_error", "api_error", "rate_limit_error"} -> "RetryUnlimited"
    [] e.code = "authentication_error" -> "RetryLimited"
    [] e.code \in {"card_error", "invalid_request_error", "invalid_request_error: test token",
                   "validation_error"} -> "RetryNone"
    [] OTHER -> "Unclassified"

FromZuoraError(e) ==
  CASE e.code \in {"API_DISABLED", "LOCK_COMPETITION", "REQUEST_EXCEEDED_LIMIT",
                   "REQUEST_EXCEEDED_RATE", "SERVER_UNAVAILABLE", "UNKNOWN_ERROR"}
         -> "RetryUnlimited"
    [] e.code = "TEMPORARY_ERROR" -> "RetryLimited"
    [] OTHER -> "RetryNone"

FromSalesforceError(e) ==
  IF e.code \in {"INVALID_SESSION_ID", "REQUEST_LIMIT_EXCEEDED",
                 "INSERT_UPDATE_DELETE_NOT_ALLOWED_DURING_MAINTENANCE"}
  THEN "RetryUnlimited"
  ELSE "RetryNone"

FromPayPalError(e) == IF e.code = "500" THEN "RetryUnlimited" ELSE "RetryNone"

FromWebServiceError(e) ==
  CASE e.code \in {"WebServiceHelperError", "429"} -> "RetryUnlimited"
    [] e.code = "401" -> "RetryLimited"
    [] OTHER -> "RetryNone"

\* Mutant: the last case of the error handler's match is an unlimited retry.
UnknownIsUnlimited(e) ==
  CASE e.code = "LambdaTimeout" -> "Unclassified"
    [] e.code \in {"ParsingFailure", "StateNotValidException", "BuildSubscribePromoError"} -> "RetryNone"
    [] OTHER -> "RetryUnlimited"

(* The platform's own errors reach the Retry block under their own name:   *)
(* Handler rethrows a non-fatal exception of Await as it is.               *)
FromGeneralError(e) ==
  CASE e.code \in {"SocketTimeoutException", "SocketException", "SSLException"} -> "RetryUnlimited"
    [] e.code = "RuntimeException" -> "RetryLimited"
    [] e.code = "LambdaTimeout" -> "Unclassified"
    [] OTHER -> "RetryNone"

ToRetryException(e) ==
  CASE e.service = "Stripe" -> FromStripeError(e)
    [] e.service = "PayPal" -> FromPayPalError(e)
    [] e.service = "Zuora" -> FromZuoraError(e)
    [] e.service = "Salesforce" -> FromSalesforceError(e)
    [] e.service = "WebService" -> FromWebServiceError(e)
    [] e.service = "EventBus" -> "RetryNone"
    [] OTHER -> FromGeneralError(e)

-----------------------------------------------------------------------------
\* Mutant: the e-mail lambdas' block without MaxAttempts for some classes.
OnlyLimitedCounted(emailRetry, class) == class = "RetryLimited"

(* The Retry blocks.  A block is a list of retriers and each counts its    *)
(* own attempts; RetryUnlimited and States.ALL allow 999999, more than the *)
(* backoff leaves room for before the execution's TimeoutSeconds, so only  *)
(* the RetryLimited count, or the e-mail lambdas' single count, matters.   *)
Counted(emailRetry, class) == emailRetry \/ class = "RetryLimited"

Retried(emailRetry, class, used) ==
  /\ class # "RetryNone"
  /\ emailRetry => used < EmailAttempts
  /\ (~emailRetry /\ class = "RetryLimited") => used < LimitedAttempts

(* FailureHandler.handleError: the errors it knows as a failed payment; it *)
(* marks every other failure as one of the software.                       *)
PaymentFailures ==
  {[service |-> "Zuora", code |-> "TRANSACTION_FAILED"],
   [service |-> "Stripe", code |-> "card_error"],
   [service |-> "Stripe", code |-> "invalid_request_error: test token"]}

=============================================================================
