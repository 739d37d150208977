------------------------ MODULE MCCheckoutExecution ------------------------
(***************************************************************************)
(* Instances of CheckoutExecution for TLC: sets of inputs and of faults    *)
(* small enough to explore and rich enough that every retry class occurs   *)
(* at every lambda.                                                        *)
(***************************************************************************)
EXTENDS CheckoutExecution, TLC

Buying(new, p) == [accountExists |-> ~new, product |-> p, threeTier |-> FALSE,
                   knownPromo |-> FALSE, testUser |-> FALSE]

\* A new customer for each kind of product that differs for the state machine,
\* an existing account with a product it may and one it may not reuse, a test user.
SingleInputs ==
  {Buying(TRUE, "DigitalSubscriptionGift"), Buying(TRUE, "GuardianWeekly"),
   Buying(FALSE, "SupporterPlus"), Buying(FALSE, "GuardianWeekly"),
   [Buying(TRUE, "Contribution") EXCEPT !.testUser = TRUE]}

LiveInputs == {Buying(TRUE, "DigitalSubscriptionGift"), Buying(FALSE, "SupporterPlus"),
               Buying(FALSE, "GuardianWeekly")}

ThreeTier(known) == [accountExists |-> FALSE, product |-> "GuardianWeekly",
                     threeTier |-> TRUE, knownPromo |-> known, testUser |-> FALSE]
\* Of the third tier with a promotion the state machine knows, and with another.
ThreeTierInputs == {ThreeTier(TRUE), ThreeTier(FALSE)}

Fault(service, code) == [service |-> service, code |-> code]
Timeout == Fault("General", "SocketTimeoutException")  \* RetryUnlimited
Killed == Fault("General", "LambdaTimeout")            \* not a RetryException
Unknown == Fault("General", "RuntimeException")        \* RetryLimited
Undecodable == Fault("WebService", "DecodingFailure")  \* RetryNone, answer lost
CardError == Fault("Stripe", "card_error")             \* RetryNone
Declined == Fault("Zuora", "TRANSACTION_FAILED")       \* RetryNone
PostalCode == Fault("Zuora", "TRANSACTION_FAILED: postal_code")
BusRefuses == Fault("EventBus", "Left")                \* RetryNone

OneOfEachClass == {Timeout, Killed, Unknown, Undecodable, CardError, Declined, PostalCode,
                   BusRefuses}
LateFaults == {Timeout, Killed, Undecodable, Declined, BusRefuses}
OnlyLosses == {Timeout}
LossAndLimit == {Timeout, Unknown, Declined}
=============================================================================
