----------------------- MODULE GenericCheckoutProofs -----------------------
(***************************************************************************)
(* Theorems of GenericCheckout: its types, that the overlay and the         *)
(* agreements bound the purchases, that an agreement is used once, that     *)
(* the thank-you page is reached after a success, and that amounts are ones *)
(* the rest of the site accepts, for any links, prices and bounds.          *)
(***************************************************************************)
EXTENDS GenericCheckout, FiniteSetTheorems, TLAPS

AgreementStates == {"window", "approved", "abandoned", "answered", "failed"}
Pages == {"noProduct", "invalidAmount", "checkout", "leaving", "thankYou", "noOrder", "noType"}

\* A link's amount is an integer.
LEMMA AmountType ==
  ASSUME NEW v \in Visits PROVE Amount(v) \in Int
BY VisitsAssumption DEF Amount, NoPrice

\* What a submission adds is an attempt.
LEMMA AttemptType ==
  ASSUME TypeOK, NEW by \in {"click", "baid"}, NEW baid \in 0..MaxApprovals,
         method \in {"Stripe", "PayPal", "DirectDebit"},
         NEW stage \in {"confirming", "posting"}
  PROVE  Attempt(by, baid, stage) \in Attempts
<1>1. Amount(visit) \in Int
  BY AmountType DEF TypeOK
<1> QED BY <1>1 DEF Attempt, Attempts, TypeOK

\* A submission adds one attempt and shows the overlay, or adds none.
LEMMA Submission ==
  ASSUME TypeOK, NEW by \in {"click", "baid"}, NEW baid \in 0..MaxApprovals,
         formOnSubmit(by, baid)
  PROVE  /\ order' = "None" /\ cardSeen' \in BOOLEAN /\ isProcessing' \in BOOLEAN
         /\ \/ attempts' = attempts
            \/ /\ isProcessing' = TRUE
               /\ \E c \in {0, baid}, stage \in {"confirming", "posting"} :
                    /\ method = "PayPal" => c = baid
                    /\ method \in {"Stripe", "PayPal", "DirectDebit"}
                    /\ Attempt(by, c, stage) \in Attempts
                    /\ attempts' = Append(attempts, Attempt(by, c, stage))
<1>1. CASE /\ CardReady
           /\ attempts' = Append(attempts, Attempt(by, 0, "confirming"))
           /\ isProcessing' = TRUE
           /\ Render
  <2>1. method = "Stripe"
    BY <1>1 DEF CardReady
  <2>2. 0 \in 0..MaxApprovals
    BY BoundsAssumption
  <2>3. Attempt(by, 0, "confirming") \in Attempts
    BY <2>1, <2>2, AttemptType
  <2> QED BY <1>1, <2>1, <2>3 DEF Render
<1>2. CASE /\ method \in {"PayPal", "DirectDebit"}
           /\ attempts' = Append(attempts, Attempt(by, baid, "posting"))
           /\ isProcessing' = TRUE
           /\ Render
  <2>1. Attempt(by, baid, "posting") \in Attempts
    BY <1>2, AttemptType
  <2> QED BY <1>2, <2>1 DEF Render
<1>3. CASE /\ ~CardReady /\ method \notin {"PayPal", "DirectDebit"}
           /\ isProcessing' = FALSE
           /\ IF isProcessing THEN Render ELSE order' = "None" /\ UNCHANGED cardSeen
           /\ UNCHANGED attempts
  BY <1>3 DEF Render, TypeOK
<1> QED BY <1>1, <1>2, <1>3 DEF formOnSubmit

\* Either way the attempts keep their type.
LEMMA SubmissionType ==
  ASSUME TypeOK, NEW by \in {"click", "baid"}, NEW baid \in 0..MaxApprovals,
         formOnSubmit(by, baid)
  PROVE  attempts' \in Seq(Attempts)
<1>1. CASE attempts' = attempts
  BY <1>1 DEF TypeOK
<1>2. ASSUME NEW new \in Attempts, attempts' = Append(attempts, new)
      PROVE  attempts' \in Seq(Attempts)
  BY <1>2 DEF TypeOK
<1> QED BY <1>1, <1>2, Submission

\* Moving an attempt keeps the sequence's type and everything else of the attempt.
LEMMA MoveType ==
  ASSUME attempts \in Seq(Attempts), NEW a \in DOMAIN attempts,
         NEW stage \in {"confirming", "declined", "posting", "polling", "succeeded", "failed",
                        "lost"},
         NEW job \in {"none", "running", "succeeded", "failed"}, To(a, stage, job)
  PROVE  /\ attempts' \in Seq(Attempts) /\ Len(attempts') = Len(attempts)
         /\ DOMAIN attempts' = DOMAIN attempts
         /\ attempts'[a].stage = stage /\ attempts'[a].job = job
         /\ \A b \in DOMAIN attempts :
              /\ attempts'[b].method = attempts[b].method
              /\ attempts'[b].baid = attempts[b].baid
              /\ attempts'[b].amount = attempts[b].amount
              /\ b # a => attempts'[b] = attempts[b]
<1>1. attempts[a] \in Attempts
  OBVIOUS
<1>2. attempts' = [attempts EXCEPT ![a] = [attempts[a] EXCEPT !.stage = stage, !.job = job]]
  BY <1>1 DEF To, Attempts
<1>3. [attempts[a] EXCEPT !.stage = stage, !.job = job] \in Attempts
  BY <1>1 DEF Attempts
<1>4. attempts' \in Seq(Attempts) /\ Len(attempts') = Len(attempts)
      /\ DOMAIN attempts' = DOMAIN attempts
  BY <1>2, <1>3
<1> QED BY <1>1, <1>2, <1>4 DEF Attempts

-----------------------------------------------------------------------------
(* Type correctness.                                                       *)

\* The types hold at first.
LEMMA TypeInit == Init => TypeOK
<1> SUFFICES ASSUME Init PROVE TypeOK
  OBVIOUS
<1>1. <<>> \in Seq(AgreementStates) /\ <<>> \in Seq(Attempts) /\ Len(<<>>) = 0
  OBVIOUS
<1>2. page \in {"noProduct", "invalidAmount", "checkout"}
  BY DEF Init, PageOf
<1>3. 0 \in 0..MaxTokens /\ 0 \in 0..MaxSubmits /\ 0 \in 0..MaxApprovals
  BY BoundsAssumption
<1>4. agreements \in Seq(AgreementStates) /\ Len(agreements) <= MaxApprovals
  BY <1>1, BoundsAssumption DEF Init
<1>5. attempts \in Seq(Attempts)
  BY <1>1 DEF Init
<1> QED BY <1>2, <1>3, <1>4, <1>5 DEF Init, TypeOK, AgreementStates

\* A further window keeps the agreements' type, and so does an answer.
LEMMA AgreementType ==
  ASSUME agreements \in Seq(AgreementStates), NEW s \in AgreementStates
  PROVE  /\ Append(agreements, s) \in Seq(AgreementStates)
         /\ Len(Append(agreements, s)) = Len(agreements) + 1
         /\ \A i \in DOMAIN agreements :
              /\ [agreements EXCEPT ![i] = s] \in Seq(AgreementStates)
              /\ Len([agreements EXCEPT ![i] = s]) = Len(agreements)
OBVIOUS

\* Every step keeps them.
LEMMA TypeStep == TypeOK /\ [Next]_vars => TypeOK'
<1> SUFFICES ASSUME TypeOK, [Next]_vars PROVE TypeOK'
  OBVIOUS
<1>0. agreements \in Seq(AgreementStates) /\ Len(agreements) \in Nat
  BY DEF TypeOK, AgreementStates
<1>1. ASSUME NEW m \in PaymentMethods, SelectMethod(m) PROVE TypeOK'
  BY <1>1 DEF SelectMethod, TypeOK
<1>2. ASSUME Edit \/ EditAccount PROVE TypeOK'
  BY <1>2 DEF Edit, EditAccount, Render, TypeOK
<1>3. ASSUME SolveRecaptcha PROVE TypeOK'
  <2>0. token' \in 1..MaxTokens
    BY <1>3, BoundsAssumption DEF SolveRecaptcha, TypeOK
  <2>1. token' \in 0..MaxTokens
    BY <2>0, BoundsAssumption
  <2>5. inProgress' \in BOOLEAN
    BY <1>3 DEF SolveRecaptcha, TypeOK
  <2>2. setups' = setups \cup {token'} \/ setups' = setups
    BY <1>3 DEF SolveRecaptcha
  <2>3. setups \subseteq 1..MaxTokens
    BY DEF TypeOK
  <2>4. setups' \subseteq 1..MaxTokens
    BY <2>0, <2>2, <2>3
  <2> QED BY <1>3, <2>1, <2>4, <2>5 DEF SolveRecaptcha, Render, TypeOK
<1>4. ASSUME PayNow PROVE TypeOK'
  <2>1. 0 \in 0..MaxApprovals
    BY BoundsAssumption
  <2>2. formOnSubmit("click", 0)
    BY <1>4 DEF PayNow
  <2>3. /\ order' = "None" /\ cardSeen' \in BOOLEAN /\ isProcessing' \in BOOLEAN
        /\ attempts' \in Seq(Attempts)
    BY <2>1, <2>2, Submission, SubmissionType
  <2>4. submits' \in 0..MaxSubmits
    BY <1>4, BoundsAssumption DEF PayNow, TypeOK
  <2> QED BY <1>4, <2>3, <2>4 DEF PayNow, TypeOK
<1>5. ASSUME ClickPayPal PROVE TypeOK'
  <2>1. agreements' \in Seq(AgreementStates) /\ Len(agreements') <= MaxApprovals
    BY <1>0, <1>5, AgreementType, BoundsAssumption DEF ClickPayPal, AgreementStates
  <2> QED BY <1>5, <2>1 DEF ClickPayPal, TypeOK, AgreementStates
<1>6. ASSUME PayPalLoads PROVE TypeOK'
  BY <1>6 DEF PayPalLoads, Render, TypeOK
<1>7. ASSUME NEW t \in setups, SetupIntent(t) PROVE TypeOK'
  <2>1. t \in 1..MaxTokens
    BY DEF TypeOK
  <2>2. t \in 0..MaxTokens
    BY <2>1, BoundsAssumption
  <2>3. setups' = setups \ {t} /\ setups \subseteq 1..MaxTokens
    BY <1>7 DEF SetupIntent, TypeOK
  <2>4. setups' \subseteq 1..MaxTokens
    BY <2>3
  <2>5. /\ secret' \in 0..MaxTokens /\ inProgress' \in BOOLEAN /\ cardSeen' \in BOOLEAN
        /\ order' \in {"None", "Stripe", "PayPal", "DirectDebit"}
    BY <1>7, <2>2 DEF SetupIntent, Render, TypeOK
  <2> QED BY <1>7, <2>4, <2>5 DEF SetupIntent, TypeOK
<1>8. ASSUME NEW i \in DOMAIN agreements, WindowCloses(i) PROVE TypeOK'
  <2>1. agreements' \in Seq(AgreementStates) /\ Len(agreements') = Len(agreements)
    BY <1>0, <1>8, AgreementType DEF WindowCloses, AgreementStates
  <2> QED BY <1>8, <2>1 DEF WindowCloses, TypeOK, AgreementStates
<1>9. ASSUME NEW i \in DOMAIN agreements, Agreed(i) PROVE TypeOK'
  <2>1. agreements' \in Seq(AgreementStates) /\ Len(agreements') = Len(agreements)
    BY <1>0, <1>9, AgreementType DEF Agreed, AgreementStates
  <2>2. i \in 0..MaxApprovals
    <3>1. i \in 1..Len(agreements)
      BY <1>0
    <3> QED BY <3>1, <1>0, BoundsAssumption DEF TypeOK
  <2>3. /\ payPalBAID' \in 0..MaxApprovals
        /\ order' \in {"None", "Stripe", "PayPal", "DirectDebit"}
        /\ cardSeen' \in BOOLEAN /\ isProcessing' \in BOOLEAN /\ attempts' \in Seq(Attempts)
    <3>1. CASE formOnSubmit("baid", i) /\ payPalBAID' = i
      BY <3>1, <2>2, Submission, SubmissionType
    <3>2. CASE Render /\ UNCHANGED <<isProcessing, attempts>> /\ payPalBAID' = i
      BY <3>2, <2>2 DEF Render, TypeOK
    <3>3. CASE UNCHANGED <<payPalBAID, order, cardSeen, isProcessing, attempts>>
      BY <3>3 DEF TypeOK
    <3> QED BY <1>9, <3>1, <3>2, <3>3 DEF Agreed
  <2> QED BY <1>9, <2>1, <2>3 DEF Agreed, TypeOK, AgreementStates
<1>10. ASSUME NEW a \in DOMAIN attempts, Confirmed(a) \/ Created(a) \/ JobEnds(a) \/ Poll(a)
       PROVE TypeOK'
  <2>1. attempts[a] \in Attempts
    BY DEF TypeOK
  <2>2. attempts' \in Seq(Attempts)
    <3>1. \E stage \in {"confirming", "declined", "posting", "polling", "succeeded", "failed",
                        "lost"},
             job \in {"none", "running", "succeeded", "failed"} : To(a, stage, job)
      BY <1>10, <2>1 DEF Confirmed, Created, JobEnds, Poll, Attempts
    <3> QED BY <3>1, MoveType DEF TypeOK
  <2>3. /\ page' \in Pages /\ order' \in {"None", "Stripe", "PayPal", "DirectDebit"}
        /\ cardSeen' \in BOOLEAN /\ isProcessing' \in BOOLEAN
    BY <1>10, <2>1 DEF Confirmed, Created, JobEnds, Poll, Render, TypeOK, Attempts, Pages
  <2>4. UNCHANGED FormRest
    BY <1>10 DEF Confirmed, Created, JobEnds, Poll
  <2> QED BY <2>2, <2>3, <2>4 DEF FormRest, TypeOK, Pages
<1>11. ASSUME Navigate PROVE TypeOK'
  BY <1>11 DEF Navigate, ThankYou, FormRest, TypeOK
<1>12. ASSUME UNCHANGED vars PROVE TypeOK'
  BY <1>12 DEF vars, TypeOK
<1> QED BY <1>1, <1>2, <1>3, <1>4, <1>5, <1>6, <1>7, <1>8, <1>9, <1>10, <1>11, <1>12
     DEF Next, Customer

\* CheckoutComponent's state keeps its types.
THEOREM TypeCorrect == Spec => []TypeOK
BY TypeInit, TypeStep, PTL DEF Spec

-----------------------------------------------------------------------------
(* What a step does to the attempts, the agreements and the overlay.       *)

\* Every step either
\*  - leaves the attempts and the agreements' answers alone,
\*  - submits by a click, with the overlay down and another method than PayPal,
\*  - answers an agreement, which may submit,
\*  - declines a card, or moves an attempt on.
Kept ==
  /\ UNCHANGED <<attempts, isProcessing>> /\ UNCHANGED visit
  /\ DOMAIN agreements \subseteq DOMAIN agreements'
  /\ \A i \in DOMAIN agreements' :
       agreements'[i] = "answered" <=> i \in DOMAIN agreements /\ agreements[i] = "answered"
  /\ page' # page => page = "leaving" /\ page' \in {"thankYou", "noOrder", "noType"}
  /\ order' \in {order, "None"}

Clicked ==
  /\ Shown /\ ~isProcessing /\ method # "PayPal"
  /\ formOnSubmit("click", 0)
  /\ UNCHANGED <<visit, page, agreements>>

AnsweredBy(i) ==
  /\ Shown /\ i \in DOMAIN agreements /\ agreements[i] = "approved"
  /\ agreements' = [agreements EXCEPT ![i] = "answered"]
  /\ \/ formOnSubmit("baid", i)
     \/ UNCHANGED <<isProcessing, attempts>> /\ order' = "None"
  /\ UNCHANGED <<visit, page>>

Moved(a) ==
  /\ Shown
  /\ \/ /\ attempts[a].stage = "confirming" /\ To(a, "declined", "none")
        /\ isProcessing' = FALSE /\ order' = "None" /\ UNCHANGED page
     \/ /\ attempts[a].stage = "confirming" /\ To(a, "posting", "none")
        /\ UNCHANGED <<isProcessing, order, page>>
     \/ /\ attempts[a].stage = "posting"
        /\ To(a, "polling", "running") \/ \E job \in {"none", "running"} : To(a, "lost", job)
        /\ UNCHANGED <<isProcessing, order, page>>
     \/ /\ attempts[a].stage = "polling"
        /\ \/ /\ attempts[a].job = "succeeded" /\ To(a, "succeeded", "succeeded")
              /\ order' = attempts[a].method /\ page' = "leaving"
           \/ /\ \/ attempts[a].job = "failed" /\ To(a, "failed", "failed")
                 \/ To(a, "lost", attempts[a].job)
              /\ UNCHANGED <<order, page>>
        /\ UNCHANGED isProcessing
  /\ UNCHANGED <<visit, agreements>>

Ended(a) ==
  /\ attempts[a].job = "running"
  /\ \E job \in {"succeeded", "failed"} : To(a, attempts[a].stage, job)
  /\ UNCHANGED <<visit, page, order, isProcessing, agreements>>

\* Every step is one of these.
LEMMA Effects ==
  ASSUME TypeOK, [Next]_vars
  PROVE  \/ Kept
         \/ Clicked
         \/ \E i \in DOMAIN agreements : AnsweredBy(i)
         \/ \E a \in DOMAIN attempts : Moved(a) \/ Ended(a)
<1>0. agreements \in Seq(AgreementStates)
  BY DEF TypeOK, AgreementStates
<1>1. ASSUME \/ \E m \in PaymentMethods : SelectMethod(m)
             \/ Edit \/ EditAccount \/ SolveRecaptcha \/ PayPalLoads
             \/ \E t \in setups : SetupIntent(t)
             \/ Navigate
             \/ UNCHANGED vars
      PROVE  Kept
  BY <1>1 DEF SelectMethod, Edit, EditAccount, SolveRecaptcha, PayPalLoads, SetupIntent, Navigate, Render,
              ThankYou, FormRest, vars, Kept
<1>2. ASSUME PayNow PROVE Clicked
  BY <1>2 DEF PayNow, Free, Clicked
<1>3. ASSUME ClickPayPal PROVE Kept
  <2>1. /\ DOMAIN agreements' = 1..(Len(agreements) + 1)
        /\ DOMAIN agreements = 1..Len(agreements)
        /\ agreements'[Len(agreements) + 1] = "window"
        /\ \A i \in DOMAIN agreements : agreements'[i] = agreements[i]
    BY <1>0, <1>3 DEF ClickPayPal
  <2>2. Len(agreements) \in Nat
    BY <1>0
  <2> QED BY <1>3, <2>1, <2>2 DEF ClickPayPal, Kept
<1>4. ASSUME NEW i \in DOMAIN agreements, WindowCloses(i) PROVE Kept
  <2>1. PICK answer \in {"approved", "abandoned"} :
          agreements' = [agreements EXCEPT ![i] = answer]
    BY <1>4 DEF WindowCloses
  <2>2. DOMAIN agreements' = DOMAIN agreements
    BY <2>1
  <2>3. \A j \in DOMAIN agreements :
          agreements'[j] = IF j = i THEN answer ELSE agreements[j]
    BY <2>1
  <2> QED BY <1>4, <2>2, <2>3 DEF WindowCloses, Kept
<1>5. ASSUME NEW i \in DOMAIN agreements, Agreed(i) PROVE Kept \/ AnsweredBy(i)
  <2>0. /\ Shown /\ agreements[i] = "approved" /\ UNCHANGED <<visit, page>>
    BY <1>5 DEF Agreed
  <2>1. CASE /\ agreements' = [agreements EXCEPT ![i] = "answered"]
             /\ formOnSubmit("baid", i) \/ (Render /\ UNCHANGED <<isProcessing, attempts>>)
    BY <2>0, <2>1 DEF AnsweredBy, Render
  <2>2. CASE /\ agreements' = [agreements EXCEPT ![i] = "failed"]
             /\ UNCHANGED <<order, isProcessing, attempts>>
    <3>1. /\ DOMAIN agreements' = DOMAIN agreements
          /\ \A j \in DOMAIN agreements :
               agreements'[j] = IF j = i THEN "failed" ELSE agreements[j]
      BY <2>2
    <3> QED BY <2>0, <2>2, <3>1 DEF Kept
  <2> QED BY <1>5, <2>1, <2>2 DEF Agreed
<1>6. ASSUME NEW a \in DOMAIN attempts, Confirmed(a) \/ Created(a) \/ Poll(a) PROVE Moved(a)
  BY <1>6 DEF Confirmed, Created, Poll, Answering, Render, FormRest, Moved
<1>7. ASSUME NEW a \in DOMAIN attempts, JobEnds(a) PROVE Ended(a)
  BY <1>7 DEF JobEnds, FormRest, Ended
<1> QED BY <1>1, <1>2, <1>3, <1>4, <1>5, <1>6, <1>7 DEF Next, Customer

-----------------------------------------------------------------------------
(* PurchasesBounded.                                                       *)

\* Once the overlay is gone, the customer's own click has bought nothing: what makes the
\* bound inductive.
Bounded ==
  Cardinality(Live) <= Cardinality(Answered) + (IF isProcessing THEN 1 ELSE 0)

\* The two counts are of finite sets.
LEMMA Counts ==
  ASSUME TypeOK
  PROVE  /\ IsFiniteSet(Live) /\ Cardinality(Live) \in Nat
         /\ IsFiniteSet(Answered) /\ Cardinality(Answered) \in Nat
<1>1. /\ DOMAIN attempts = 1..Len(attempts) /\ Len(attempts) \in Nat
      /\ DOMAIN agreements = 1..Len(agreements) /\ Len(agreements) \in Nat
  BY DEF TypeOK
<1>2. IsFiniteSet(DOMAIN attempts) /\ IsFiniteSet(DOMAIN agreements)
  BY <1>1, FS_Interval
<1>3. Live \subseteq DOMAIN attempts /\ Answered \subseteq DOMAIN agreements
  BY DEF Live, Answered
<1>4. IsFiniteSet(Live) /\ IsFiniteSet(Answered)
  BY <1>2, <1>3, FS_Subset
<1> QED BY <1>4, FS_CardinalityType

\* A submission adds one purchase at most, under the overlay; without one the overlay may go.
LEMMA SubmissionCounts ==
  ASSUME TypeOK, NEW by \in {"click", "baid"}, NEW baid \in 0..MaxApprovals,
         formOnSubmit(by, baid)
  PROVE  \/ Live' = Live
         \/ isProcessing' = TRUE /\ Cardinality(Live') = Cardinality(Live) + 1
<1>1. CASE attempts' = attempts
  BY <1>1 DEF Live
<1>2. ASSUME isProcessing' = TRUE,
             NEW c \in {0, baid}, NEW stage \in {"confirming", "posting"},
             attempts' = Append(attempts, Attempt(by, c, stage))
      PROVE  isProcessing' = TRUE /\ Cardinality(Live') = Cardinality(Live) + 1
  <2> DEFINE n == Len(attempts) + 1
  <2>1. attempts \in Seq(Attempts) /\ Len(attempts) \in Nat
    BY DEF TypeOK
  <2>2. /\ DOMAIN attempts' = DOMAIN attempts \cup {n} /\ n \notin DOMAIN attempts
        /\ attempts'[n] = Attempt(by, c, stage)
        /\ \A b \in DOMAIN attempts : attempts'[b] = attempts[b]
    BY <1>2, <2>1
  <2>3. attempts'[n].stage # "declined"
    BY <2>2 DEF Attempt
  <2>4. Live' = Live \cup {n} /\ n \notin Live
    BY <2>2, <2>3 DEF Live
  <2> QED BY <1>2, <2>4, Counts, FS_AddElement
<1> QED BY <1>1, <1>2, Submission

\* Answering an agreement adds one to the answered.
LEMMA AnsweredCounts ==
  ASSUME TypeOK, NEW i \in DOMAIN agreements, AnsweredBy(i)
  PROVE  Cardinality(Answered') = Cardinality(Answered) + 1
<1>1. agreements \in Seq(AgreementStates)
  BY DEF TypeOK, AgreementStates
<1>2. /\ DOMAIN agreements' = DOMAIN agreements
      /\ \A j \in DOMAIN agreements :
           agreements'[j] = IF j = i THEN "answered" ELSE agreements[j]
  BY <1>1 DEF AnsweredBy
<1>3. Answered' = Answered \cup {i} /\ i \notin Answered
  BY <1>2 DEF Answered, AnsweredBy
<1> QED BY <1>3, Counts, FS_AddElement

\* An attempt that moves stays live, or is declined and no longer is.
LEMMA MoveCounts ==
  ASSUME TypeOK, NEW a \in DOMAIN attempts, Moved(a) \/ Ended(a)
  PROVE  \/ Live' = Live /\ UNCHANGED isProcessing
         \/ Cardinality(Live') = Cardinality(Live) - 1 /\ isProcessing' = FALSE
<1>0. attempts \in Seq(Attempts) /\ attempts[a] \in Attempts
  BY DEF TypeOK
<1>1. CASE /\ attempts[a].stage = "confirming" /\ To(a, "declined", "none")
           /\ isProcessing' = FALSE
  <2>1. /\ DOMAIN attempts' = DOMAIN attempts
        /\ attempts'[a].stage = "declined"
        /\ \A b \in DOMAIN attempts : b # a => attempts'[b] = attempts[b]
    BY <1>0, <1>1, MoveType
  <2>2. Live' = Live \ {a} /\ a \in Live
    BY <1>1, <2>1 DEF Live
  <2>3. Cardinality(Live \ {a}) = Cardinality(Live) - 1
    BY <2>2, Counts, FS_RemoveElement
  <2> QED BY <1>1, <2>2, <2>3, Counts
<1>2. ASSUME NEW stage \in {"confirming", "posting", "polling", "succeeded", "failed", "lost"},
             NEW job \in {"none", "running", "succeeded", "failed"},
             To(a, stage, job), attempts[a].stage # "declined", UNCHANGED isProcessing
      PROVE  Live' = Live /\ UNCHANGED isProcessing
  <2>1. /\ DOMAIN attempts' = DOMAIN attempts
        /\ attempts'[a].stage = stage
        /\ \A b \in DOMAIN attempts : b # a => attempts'[b] = attempts[b]
    BY <1>0, <1>2, MoveType
  <2>2. attempts'[a].stage # "declined"
    BY <2>1
  <2> QED BY <1>2, <2>1, <2>2 DEF Live
<1>3. CASE Ended(a)
  <2>1. PICK job \in {"succeeded", "failed"} : To(a, attempts[a].stage, job)
    BY <1>3 DEF Ended
  <2>2. /\ DOMAIN attempts' = DOMAIN attempts
        /\ attempts'[a].stage = attempts[a].stage
        /\ \A b \in DOMAIN attempts : b # a => attempts'[b] = attempts[b]
    <3>1. attempts[a] \in Attempts
      BY <1>0
    <3>2. attempts[a].stage \in {"confirming", "declined", "posting", "polling", "succeeded",
                                "failed", "lost"}
      BY <3>1 DEF Attempts
    <3>3. job \in {"none", "running", "succeeded", "failed"}
      OBVIOUS
    <3> QED BY <1>0, <2>1, <3>2, <3>3, MoveType
  <2>3. Live' = Live
    BY <2>2 DEF Live
  <2> QED BY <1>3, <2>3 DEF Ended
<1>4. CASE Moved(a)
  BY <1>0, <1>1, <1>2, <1>4 DEF Moved, Attempts
<1> QED BY <1>3, <1>4

\* Every step keeps the bound.
LEMMA BoundedStep == TypeOK /\ Bounded /\ [Next]_vars => Bounded'
<1> SUFFICES ASSUME TypeOK, Bounded, [Next]_vars PROVE Bounded'
  OBVIOUS
<1>1. /\ Cardinality(Live) \in Nat /\ Cardinality(Answered) \in Nat
      /\ isProcessing \in BOOLEAN
  BY Counts DEF TypeOK
<1>2. CASE Kept
  <2>1. Live' = Live /\ Answered' = Answered /\ UNCHANGED isProcessing
    BY <1>2 DEF Kept, Live, Answered
  <2> QED BY <2>1 DEF Bounded
<1>3. CASE Clicked
  <2>1. 0 \in 0..MaxApprovals
    BY BoundsAssumption
  <2>2. \/ Live' = Live
        \/ isProcessing' = TRUE /\ Cardinality(Live') = Cardinality(Live) + 1
    BY <1>3, <2>1, SubmissionCounts DEF Clicked
  <2>3. Answered' = Answered /\ ~isProcessing
    BY <1>3 DEF Clicked, Answered
  <2> QED BY <1>1, <2>2, <2>3 DEF Bounded
<1>4. ASSUME NEW i \in DOMAIN agreements, AnsweredBy(i) PROVE Bounded'
  <2>1. Cardinality(Answered') = Cardinality(Answered) + 1
    BY <1>4, AnsweredCounts
  <2>2. i \in 0..MaxApprovals
    <3>1. i \in 1..Len(agreements) /\ Len(agreements) \in Nat /\ Len(agreements) <= MaxApprovals
      BY DEF TypeOK
    <3> QED BY <3>1, BoundsAssumption
  <2>3. \/ Live' = Live
        \/ isProcessing' = TRUE /\ Cardinality(Live') = Cardinality(Live) + 1
    <3>1. CASE formOnSubmit("baid", i)
      BY <2>2, <3>1, SubmissionCounts
    <3>2. CASE attempts' = attempts
      BY <3>2 DEF Live
    <3> QED BY <1>4, <3>1, <3>2 DEF AnsweredBy
  <2> QED BY <1>1, <2>1, <2>3 DEF Bounded
<1>5. ASSUME NEW a \in DOMAIN attempts, Moved(a) \/ Ended(a) PROVE Bounded'
  <2>1. Answered' = Answered
    BY <1>5 DEF Moved, Ended, Answered
  <2>2. \/ Live' = Live /\ UNCHANGED isProcessing
        \/ Cardinality(Live') = Cardinality(Live) - 1 /\ isProcessing' = FALSE
    BY <1>5, MoveCounts
  <2> QED BY <1>1, <2>1, <2>2 DEF Bounded
<1> QED BY <1>2, <1>3, <1>4, <1>5, Effects

\* The overlay and the agreements bound the purchases of a customer.
THEOREM PurchasesBoundedCorrect == Spec => []PurchasesBounded
<1>1. Init => Bounded
  <2> SUFFICES ASSUME Init PROVE Bounded
    OBVIOUS
  <2>1. Live = {} /\ Answered = {}
    BY DEF Init, Live, Answered
  <2> QED BY <2>1, FS_EmptySet DEF Bounded, Init
<1>2. TypeOK /\ Bounded => PurchasesBounded
  <2> SUFFICES ASSUME TypeOK, Bounded PROVE PurchasesBounded
    OBVIOUS
  <2> QED BY Counts DEF Bounded, PurchasesBounded, TypeOK
<1> QED BY <1>1, <1>2, BoundedStep, TypeCorrect, PTL DEF Spec

-----------------------------------------------------------------------------
(* ThankYouIsTrue.                                                         *)

\* Nothing has a job before its request is answered, and the customer leaves for the
\* thank-you page behind a success.
Truth ==
  /\ \A a \in DOMAIN attempts :
       attempts[a].stage \in {"confirming", "posting"} => attempts[a].job = "none"
  /\ ThankYouIsTrue

\* The submissions keep it.
LEMMA TruthSubmission ==
  ASSUME TypeOK, Truth, NEW by \in {"click", "baid"}, NEW baid \in 0..MaxApprovals,
         formOnSubmit(by, baid), UNCHANGED page
  PROVE  Truth'
<1>1. order' = "None"
  BY Submission
<1>2. CASE attempts' = attempts
  BY <1>1, <1>2 DEF Truth, ThankYouIsTrue
<1>3. ASSUME NEW c \in {0, baid}, NEW stage \in {"confirming", "posting"},
             attempts' = Append(attempts, Attempt(by, c, stage))
      PROVE  Truth'
  <2> DEFINE n == Len(attempts) + 1
  <2>1. attempts \in Seq(Attempts) /\ Len(attempts) \in Nat
    BY DEF TypeOK
  <2>2. /\ DOMAIN attempts' = DOMAIN attempts \cup {n}
        /\ attempts'[n] = Attempt(by, c, stage)
        /\ \A b \in DOMAIN attempts : b # n /\ attempts'[b] = attempts[b]
    BY <1>3, <2>1
  <2>3. attempts'[n].job = "none"
    BY <2>2 DEF Attempt
  <2> QED BY <1>1, <1>3, <2>2, <2>3 DEF Truth, ThankYouIsTrue
<1> QED BY <1>2, <1>3, Submission

\* Every step keeps it.
LEMMA TruthStep == TypeOK /\ Truth /\ [Next]_vars => Truth'
<1> SUFFICES ASSUME TypeOK, Truth, [Next]_vars PROVE Truth'
  OBVIOUS
<1>1. CASE Kept
  BY <1>1 DEF Kept, Truth, ThankYouIsTrue
<1>2. CASE Clicked
  <2>1. 0 \in 0..MaxApprovals
    BY BoundsAssumption
  <2> QED BY <1>2, <2>1, TruthSubmission DEF Clicked
<1>3. ASSUME NEW i \in DOMAIN agreements, AnsweredBy(i) PROVE Truth'
  <2>1. i \in 0..MaxApprovals
    <3>1. i \in 1..Len(agreements) /\ Len(agreements) \in Nat /\ Len(agreements) <= MaxApprovals
      BY DEF TypeOK
    <3> QED BY <3>1, BoundsAssumption
  <2>2. CASE formOnSubmit("baid", i)
    BY <1>3, <2>1, <2>2, TruthSubmission DEF AnsweredBy
  <2>3. CASE attempts' = attempts /\ order' = "None"
    BY <1>3, <2>3 DEF AnsweredBy, Truth, ThankYouIsTrue
  <2> QED BY <1>3, <2>2, <2>3 DEF AnsweredBy
<1>4. ASSUME NEW a \in DOMAIN attempts, Moved(a) \/ Ended(a) PROVE Truth'
  <2>1. attempts \in Seq(Attempts) /\ attempts[a] \in Attempts
    BY DEF TypeOK
  <2>2. \E stage \in {"confirming", "declined", "posting", "polling", "succeeded", "failed",
                      "lost"},
           job \in {"none", "running", "succeeded", "failed"} :
          /\ To(a, stage, job)
          /\ stage \in {"confirming", "posting"} => job = "none"
          /\ attempts[a].job = "succeeded" => job = "succeeded"
          /\ \/ page' = page /\ order' \in {order, "None"}
             \/ job = "succeeded" /\ order' = attempts[a].method
    BY <1>4, <2>1 DEF Moved, Ended, Truth, Attempts
  <2>3. PICK stage \in {"confirming", "declined", "posting", "polling", "succeeded", "failed",
                        "lost"},
             job \in {"none", "running", "succeeded", "failed"} :
          /\ To(a, stage, job)
          /\ stage \in {"confirming", "posting"} => job = "none"
          /\ attempts[a].job = "succeeded" => job = "succeeded"
          /\ \/ page' = page /\ order' \in {order, "None"}
             \/ job = "succeeded" /\ order' = attempts[a].method
    BY <2>2
  <2>4. /\ DOMAIN attempts' = DOMAIN attempts
        /\ attempts'[a].stage = stage /\ attempts'[a].job = job
        /\ \A b \in DOMAIN attempts :
             /\ attempts'[b].method = attempts[b].method
             /\ b # a => attempts'[b] = attempts[b]
    BY <2>1, <2>3, MoveType
  <2>5. \A b \in DOMAIN attempts' :
          attempts'[b].stage \in {"confirming", "posting"} => attempts'[b].job = "none"
    BY <2>3, <2>4 DEF Truth
  <2>6. ThankYouIsTrue'
    BY <2>3, <2>4 DEF Truth, ThankYouIsTrue
  <2> QED BY <2>5, <2>6 DEF Truth
<1> QED BY <1>1, <1>2, <1>3, <1>4, Effects

\* Whoever reaches the thank-you page has a subscription whose job succeeded.
THEOREM ThankYouIsTrueCorrect == Spec => []ThankYouIsTrue
<1>1. Init => Truth
  BY DEF Init, PageOf, Truth, ThankYouIsTrue
<1>2. Truth => ThankYouIsTrue
  BY DEF Truth
<1> QED BY <1>1, <1>2, TruthStep, TypeCorrect, PTL DEF Spec

-----------------------------------------------------------------------------
(* OneRequestPerAgreement.                                                 *)

\* A PayPal attempt uses an agreement that has been answered, each another.
Agreements ==
  /\ \A a \in DOMAIN attempts :
       attempts[a].method = "PayPal" =>
         /\ attempts[a].baid \in DOMAIN agreements
         /\ agreements[attempts[a].baid] = "answered"
  /\ OneRequestPerAgreement

\* Every step keeps it.
LEMMA AgreementsStep == TypeOK /\ Agreements /\ [Next]_vars => Agreements'
<1> SUFFICES ASSUME TypeOK, Agreements, [Next]_vars PROVE Agreements'
  OBVIOUS
<1>0. attempts \in Seq(Attempts) /\ Len(attempts) \in Nat
  BY DEF TypeOK
<1> DEFINE n == Len(attempts) + 1
<1>1. CASE Kept
  BY <1>1 DEF Kept, Agreements, OneRequestPerAgreement
<1>2. CASE Clicked
  <2>1. 0 \in 0..MaxApprovals
    BY BoundsAssumption
  <2>2. CASE attempts' = attempts
    BY <1>2, <2>2 DEF Clicked, Agreements, OneRequestPerAgreement
  <2>3. ASSUME NEW stage \in {"confirming", "posting"},
               attempts' = Append(attempts, Attempt("click", 0, stage))
        PROVE  Agreements'
    <3>1. /\ DOMAIN attempts' = DOMAIN attempts \cup {n}
          /\ attempts'[n] = Attempt("click", 0, stage)
          /\ \A b \in DOMAIN attempts : b # n /\ attempts'[b] = attempts[b]
      BY <1>0, <2>3
    <3>2. attempts'[n].method # "PayPal"
      BY <1>2, <3>1 DEF Clicked, Attempt
    <3>3. UNCHANGED agreements
      BY <1>2 DEF Clicked
    <3> QED BY <3>1, <3>2, <3>3 DEF Agreements, OneRequestPerAgreement
  <2> QED BY <1>2, <2>1, <2>2, <2>3, Submission DEF Clicked
<1>3. ASSUME NEW i \in DOMAIN agreements, AnsweredBy(i) PROVE Agreements'
  <2>1. i \in 0..MaxApprovals
    <3>1. i \in 1..Len(agreements) /\ Len(agreements) \in Nat /\ Len(agreements) <= MaxApprovals
      BY DEF TypeOK
    <3> QED BY <3>1, BoundsAssumption
  <2>2. /\ DOMAIN agreements' = DOMAIN agreements
        /\ agreements[i] = "approved" /\ agreements'[i] = "answered"
        /\ \A j \in DOMAIN agreements : j # i => agreements'[j] = agreements[j]
    BY <1>3 DEF AnsweredBy
  <2>3. CASE attempts' = attempts
    BY <2>2, <2>3 DEF Agreements, OneRequestPerAgreement
  <2>4. ASSUME NEW c \in {0, i}, NEW stage \in {"confirming", "posting"},
               method = "PayPal" => c = i,
               attempts' = Append(attempts, Attempt("baid", c, stage))
        PROVE  Agreements'
    <3>1. /\ DOMAIN attempts' = DOMAIN attempts \cup {n}
          /\ attempts'[n] = Attempt("baid", c, stage)
          /\ \A b \in DOMAIN attempts : b # n /\ attempts'[b] = attempts[b]
      BY <1>0, <2>4
    <3>2. attempts'[n].method = "PayPal" => attempts'[n].baid = i
      BY <2>4, <3>1 DEF Attempt
    <3>3. \A b \in DOMAIN attempts : attempts[b].method = "PayPal" => attempts[b].baid # i
      BY <2>2 DEF Agreements
    <3>4. \A a \in DOMAIN attempts' :
            attempts'[a].method = "PayPal" =>
              /\ attempts'[a].baid \in DOMAIN agreements'
              /\ agreements'[attempts'[a].baid] = "answered"
      BY <2>2, <3>1, <3>2, <3>3 DEF Agreements
    <3>5. OneRequestPerAgreement'
      BY <3>1, <3>2, <3>3 DEF Agreements, OneRequestPerAgreement
    <3> QED BY <3>4, <3>5 DEF Agreements
  <2>5. CASE formOnSubmit("baid", i)
    BY <2>1, <2>3, <2>4, <2>5, Submission
  <2> QED BY <1>3, <2>3, <2>5 DEF AnsweredBy
<1>4. ASSUME NEW a \in DOMAIN attempts, Moved(a) \/ Ended(a) PROVE Agreements'
  <2>1. attempts[a] \in Attempts
    BY <1>0
  <2>2. \E stage \in {"confirming", "declined", "posting", "polling", "succeeded", "failed",
                      "lost"},
           job \in {"none", "running", "succeeded", "failed"} : To(a, stage, job)
    BY <1>4, <2>1 DEF Moved, Ended, Attempts
  <2>3. /\ DOMAIN attempts' = DOMAIN attempts
        /\ \A b \in DOMAIN attempts :
             /\ attempts'[b].method = attempts[b].method
             /\ attempts'[b].baid = attempts[b].baid
    BY <1>0, <2>2, MoveType
  <2>4. UNCHANGED agreements
    BY <1>4 DEF Moved, Ended
  <2> QED BY <2>3, <2>4 DEF Agreements, OneRequestPerAgreement
<1> QED BY <1>1, <1>2, <1>3, <1>4, Effects

\* No agreement creates two subscriptions.
THEOREM OneRequestPerAgreementCorrect == Spec => []OneRequestPerAgreement
<1>1. Init => Agreements
  BY DEF Init, Agreements, OneRequestPerAgreement
<1>2. Agreements => OneRequestPerAgreement
  BY DEF Agreements
<1> QED BY <1>1, <1>2, AgreementsStep, TypeCorrect, PTL DEF Spec

-----------------------------------------------------------------------------
(* AmountsAreAcceptable.                                                   *)

\* What AmountsAreAcceptable says of one amount.
Acceptable(amount) ==
  \/ visit.price = NoPrice /\ amount = 0
  \/ /\ visit.product = "Contribution" /\ amount >= 1
     /\ visit.contributionsOnly \/ amount < Pricing["SupporterPlus"]
  \/ visit.product = "SupporterPlus" /\ amount >= Pricing["SupporterPlus"]
  \/ visit.product = "GuardianWeekly" /\ amount = 0

\* The form is only shown for links that pass the checks.
Amounts ==
  /\ Shown => PageOf(visit) = "checkout"
  /\ AmountsAreAcceptable

\* The amount of a link that passes them is acceptable.
LEMMA AmountAccepted ==
  ASSUME TypeOK, PageOf(visit) = "checkout"
  PROVE  Acceptable(Amount(visit))
<1>1. visit.price \in Int /\ visit.product \in Products
  BY VisitsAssumption DEF TypeOK
<1>2. visit.product \in {"Contribution", "SupporterPlus", "GuardianWeekly"}
  BY DEF PageOf, HasProductFields
<1>3. ~isInvalidAmount(visit) /\ price(visit) # 0
  BY DEF PageOf
<1>4. Pricing["SupporterPlus"] \in Nat
  BY PricingAssumption DEF Products
<1>5. CASE visit.price = NoPrice
  BY <1>5 DEF Acceptable, Amount
<1>6. CASE visit.price # NoPrice
  <2>1. visit.price # 0
    BY <1>3, <1>6 DEF price
  <2> QED BY <1>1, <1>2, <1>3, <1>4, <1>6, <2>1
       DEF Acceptable, Amount, isInvalidAmount, NoPrice
<1> QED BY <1>5, <1>6

\* Every step keeps this.
LEMMA AmountsStep == TypeOK /\ Amounts /\ [Next]_vars => Amounts'
<1> SUFFICES ASSUME TypeOK, Amounts, [Next]_vars PROVE Amounts'
  OBVIOUS
<1>0. attempts \in Seq(Attempts) /\ Len(attempts) \in Nat
  BY DEF TypeOK
<1> DEFINE n == Len(attempts) + 1
<1>1. AmountsAreAcceptable <=> \A a \in DOMAIN attempts : Acceptable(attempts[a].amount)
  BY DEF AmountsAreAcceptable, Acceptable
<1>2. UNCHANGED visit => (AmountsAreAcceptable' <=>
        \A a \in DOMAIN attempts' : Acceptable(attempts'[a].amount))
  BY DEF AmountsAreAcceptable, Acceptable
<1>3. ASSUME NEW by \in {"click", "baid"}, NEW baid \in 0..MaxApprovals,
             formOnSubmit(by, baid), Shown, UNCHANGED <<visit, page>>
      PROVE  Amounts'
  <2>1. CASE attempts' = attempts
    BY <1>1, <1>2, <1>3, <2>1 DEF Amounts, Shown
  <2>2. ASSUME NEW c \in {0, baid}, NEW stage \in {"confirming", "posting"},
               attempts' = Append(attempts, Attempt(by, c, stage))
        PROVE  Amounts'
    <3>1. /\ DOMAIN attempts' = DOMAIN attempts \cup {n}
          /\ attempts'[n] = Attempt(by, c, stage)
          /\ \A b \in DOMAIN attempts : b # n /\ attempts'[b] = attempts[b]
      BY <1>0, <2>2
    <3>2. attempts'[n].amount = Amount(visit)
      BY <3>1 DEF Attempt
    <3>3. Acceptable(Amount(visit))
      BY <1>3, AmountAccepted DEF Amounts
    <3> QED BY <1>1, <1>2, <1>3, <3>1, <3>2, <3>3 DEF Amounts, Shown
  <2> QED BY <1>3, <2>1, <2>2, Submission
<1>4. CASE Kept
  BY <1>1, <1>2, <1>4 DEF Kept, Amounts, Shown
<1>5. CASE Clicked
  <2>1. 0 \in 0..MaxApprovals
    BY BoundsAssumption
  <2> QED BY <1>3, <1>5, <2>1 DEF Clicked
<1>6. ASSUME NEW i \in DOMAIN agreements, AnsweredBy(i) PROVE Amounts'
  <2>1. i \in 0..MaxApprovals
    <3>1. i \in 1..Len(agreements) /\ Len(agreements) \in Nat /\ Len(agreements) <= MaxApprovals
      BY DEF TypeOK
    <3> QED BY <3>1, BoundsAssumption
  <2>2. CASE formOnSubmit("baid", i)
    BY <1>3, <1>6, <2>1, <2>2 DEF AnsweredBy
  <2>3. CASE attempts' = attempts
    BY <1>1, <1>2, <1>6, <2>3 DEF AnsweredBy, Amounts, Shown
  <2> QED BY <1>6, <2>2, <2>3 DEF AnsweredBy
<1>7. ASSUME NEW a \in DOMAIN attempts, Moved(a) \/ Ended(a) PROVE Amounts'
  <2>1. attempts[a] \in Attempts
    BY <1>0
  <2>2. \E stage \in {"confirming", "declined", "posting", "polling", "succeeded", "failed",
                      "lost"},
           job \in {"none", "running", "succeeded", "failed"} : To(a, stage, job)
    BY <1>7, <2>1 DEF Moved, Ended, Attempts
  <2>3. /\ DOMAIN attempts' = DOMAIN attempts
        /\ \A b \in DOMAIN attempts : attempts'[b].amount = attempts[b].amount
    BY <1>0, <2>2, MoveType
  <2>4. UNCHANGED visit /\ (Shown' => Shown)
    BY <1>7 DEF Moved, Ended, Shown
  <2> QED BY <1>1, <1>2, <2>3, <2>4 DEF Amounts
<1> QED BY <1>4, <1>5, <1>6, <1>7, Effects

\* Whatever the link says, the amounts sent are ones the other pages accept.
THEOREM AmountsAreAcceptableCorrect == Spec => []AmountsAreAcceptable
<1>1. Init => Amounts
  <2> SUFFICES ASSUME Init PROVE Amounts
    OBVIOUS
  <2>1. PageOf(visit) # "leaving" /\ page = PageOf(visit)
    BY DEF Init, PageOf
  <2>2. DOMAIN attempts = {}
    BY DEF Init
  <2> QED BY <2>1, <2>2 DEF Amounts, AmountsAreAcceptable, Shown
<1>2. Amounts => AmountsAreAcceptable
  BY DEF Amounts
<1> QED BY <1>1, <1>2, AmountsStep, TypeCorrect, PTL DEF Spec

-----------------------------------------------------------------------------
(* ImplementsVisit.                                                        *)

Mapped(stage, job) == [job |-> Status(job), told |-> Verdict(stage)]
Seen == [a \in DOMAIN attempts |-> Mapped(attempts[a].stage, attempts[a].job)]
HasThanked == page \in {"leaving", "thankYou", "noOrder", "noType"}

\* A submission with payment fields begins an order.
LEMMA SubmissionBegins ==
  ASSUME TypeOK, NEW by \in {"click", "baid"}, NEW baid \in 0..MaxApprovals,
         formOnSubmit(by, baid), UNCHANGED page
  PROVE  Visit!Begin \/ UNCHANGED Visit!vars
<1>1. CASE attempts' = attempts
  BY <1>1 DEF Visit!vars
<1>2. ASSUME NEW c \in {0, baid}, NEW stage \in {"confirming", "posting"},
             attempts' = Append(attempts, Attempt(by, c, stage))
      PROVE  Visit!Begin
  <2> DEFINE n == Len(attempts) + 1
  <2>1. attempts \in Seq(Attempts) /\ Len(attempts) \in Nat
    BY DEF TypeOK
  <2>2. /\ DOMAIN attempts = 1..Len(attempts) /\ DOMAIN attempts' = 1..n
        /\ attempts'[n] = Attempt(by, c, stage)
        /\ \A b \in DOMAIN attempts : attempts'[b] = attempts[b]
    BY <1>2, <2>1
  <2>3. Mapped(attempts'[n].stage, attempts'[n].job) = [job |-> "none", told |-> "waiting"]
    BY <2>2 DEF Attempt, Mapped, Status, Verdict
  <2>4. Seen \in Seq({Mapped(attempts[a].stage, attempts[a].job) : a \in DOMAIN attempts})
        /\ Len(Seen) = Len(attempts)
    BY <2>1, <2>2 DEF Seen
  <2>5. Seen' = Append(Seen, [job |-> "none", told |-> "waiting"])
    BY <2>1, <2>2, <2>3, <2>4 DEF Seen
  <2> QED BY <2>5 DEF Visit!Begin, Seen, Mapped
<1> QED BY <1>1, <1>2, Submission

\* A move of an attempt is one of its order.
LEMMA MoveMapped ==
  ASSUME TypeOK, NEW a \in DOMAIN attempts,
         NEW stage \in {"confirming", "declined", "posting", "polling", "succeeded", "failed",
                        "lost"},
         NEW job \in {"none", "running", "succeeded", "failed"}, To(a, stage, job)
  PROVE  /\ Seen' = [Seen EXCEPT ![a] = Mapped(stage, job)]
         /\ a \in DOMAIN Seen /\ Seen[a] = Mapped(attempts[a].stage, attempts[a].job)
<1>1. /\ DOMAIN attempts' = DOMAIN attempts
      /\ attempts'[a].stage = stage /\ attempts'[a].job = job
      /\ \A b \in DOMAIN attempts : b # a => attempts'[b] = attempts[b]
  BY MoveType DEF TypeOK
<1> QED BY <1>1 DEF Seen

\* An attempt's stage and job.
LEMMA AttemptFields ==
  ASSUME TypeOK, NEW a \in DOMAIN attempts
  PROVE  /\ attempts[a].job \in {"none", "running", "succeeded", "failed"}
         /\ attempts[a].stage \in {"confirming", "declined", "posting", "polling", "succeeded",
                                   "failed", "lost"}
<1>1. attempts[a] \in Attempts
  BY DEF TypeOK
<1> QED BY <1>1 DEF Attempts

\* What the customer has been told of an attempt, and what has come of it.
LEMMA MappedFields ==
  \A stage, job : Mapped(stage, job).job = Status(job) /\ Mapped(stage, job).told = Verdict(stage)
BY DEF Mapped

\* A job that moves, with nothing new for the customer, is one of its order.
LEMMA JobMapped ==
  ASSUME TypeOK, NEW a \in DOMAIN attempts,
         NEW stage \in {"confirming", "declined", "posting", "polling", "succeeded", "failed",
                        "lost"},
         NEW job \in {"none", "running", "succeeded", "failed"}, To(a, stage, job),
         Verdict(stage) = Verdict(attempts[a].stage), HasThanked' = HasThanked
  PROVE  Visit!Job(a, Status(attempts[a].job), Status(job))
<1>1. /\ Seen' = [Seen EXCEPT ![a] = Mapped(stage, job)]
      /\ a \in DOMAIN Seen /\ Seen[a] = Mapped(attempts[a].stage, attempts[a].job)
  BY MoveMapped
<1>2. Mapped(stage, job) = [Seen[a] EXCEPT !.job = Status(job)]
  BY <1>1 DEF Mapped
<1>3. Seen' = [Seen EXCEPT ![a].job = Status(job)]
  BY <1>1, <1>2
<1>4. Seen[a].job = Status(attempts[a].job)
  BY <1>1, MappedFields
<1> QED BY <1>3, <1>4 DEF Visit!Job, Seen, Mapped, HasThanked

\* A verdict without a change of the job is one of its order.
LEMMA TellMapped ==
  ASSUME TypeOK, NEW a \in DOMAIN attempts,
         NEW stage \in {"declined", "succeeded", "failed", "lost"}, To(a, stage, attempts[a].job),
         Verdict(attempts[a].stage) = "waiting"
  PROVE  Visit!Tell(a, Verdict(stage)) /\ a \in DOMAIN Seen /\ Seen[a].job = Status(attempts[a].job)
<1>0. attempts[a].job \in {"none", "running", "succeeded", "failed"}
  BY AttemptFields
<1>1. /\ Seen' = [Seen EXCEPT ![a] = Mapped(stage, attempts[a].job)]
      /\ a \in DOMAIN Seen /\ Seen[a] = Mapped(attempts[a].stage, attempts[a].job)
  BY <1>0, MoveMapped
<1>2. Mapped(stage, attempts[a].job) = [Seen[a] EXCEPT !.told = Verdict(stage)]
  BY <1>1 DEF Mapped
<1>3. Seen' = [Seen EXCEPT ![a].told = Verdict(stage)]
  BY <1>1, <1>2
<1>4. Seen[a].told = "waiting" /\ Seen[a].job = Status(attempts[a].job)
  BY <1>1, MappedFields
<1> QED BY <1>1, <1>3, <1>4 DEF Visit!Tell, Seen, Mapped

\* Every move is one of the promise's, or tells and changes nothing.
LEMMA MoveKeepsVisit ==
  ASSUME TypeOK, Truth, NEW a \in DOMAIN attempts, Moved(a) \/ Ended(a)
  PROVE  Visit!Next \/ UNCHANGED Visit!vars
<1>0. /\ attempts[a].job \in {"none", "running", "succeeded", "failed"}
      /\ attempts[a].stage \in {"confirming", "declined", "posting", "polling", "succeeded",
                                "failed", "lost"}
      /\ DOMAIN Seen = DOMAIN attempts
  BY AttemptFields DEF Seen
<1>1. CASE Ended(a)
  <2>1. PICK job \in {"succeeded", "failed"} : To(a, attempts[a].stage, job)
    BY <1>1 DEF Ended
  <2>2. Visit!Job(a, Status(attempts[a].job), Status(job))
    BY <1>0, <1>1, <2>1, JobMapped DEF Ended, HasThanked
  <2>3. Status(attempts[a].job) = "pending" /\ Status(job) \in {"success", "failure"}
    BY <1>1 DEF Ended, Status
  <2>4. Visit!End(a)
    BY <2>2, <2>3 DEF Visit!End
  <2> QED BY <1>0, <2>4 DEF Visit!Next, Seen, Mapped
<1>2. CASE attempts[a].stage = "confirming" /\ To(a, "posting", "none") /\ UNCHANGED page
  <2>1. /\ Seen' = [Seen EXCEPT ![a] = Mapped("posting", "none")]
        /\ Seen[a] = Mapped(attempts[a].stage, attempts[a].job)
    BY <1>2, MoveMapped
  <2>2. attempts[a].job = "none"
    BY <1>2 DEF Truth
  <2>3. Mapped("posting", "none") = Seen[a]
    BY <1>2, <2>1, <2>2 DEF Mapped, Verdict
  <2>4. Seen' = Seen
    BY <2>1, <2>3 DEF Seen
  <2> QED BY <1>2, <2>4 DEF Visit!vars, Seen, Mapped, HasThanked
<1>3. CASE attempts[a].stage = "posting" /\ To(a, "polling", "running") /\ UNCHANGED page
  <2>1. attempts[a].job = "none"
    BY <1>3 DEF Truth
  <2>2. Verdict("polling") = "waiting" /\ Verdict("posting") = "waiting"
        /\ Status("none") = "none" /\ Status("running") = "pending"
    BY DEF Verdict, Status
  <2>3. Visit!Job(a, "none", "pending")
    BY <1>3, <2>1, <2>2, JobMapped DEF HasThanked
  <2>4. Seen[a].told = "waiting"
    BY <1>3, <2>2 DEF Seen, Mapped
  <2>5. Visit!Accept(a)
    BY <2>3, <2>4 DEF Visit!Accept, Seen, Mapped
  <2> QED BY <1>0, <2>5 DEF Visit!Next, Seen, Mapped
<1>4. CASE attempts[a].stage = "posting" /\ To(a, "lost", "running") /\ UNCHANGED page
  <2>1. attempts[a].job = "none"
    BY <1>4 DEF Truth
  <2>2. Seen' = [Seen EXCEPT ![a] = [job |-> "pending", told |-> "unknown"]]
    BY <1>4, MoveMapped DEF Mapped, Verdict, Status
  <2>3. Seen[a] = [job |-> "none", told |-> "waiting"]
    BY <1>4, <2>1 DEF Seen, Mapped, Verdict, Status
  <2>4. Visit!Lose(a)
    BY <1>4, <2>2, <2>3 DEF Visit!Lose, Seen, Mapped, HasThanked
  <2> QED BY <1>0, <2>4 DEF Visit!Next, Seen, Mapped
<1>5. CASE /\ attempts[a].stage \in {"posting", "polling"} /\ To(a, "lost", attempts[a].job)
           /\ UNCHANGED page
  <2>1. Verdict(attempts[a].stage) = "waiting" /\ Verdict("lost") = "unknown"
    BY <1>5 DEF Verdict
  <2>2. Visit!Tell(a, "unknown")
    BY <1>5, <2>1, TellMapped
  <2>3. Visit!Lose(a)
    BY <1>5, <2>2 DEF Visit!Lose
  <2> QED BY <1>0, <2>3 DEF Visit!Next, Seen, Mapped
<1>6. CASE /\ \/ attempts[a].stage = "confirming" /\ To(a, "declined", "none")
              \/ /\ attempts[a].stage = "polling" /\ attempts[a].job = "failed"
                 /\ To(a, "failed", "failed")
           /\ UNCHANGED page
  <2>1. /\ Verdict(attempts[a].stage) = "waiting"
        /\ Verdict("declined") = "failure" /\ Verdict("failed") = "failure"
        /\ Status(attempts[a].job) \in {"none", "failure"}
    BY <1>6 DEF Verdict, Status, Truth
  <2>2. Visit!Tell(a, "failure") /\ Seen[a].job \in {"none", "failure"}
    BY <1>6, <2>1, TellMapped DEF Truth
  <2>3. Visit!Refuse(a)
    BY <1>6, <2>2 DEF Visit!Refuse, Seen, Mapped
  <2> QED BY <1>0, <2>3 DEF Visit!Next, Seen, Mapped
<1>7. CASE /\ attempts[a].stage = "polling" /\ attempts[a].job = "succeeded"
           /\ To(a, "succeeded", "succeeded") /\ page' = "leaving"
  <2>1. /\ Verdict("polling") = "waiting" /\ Verdict("succeeded") = "success"
        /\ Status("succeeded") = "success"
    BY DEF Verdict, Status
  <2>2. Visit!Tell(a, "success") /\ Seen[a].job = "success"
    BY <1>7, <2>1, TellMapped
  <2>3. Visit!Thank(a)
    BY <1>7, <2>2 DEF Visit!Thank, Seen, Mapped
  <2> QED BY <1>0, <2>3 DEF Visit!Next, Seen, Mapped
<1> QED
  <2>1. attempts[a].stage = "posting" => attempts[a].job = "none"
    BY DEF Truth
  <2> QED BY <1>1, <1>2, <1>3, <1>4, <1>5, <1>6, <1>7, <2>1 DEF Moved

(* The page keeps what CheckoutVisit promises: whatever forms, windows and *)
(* answers overlap, each step is one of an order or none.                  *)
THEOREM VisitImplemented == Spec => ImplementsVisit
<1>1. Init => Visit!Init
  <2> SUFFICES ASSUME Init PROVE Visit!Init
    OBVIOUS
  <2>1. ~HasThanked
    BY DEF Init, PageOf, HasThanked
  <2>2. Seen = <<>>
    BY DEF Init, Seen
  <2> QED BY <2>1, <2>2 DEF Visit!Init, Seen, Mapped, HasThanked
<1>2. TypeOK /\ Truth /\ [Next]_vars => [Visit!Next]_Visit!vars
  <2> SUFFICES ASSUME TypeOK, Truth, [Next]_vars PROVE Visit!Next \/ UNCHANGED Visit!vars
    OBVIOUS
  <2>1. CASE Kept
    BY <2>1 DEF Kept, Visit!vars
  <2>2. CASE Clicked
    <3>1. 0 \in 0..MaxApprovals
      BY BoundsAssumption
    <3> QED BY <2>2, <3>1, SubmissionBegins DEF Clicked, Visit!Next
  <2>3. ASSUME NEW i \in DOMAIN agreements, AnsweredBy(i)
        PROVE  Visit!Next \/ UNCHANGED Visit!vars
    <3>1. i \in 0..MaxApprovals
      <4>1. i \in 1..Len(agreements) /\ Len(agreements) \in Nat /\ Len(agreements) <= MaxApprovals
        BY DEF TypeOK
      <4> QED BY <4>1, BoundsAssumption
    <3>2. CASE formOnSubmit("baid", i)
      BY <2>3, <3>1, <3>2, SubmissionBegins DEF AnsweredBy, Visit!Next
    <3>3. CASE attempts' = attempts
      BY <2>3, <3>3 DEF AnsweredBy, Visit!vars
    <3> QED BY <2>3, <3>2, <3>3 DEF AnsweredBy
  <2>4. ASSUME NEW a \in DOMAIN attempts, Moved(a) \/ Ended(a)
        PROVE  Visit!Next \/ UNCHANGED Visit!vars
    BY <2>4, MoveKeepsVisit
  <2> QED BY <2>1, <2>2, <2>3, <2>4, Effects
<1>3. Init => Truth
  BY DEF Init, PageOf, Truth, ThankYouIsTrue
<1> QED BY <1>1, <1>2, <1>3, TruthStep, TypeCorrect, PTL DEF Spec, ImplementsVisit, Visit!Spec
=============================================================================
