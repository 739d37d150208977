-------------------- MODULE ContributionsCheckoutProofs --------------------
(***************************************************************************)
(* Theorems of ContributionsCheckout, for any visits and bounds.            *)
(***************************************************************************)
EXTENDS ContributionsCheckout, FiniteSetTheorems, TLAPS

Jobs == {"none", "running", "succeeded", "failed"}
Forms == [isWaiting : BOOLEAN, paymentComplete : BOOLEAN, paymentError : BOOLEAN]
Details == [valid : BOOLEAN, error : BOOLEAN]
Recaptchas == [token : 0..MaxTokens, solved : BOOLEAN, error : BOOLEAN]
Cards == [complete : BOOLEAN, error : BOOLEAN, showErrors : BOOLEAN, secret : 0..MaxTokens]
Accounts == [account : {"none", "good", "bad"}, error : BOOLEAN, formError : BOOLEAN,
             phase : {"entry", "confirmation"}]
Wallets == [clicked : BOOLEAN, completed : BOOLEAN, error : BOOLEAN,
            sheet : {"closed", "open", "authorised"}]
Buttons == [click : 0..MaxClicks, awaiting : BOOLEAN,
            ran : {<<>>} \cup ((0..MaxClicks) \X BOOLEAN \X BOOLEAN),
            ranSecret : (0..MaxTokens) \X BOOLEAN]
Checks == (1..MaxClicks) \X {"none", "good", "bad"}

\* The slices' types by name.
SlicesType ==
  /\ form \in Forms /\ details \in Details /\ recaptcha \in Recaptchas /\ stripe \in Cards
  /\ directDebit \in Accounts /\ wallet \in Wallets

\* The types of the rest.
VisitType ==
  /\ offer \in Offers
  /\ page \in {"landing", "checkout", "thankYou", "left"}
  /\ type \in ContributionTypes
  /\ payment \in PaymentMethods \cup {"None"}
  /\ setups \subseteq 1..MaxTokens /\ checks \subseteq Checks
  /\ clicks \in 0..MaxClicks /\ tokens \in 0..MaxTokens

\* The type invariant by its parts.
LEMMA TypeParts ==
  TypeOK <=> SlicesType /\ VisitType /\ button \in Buttons /\ attempts \in Seq(Attempt)
BY DEF TypeOK, SlicesType, VisitType, Forms, Details, Recaptchas, Cards, Accounts, Wallets,
       Buttons, Checks

\* Zero is a number of clicks and of tokens.
LEMMA Zeros == 0 \in 0..MaxClicks /\ 0 \in 0..MaxTokens /\ 0 \in 0..MaxPolls
BY BoundsAssumption

\* Whether the form has errors is a Boolean.
LEMMA ErrorsType == SlicesType => contributionsFormHasErrors \in BOOLEAN
<1> SUFFICES ASSUME SlicesType PROVE contributionsFormHasErrors \in BOOLEAN
  OBVIOUS
<1>1. getPaymentMethodErrors \in BOOLEAN
  BY DEF getPaymentMethodErrors, SlicesType, Cards, Accounts, Recaptchas
<1> QED BY <1>1 DEF contributionsFormHasErrors, SlicesType, Wallets, Details

\* A click validates every slice and keeps their types.
LEMMA ValidationType ==
  ASSUME SlicesType, NEW m
  PROVE  /\ DetailsValidated \in Details /\ RecaptchaValidated \in Recaptchas
         /\ StripeValidated(m) \in Cards /\ DirectDebitValidated(m) \in Accounts
         /\ WalletValidated \in Wallets
<1>1. DetailsValidated \in Details
  BY DEF SlicesType, Details, DetailsValidated
<1>2. RecaptchaValidated \in Recaptchas
  BY DEF SlicesType, Recaptchas, RecaptchaValidated
<1>3. StripeValidated(m) \in Cards
  BY DEF SlicesType, Cards, StripeValidated
<1>4. DirectDebitValidated(m) \in Accounts
  BY DEF SlicesType, Accounts, DirectDebitValidated
<1>5. WalletValidated \in Wallets
  BY DEF SlicesType, Wallets, WalletValidated
<1> QED BY <1>1, <1>2, <1>3, <1>4, <1>5

\* A button that has just been mounted.
LEMMA MountedType == Mounted \in Buttons
BY Zeros DEF Mounted, Buttons

\* Where an authorised payment goes.
LEMMA HandlersType ==
  ASSUME NEW r PROVE paymentAuthorisationHandlers(r) \in {"refused", "posting", "charging"}
BY DEF paymentAuthorisationHandlers

\* What is begun is an attempt.
LEMMA BegunType ==
  ASSUME button \in Buttons, VisitType, NEW by \in {"click", "secret", "wallet"},
         NEW m \in PaymentMethods \cup {"Wallet"}, NEW stage \in Stages
  PROVE  Begun(by, m, stage) \in Attempt
BY Zeros DEF Begun, Attempt, Buttons, VisitType

-----------------------------------------------------------------------------
(* What an answer does to the attempts.                                    *)

\* The record of a changed attempt.
Become(r, stage, job, polls, paid, unknown) ==
  [by |-> r.by, click |-> r.click, method |-> r.method, type |-> r.type, stage |-> stage,
   job |-> job, polls |-> polls, paid |-> paid, unknown |-> unknown]

\* The attempt a at another stage, with another outcome.
Changed(a, stage, job, polls, paid, unknown) ==
  attempts' = [attempts EXCEPT ![a] = Become(attempts[a], stage, job, polls, paid, unknown)]

\* A changed attempt keeps what identifies it, and the others.
LEMMA ChangedType ==
  ASSUME attempts \in Seq(Attempt), NEW a \in DOMAIN attempts,
         NEW stage \in Stages, NEW job \in Jobs, NEW polls \in 0..MaxPolls,
         NEW paid \in BOOLEAN, NEW unknown \in BOOLEAN,
         Changed(a, stage, job, polls, paid, unknown)
  PROVE  /\ attempts' \in Seq(Attempt) /\ DOMAIN attempts' = DOMAIN attempts
         /\ attempts'[a] = Become(attempts[a], stage, job, polls, paid, unknown)
         /\ \A b \in DOMAIN attempts : b # a => attempts'[b] = attempts[b]
<1>1. attempts[a] \in Attempt
  OBVIOUS
<1>2. Become(attempts[a], stage, job, polls, paid, unknown) \in Attempt
  BY <1>1 DEF Attempt, Jobs, Become
<1> QED BY <1>2 DEF Changed

\* Every update of one field of an attempt is such a change.
LEMMA Records ==
  ASSUME NEW r \in Attempt, NEW v
  PROVE  /\ [r EXCEPT !.stage = v] = Become(r, v, r.job, r.polls, r.paid, r.unknown)
         /\ [r EXCEPT !.job = v] = Become(r, r.stage, v, r.polls, r.paid, r.unknown)
         /\ [r EXCEPT !.polls = v] = Become(r, r.stage, r.job, v, r.paid, r.unknown)
BY DEF Attempt, Become

\* So is every update of two.
LEMMA MoreRecords ==
  ASSUME NEW r \in Attempt, NEW stage, NEW v
  PROVE  /\ [r EXCEPT !.stage = stage, !.job = v]
              = Become(r, stage, v, r.polls, r.paid, r.unknown)
         /\ [r EXCEPT !.stage = stage, !.paid = v]
              = Become(r, stage, r.job, r.polls, v, r.unknown)
         /\ [r EXCEPT !.polls = v, !.stage = stage]
              = Become(r, stage, r.job, v, r.paid, r.unknown)
<1> DEFINE q == Become(r, stage, r.job, r.polls, r.paid, r.unknown)
           p == Become(r, r.stage, r.job, v, r.paid, r.unknown)
<1>1. [r EXCEPT !.stage = stage] = q /\ [r EXCEPT !.polls = v] = p
  BY Records
<1>2. /\ [q EXCEPT !.job = v] = Become(r, stage, v, r.polls, r.paid, r.unknown)
      /\ [q EXCEPT !.paid = v] = Become(r, stage, r.job, r.polls, v, r.unknown)
      /\ [p EXCEPT !.stage = stage] = Become(r, stage, r.job, v, r.paid, r.unknown)
  BY DEF Become
<1>3. /\ [r EXCEPT !.stage = stage, !.job = v] = [[r EXCEPT !.stage = stage] EXCEPT !.job = v]
      /\ [r EXCEPT !.stage = stage, !.paid = v] = [[r EXCEPT !.stage = stage] EXCEPT !.paid = v]
      /\ [r EXCEPT !.polls = v, !.stage = stage] = [[r EXCEPT !.polls = v] EXCEPT !.stage = stage]
  OBVIOUS
<1> HIDE DEF q, p
<1> QED BY <1>1, <1>2, <1>3

\* And that of three.
LEMMA LostRecords ==
  ASSUME NEW r \in Attempt, NEW stage, NEW w, NEW v
  PROVE  [r EXCEPT !.stage = stage, !.unknown = w, !.job = v]
           = Become(r, stage, v, r.polls, r.paid, w)
<1> DEFINE q == Become(r, stage, r.job, r.polls, r.paid, r.unknown)
<1>1. [r EXCEPT !.stage = stage] = q
  BY Records
<1>2. /\ [q EXCEPT !.unknown = w] = Become(r, stage, r.job, r.polls, r.paid, w)
      /\ [Become(r, stage, r.job, r.polls, r.paid, w) EXCEPT !.job = v]
           = Become(r, stage, v, r.polls, r.paid, w)
  BY DEF Become
<1>3. [r EXCEPT !.stage = stage, !.unknown = w, !.job = v]
        = [[[r EXCEPT !.stage = stage] EXCEPT !.unknown = w] EXCEPT !.job = v]
  OBVIOUS
<1> HIDE DEF q
<1> QED BY <1>1, <1>2, <1>3

\* The updates of the sequence.
LEMMA Updates ==
  ASSUME attempts \in Seq(Attempt), NEW a \in DOMAIN attempts, NEW stage, NEW v, NEW w
  PROVE  LET r == attempts[a] IN
         /\ To(a, stage) => Changed(a, stage, r.job, r.polls, r.paid, r.unknown)
         /\ attempts' = [attempts EXCEPT ![a].job = v]
              => Changed(a, r.stage, v, r.polls, r.paid, r.unknown)
         /\ attempts' = [attempts EXCEPT ![a].polls = @ + 1]
              => Changed(a, r.stage, r.job, r.polls + 1, r.paid, r.unknown)
         /\ attempts' = [attempts EXCEPT ![a].stage = stage, ![a].job = v]
              => Changed(a, stage, v, r.polls, r.paid, r.unknown)
         /\ attempts' = [attempts EXCEPT ![a].stage = stage, ![a].paid = v]
              => Changed(a, stage, r.job, r.polls, v, r.unknown)
         /\ attempts' = [attempts EXCEPT ![a].polls = @ + 1, ![a].stage = stage]
              => Changed(a, stage, r.job, r.polls + 1, r.paid, r.unknown)
         /\ attempts' = [attempts EXCEPT ![a].stage = stage, ![a].unknown = w, ![a].job = v]
              => Changed(a, stage, v, r.polls, r.paid, w)
<1> DEFINE r == attempts[a]
<1>1. r \in Attempt
  OBVIOUS
<1>2. /\ To(a, stage) => attempts' = [attempts EXCEPT ![a] = [r EXCEPT !.stage = stage]]
      /\ attempts' = [attempts EXCEPT ![a].job = v]
           => attempts' = [attempts EXCEPT ![a] = [r EXCEPT !.job = v]]
      /\ attempts' = [attempts EXCEPT ![a].polls = @ + 1]
           => attempts' = [attempts EXCEPT ![a] = [r EXCEPT !.polls = r.polls + 1]]
  BY DEF To
<1>3. /\ attempts' = [attempts EXCEPT ![a].stage = stage, ![a].job = v]
           => attempts' = [attempts EXCEPT ![a] = [r EXCEPT !.stage = stage, !.job = v]]
      /\ attempts' = [attempts EXCEPT ![a].stage = stage, ![a].paid = v]
           => attempts' = [attempts EXCEPT ![a] = [r EXCEPT !.stage = stage, !.paid = v]]
      /\ attempts' = [attempts EXCEPT ![a].polls = @ + 1, ![a].stage = stage]
           => attempts' = [attempts EXCEPT ![a] =
                             [r EXCEPT !.polls = r.polls + 1, !.stage = stage]]
      /\ attempts' = [attempts EXCEPT ![a].stage = stage, ![a].unknown = w, ![a].job = v]
           => attempts' = [attempts EXCEPT ![a] =
                             [r EXCEPT !.stage = stage, !.unknown = w, !.job = v]]
  OBVIOUS
<1>4. /\ [r EXCEPT !.stage = stage] = Become(r, stage, r.job, r.polls, r.paid, r.unknown)
      /\ [r EXCEPT !.job = v] = Become(r, r.stage, v, r.polls, r.paid, r.unknown)
      /\ [r EXCEPT !.polls = r.polls + 1]
           = Become(r, r.stage, r.job, r.polls + 1, r.paid, r.unknown)
  BY <1>1, Records
<1>5. [r EXCEPT !.stage = stage, !.job = v]
        = Become(r, stage, v, r.polls, r.paid, r.unknown)
  <2> HIDE DEF r
  <2> QED BY <1>1, MoreRecords
<1>7. [r EXCEPT !.stage = stage, !.paid = v]
        = Become(r, stage, r.job, r.polls, v, r.unknown)
  <2> HIDE DEF r
  <2> QED BY <1>1, MoreRecords
<1>8. [r EXCEPT !.stage = stage, !.unknown = w, !.job = v]
        = Become(r, stage, v, r.polls, r.paid, w)
  <2> HIDE DEF r
  <2> QED BY <1>1, LostRecords
<1>6. [r EXCEPT !.polls = r.polls + 1, !.stage = stage]
        = Become(r, stage, r.job, r.polls + 1, r.paid, r.unknown)
  <2> HIDE DEF r
  <2> QED BY <1>1, MoreRecords
<1> QED BY <1>2, <1>3, <1>4, <1>5, <1>6, <1>7, <1>8 DEF Changed

\* The stages at which an answer is awaited.
Awaited == {"createPaymentMethod", "confirmCardSetup", "walletSetup", "createPayPal",
            "window", "oneClickCheckout", "posting", "charging", "threeDS", "confirming"}

\* What an answer may make of the attempt r.
Outcome(r, stage, job, polls, paid, unknown) ==
  \/ /\ r.stage \in Awaited
     /\ stage \in {"oneClickCheckout", "posting", "charging", "threeDS", "confirming",
                   "refused", "failed", "abandoned", "redirected"}
     /\ <<job, polls, paid, unknown>> = <<r.job, r.polls, r.paid, r.unknown>>
  \/ /\ r.stage = "posting" /\ stage = "polling" /\ job = "running"
     /\ <<polls, paid, unknown>> = <<r.polls, r.paid, r.unknown>>
  \/ /\ r.stage = "posting" /\ stage = "failed" /\ unknown = TRUE /\ job \in {"none", "running"}
     /\ <<polls, paid>> = <<r.polls, r.paid>>
  \/ /\ r.job = "running" /\ job \in {"succeeded", "failed"}
     /\ <<stage, polls, paid, unknown>> = <<r.stage, r.polls, r.paid, r.unknown>>
  \/ /\ r.stage = "polling"
     /\ \/ stage = "succeeded" /\ job = "succeeded"
        \/ stage = "failed" /\ job = "failed"
     /\ <<job, polls, paid, unknown>> = <<r.job, r.polls, r.paid, r.unknown>>
  \/ /\ r.stage = "polling" /\ polls = r.polls + 1
     /\ \/ stage = "polling" /\ polls < MaxPolls
        \/ stage = "succeeded" /\ polls = MaxPolls
     /\ <<job, paid, unknown>> = <<r.job, r.paid, r.unknown>>
  \/ /\ r.stage \in {"charging", "confirming"}
     /\ \/ stage = "succeeded" /\ paid = TRUE
        \/ stage = "lost" /\ paid \in BOOLEAN
     /\ <<job, polls, unknown>> = <<r.job, r.polls, r.unknown>>

\* Every answer has one of these outcomes, and only a success leads to the thank-you page.
LEMMA Answers ==
  ASSUME TypeOK, NEW a \in DOMAIN attempts, Answer(a)
  PROVE  \E stage \in Stages, job \in Jobs, polls \in 0..MaxPolls, paid \in BOOLEAN,
            unknown \in BOOLEAN :
           /\ Changed(a, stage, job, polls, paid, unknown)
           /\ Outcome(attempts[a], stage, job, polls, paid, unknown)
           /\ page' = "thankYou" => page = "thankYou" \/ stage = "succeeded"
<1> DEFINE r == attempts[a]
           Goal == \E stage \in Stages, job \in Jobs, polls \in 0..MaxPolls,
                      paid \in BOOLEAN, unknown \in BOOLEAN :
                     /\ Changed(a, stage, job, polls, paid, unknown)
                     /\ Outcome(r, stage, job, polls, paid, unknown)
                     /\ page' = "thankYou" => page = "thankYou" \/ stage = "succeeded"
<1>0. attempts \in Seq(Attempt)
  BY DEF TypeOK
<1>1. /\ r \in Attempt
      /\ r.job \in Jobs /\ r.polls \in 0..MaxPolls /\ r.polls \in Nat
      /\ r.paid \in BOOLEAN /\ r.unknown \in BOOLEAN /\ r.stage \in Stages
  <2>1. r \in Attempt
    BY <1>0
  <2>2. r.polls \in 0..MaxPolls
    BY <2>1 DEF Attempt
  <2>3. r.polls \in Nat
    BY <2>2, BoundsAssumption
  <2> HIDE DEF r
  <2> QED BY <2>1, <2>2, <2>3 DEF Attempt, Jobs
<1>2. ASSUME NEW stage \in {"oneClickCheckout", "posting", "charging", "threeDS", "confirming",
                            "refused", "failed", "abandoned", "redirected"},
             To(a, stage), r.stage \in Awaited,
             page' = "thankYou" => page = "thankYou"
      PROVE  Goal
  <2>1. Changed(a, stage, r.job, r.polls, r.paid, r.unknown)
    BY <1>0, <1>2, Updates
  <2>2. Outcome(r, stage, r.job, r.polls, r.paid, r.unknown)
    BY <1>2 DEF Outcome
  <2>3. stage \in Stages
    BY DEF Stages
  <2> QED BY <1>1, <1>2, <2>1, <2>2, <2>3
<1>3. CASE Authorises(a) \/ WindowCloses(a) \/ OneClickCheckout(a) \/ PayPalCreated(a)
             \/ Handle3DS(a)
  <2>1. PICK stage \in {"oneClickCheckout", "posting", "charging", "threeDS", "confirming",
                        "refused", "failed", "abandoned", "redirected"} : To(a, stage)
    BY <1>3, HandlersType DEF Authorises, Authorised, NotAuthorised, WindowCloses,
       OneClickCheckout, PayPalCreated, Handle3DS
  <2>2. r.stage \in Awaited
    BY <1>3 DEF Authorises, WindowCloses, OneClickCheckout, PayPalCreated, Handle3DS, Answering,
       Awaited
  <2>3. page' = "thankYou" => page = "thankYou"
    BY <1>3 DEF Authorises, NotAuthorised, WindowCloses, OneClickCheckout, PayPalCreated,
       Handle3DS, NoVerdict, Failed
  <2> QED BY <1>2, <2>1, <2>2, <2>3
<1>4. CASE Posted(a)
  <2>0. r.stage = "posting" /\ r.stage \in Awaited /\ (page' = "thankYou" => page = "thankYou")
    BY <1>4 DEF Posted, Answering, NoVerdict, Failed, Awaited
  <2>1. CASE attempts' = [attempts EXCEPT ![a].stage = "polling", ![a].job = "running"]
    <3>1. Changed(a, "polling", "running", r.polls, r.paid, r.unknown)
      BY <1>0, <2>1, Updates
    <3>2. Outcome(r, "polling", "running", r.polls, r.paid, r.unknown)
      BY <2>0 DEF Outcome
    <3>3. "polling" \in Stages /\ "running" \in Jobs
      BY DEF Stages, Jobs
    <3> QED BY <1>1, <2>0, <3>1, <3>2, <3>3
  <2>2. CASE To(a, "failed")
    BY <1>2, <2>0, <2>2
  <2>3. ASSUME NEW job \in {"none", "running"},
               attempts' = [attempts EXCEPT ![a].stage = "failed", ![a].unknown = TRUE,
                                            ![a].job = job]
        PROVE  Goal
    <3>1. Changed(a, "failed", job, r.polls, r.paid, TRUE)
      BY <1>0, <2>3, Updates
    <3>2. Outcome(r, "failed", job, r.polls, r.paid, TRUE)
      BY <2>0 DEF Outcome
    <3>3. "failed" \in Stages /\ job \in Jobs
      BY DEF Stages, Jobs
    <3> QED BY <1>1, <2>0, <3>1, <3>2, <3>3
  <2> QED BY <1>4, <2>1, <2>2, <2>3 DEF Posted
<1>5. CASE JobEnds(a)
  <2>1. PICK job \in {"succeeded", "failed"} : attempts' = [attempts EXCEPT ![a].job = job]
    BY <1>5 DEF JobEnds
  <2>2. Changed(a, r.stage, job, r.polls, r.paid, r.unknown)
    BY <1>0, <2>1, Updates
  <2>3. Outcome(r, r.stage, job, r.polls, r.paid, r.unknown)
    BY <1>5 DEF Outcome, JobEnds
  <2>4. job \in Jobs /\ page' = page
    BY <1>5 DEF Jobs, JobEnds, NoVerdict
  <2> QED BY <1>1, <2>2, <2>3, <2>4
<1>6. CASE Poll(a)
  <2>0. r.stage = "polling" /\ {"succeeded", "failed"} \subseteq Stages
    BY <1>6 DEF Poll, Answering, Stages
  <2>1. CASE r.job = "succeeded" /\ To(a, "succeeded")
    <3>1. Changed(a, "succeeded", r.job, r.polls, r.paid, r.unknown)
      BY <1>0, <2>1, Updates
    <3>2. Outcome(r, "succeeded", r.job, r.polls, r.paid, r.unknown)
      BY <2>0, <2>1 DEF Outcome
    <3> QED BY <1>1, <2>0, <3>1, <3>2
  <2>2. CASE r.job = "failed" /\ To(a, "failed") /\ Failed(r.method)
    <3>1. Changed(a, "failed", r.job, r.polls, r.paid, r.unknown)
      BY <1>0, <2>2, Updates
    <3>2. Outcome(r, "failed", r.job, r.polls, r.paid, r.unknown)
      BY <2>0, <2>2 DEF Outcome
    <3>3. page' = page
      BY <2>2 DEF Failed
    <3> QED BY <1>1, <2>0, <3>1, <3>2, <3>3
  <2>3. CASE /\ r.polls + 1 < MaxPolls
             /\ attempts' = [attempts EXCEPT ![a].polls = @ + 1]
             /\ NoVerdict
    <3>1. Changed(a, r.stage, r.job, r.polls + 1, r.paid, r.unknown)
      BY <1>0, <2>3, Updates
    <3>2. Outcome(r, r.stage, r.job, r.polls + 1, r.paid, r.unknown)
      BY <2>0, <2>3 DEF Outcome
    <3>3. r.polls + 1 \in 0..MaxPolls /\ page' = page
      BY <1>1, <2>3, BoundsAssumption DEF NoVerdict
    <3> QED BY <1>1, <3>1, <3>2, <3>3
  <2>4. CASE /\ r.polls + 1 = MaxPolls
             /\ attempts' = [attempts EXCEPT ![a].polls = @ + 1, ![a].stage = "succeeded"]
    <3>1. Changed(a, "succeeded", r.job, r.polls + 1, r.paid, r.unknown)
      BY <1>0, <2>4, Updates
    <3>2. Outcome(r, "succeeded", r.job, r.polls + 1, r.paid, r.unknown)
      BY <2>0, <2>4 DEF Outcome
    <3>3. r.polls + 1 \in 0..MaxPolls
      BY <1>1, <2>4, BoundsAssumption
    <3> QED BY <1>1, <2>0, <3>1, <3>2, <3>3
  <2> QED BY <1>6, <2>1, <2>2, <2>3, <2>4 DEF Poll
<1>7. CASE Charged(a)
  <2>0. /\ r.stage \in {"charging", "confirming"} /\ r.stage \in Awaited
        /\ {"succeeded", "lost"} \subseteq Stages
    BY <1>7 DEF Charged, Answering, Awaited, Stages
  <2>1. CASE attempts' = [attempts EXCEPT ![a].stage = "succeeded", ![a].paid = TRUE]
    <3>1. Changed(a, "succeeded", r.job, r.polls, TRUE, r.unknown)
      BY <1>0, <2>1, Updates
    <3>2. Outcome(r, "succeeded", r.job, r.polls, TRUE, r.unknown)
      BY <2>0 DEF Outcome
    <3> QED BY <1>1, <2>0, <3>1, <3>2
  <2>2. CASE \/ To(a, "failed") /\ Failed(r.method)
             \/ To(a, "threeDS") /\ NoVerdict
    BY <1>2, <2>0, <2>2 DEF Failed, NoVerdict
  <2>3. ASSUME NEW paid \in BOOLEAN, NoVerdict,
               attempts' = [attempts EXCEPT ![a].stage = "lost", ![a].paid = paid]
        PROVE  Goal
    <3>1. Changed(a, "lost", r.job, r.polls, paid, r.unknown)
      BY <1>0, <2>3, Updates
    <3>2. Outcome(r, "lost", r.job, r.polls, paid, r.unknown)
      BY <2>0 DEF Outcome
    <3>3. page' = page
      BY <2>3 DEF NoVerdict
    <3> QED BY <1>1, <2>0, <3>1, <3>2, <3>3
  <2> QED BY <1>7, <2>1, <2>2, <2>3 DEF Charged
<1> QED BY <1>3, <1>4, <1>5, <1>6, <1>7 DEF Answer

\* An attempt as it is begun.
Fresh(r) ==
  /\ r \in Attempt /\ r.job = "none" /\ r.polls = 0 /\ r.paid = FALSE /\ r.unknown = FALSE
  /\ r.type = type
  /\ r.stage \in {"createPaymentMethod", "confirmCardSetup", "walletSetup", "createPayPal",
                  "window", "posting", "charging", "refused"}

\* Begin adds a fresh attempt.
LEMMA Beginning ==
  ASSUME TypeOK, NEW by \in {"click", "secret", "wallet"},
         NEW m \in PaymentMethods \cup {"Wallet"}
  PROVE  /\ \A stage \in {"createPaymentMethod", "confirmCardSetup", "walletSetup",
                          "createPayPal", "window"} :
              Fresh(Begun(by, m, stage))
         /\ BeginAuthorised(by, m) =>
              \E stage \in {"refused", "posting", "charging"} :
                Fresh(Begun(by, m, stage)) /\ Begin(by, m, stage)
<1>1. VisitType /\ button \in Buttons
  BY TypeParts
<1>2. \A stage \in {"createPaymentMethod", "confirmCardSetup", "walletSetup", "createPayPal",
                    "window", "posting", "charging", "refused"} :
        Fresh(Begun(by, m, stage))
  <2> TAKE stage \in {"createPaymentMethod", "confirmCardSetup", "walletSetup", "createPayPal",
                      "window", "posting", "charging", "refused"}
  <2>1. stage \in Stages
    BY DEF Stages
  <2>2. Begun(by, m, stage) \in Attempt
    BY <1>1, <2>1, BegunType
  <2> QED BY <2>2 DEF Fresh, Begun
<1> QED BY <1>2, HandlersType DEF BeginAuthorised

\* What the effects and the customer add to the attempts, if anything.
LEMMA Beginnings ==
  ASSUME TypeOK,
         \/ ValidationEffect \/ SecretEffect \/ ClickPayPal
         \/ \E v \in BOOLEAN : AuthoriseWallet(v)
  PROVE  \/ attempts' = attempts
         \/ \E r : Fresh(r) /\ attempts' = Append(attempts, r)
<1> DEFINE Goal == \/ attempts' = attempts
                   \/ \E r : Fresh(r) /\ attempts' = Append(attempts, r)
<1>1. ASSUME NEW by \in {"click", "secret", "wallet"},
             NEW m \in PaymentMethods \cup {"Wallet"},
             \/ BeginAuthorised(by, m)
             \/ \E stage \in {"createPaymentMethod", "confirmCardSetup", "walletSetup",
                              "createPayPal", "window"} : Begin(by, m, stage)
      PROVE  Goal
  BY <1>1, Beginning DEF Begin
<1>2. CASE ValidationEffect
  <2>1. attempts' = attempts \/ paymentHandler
    BY <1>2 DEF ValidationEffect
  <2>2. paymentHandler => Goal
    BY <1>1 DEF paymentHandler, PaymentMethods
  <2> QED BY <2>1, <2>2
<1>3. CASE SecretEffect
  BY <1>1, <1>3 DEF SecretEffect, PaymentMethods
<1>4. CASE ClickPayPal
  <2> DEFINE b == Begun("click", "PayPal", "window")
  <2>1. Fresh(b)
    BY Beginning DEF PaymentMethods
  <2>2. clicks' \in 0..MaxClicks
    BY <1>4, BoundsAssumption DEF ClickPayPal, TypeOK
  <2>3. Fresh([b EXCEPT !.click = clicks'])
    <3> HIDE DEF b
    <3> QED BY <2>1, <2>2 DEF Fresh, Attempt
  <2> QED BY <1>4, <2>3 DEF ClickPayPal
<1>5. ASSUME NEW v \in BOOLEAN, AuthoriseWallet(v) PROVE Goal
  BY <1>1, <1>5 DEF AuthoriseWallet
<1> QED BY <1>2, <1>3, <1>4, <1>5

\* What leaves the attempts and the thank-you page alone.
Idle ==
  \/ \E t \in ContributionTypes : ChooseType(t)
  \/ Continue
  \/ \E m \in PaymentMethods : SelectMethod(m)
  \/ Change
  \/ \E v \in BOOLEAN : EditDetails(v)
  \/ \E c \in BOOLEAN : EditCard(c)
  \/ \E account \in {"none", "good", "bad"} : EditAccount(account)
  \/ SolveRecaptcha
  \/ ExpireRecaptcha
  \/ ClickPay
  \/ ClickDirectDebit
  \/ ClickWallet
  \/ CancelWallet
  \/ \E t \in setups : SetupIntent(t)
  \/ \E c \in checks : AccountChecked(c)
  \/ UNCHANGED vars

\* Every step leaves the attempts alone, begins one, or is an answer.
LEMMA Effects ==
  ASSUME TypeOK, [Next]_vars
  PROVE  \/ attempts' = attempts /\ (page' = "thankYou" => page = "thankYou")
         \/ \E r : Fresh(r) /\ attempts' = Append(attempts, r) /\ page' = page
         \/ \E a \in DOMAIN attempts : Answer(a)
<1>1. CASE Idle
  <2>1. attempts' = attempts
    BY <1>1 DEF Idle, ChooseType, Continue, SelectMethod, Change, EditDetails, EditCard,
       EditAccount, SolveRecaptcha, ExpireRecaptcha, ClickPay, ClickDirectDebit, ClickWallet,
       CancelWallet, SetupIntent, AccountChecked, vars
  <2>2. page' = "thankYou" => page = "thankYou"
    BY <1>1 DEF Idle, ChooseType, Continue, SelectMethod, Change, EditDetails, EditCard,
       EditAccount, SolveRecaptcha, ExpireRecaptcha, ClickPay, ClickDirectDebit, ClickWallet,
       CancelWallet, SetupIntent, AccountChecked, vars
  <2> QED BY <2>1, <2>2
<1>2. CASE \/ ValidationEffect \/ SecretEffect \/ ClickPayPal
           \/ \E v \in BOOLEAN : AuthoriseWallet(v)
  <2>1. page' = page
    BY <1>2 DEF ValidationEffect, SecretEffect, ClickPayPal, AuthoriseWallet
  <2> QED BY <1>2, <2>1, Beginnings
<1> QED BY <1>1, <1>2 DEF Next, Customer, Idle

-----------------------------------------------------------------------------
(* Type correctness.                                                       *)

\* The attempts keep their type.
LEMMA AttemptsType ==
  ASSUME TypeOK, [Next]_vars PROVE attempts' \in Seq(Attempt)
<1>0. attempts \in Seq(Attempt)
  BY DEF TypeOK
<1>1. ASSUME NEW r, Fresh(r), attempts' = Append(attempts, r) PROVE attempts' \in Seq(Attempt)
  BY <1>0, <1>1 DEF Fresh
<1>2. ASSUME NEW a \in DOMAIN attempts, Answer(a) PROVE attempts' \in Seq(Attempt)
  BY <1>0, <1>2, Answers, ChangedType
<1> QED BY <1>0, <1>1, <1>2, Effects

\* The effects keep the types of the slices and of the button.
LEMMA EffectsType ==
  ASSUME TypeOK, ValidationEffect \/ SecretEffect
  PROVE  SlicesType' /\ VisitType' /\ button' \in Buttons
<1>0. SlicesType /\ VisitType /\ button \in Buttons
  BY TypeParts
<1>1. contributionsFormHasErrors \in BOOLEAN
  BY <1>0, ErrorsType
<1>2. ValidationDeps \in (0..MaxClicks) \X BOOLEAN \X BOOLEAN
  BY <1>0, <1>1 DEF ValidationDeps, Buttons
<1>3. CASE ValidationEffect
  <2>1. form' \in Forms
    BY <1>0, <1>3 DEF ValidationEffect, SlicesType, Forms
  <2>2. SlicesType' /\ VisitType'
    BY <1>0, <1>3, <2>1 DEF ValidationEffect, SlicesType, VisitType
  <2>3. ValidationDeps[3] \in BOOLEAN
    BY DEF ValidationDeps
  <2>4. <<0, TRUE, ValidationDeps[3]>> \in (0..MaxClicks) \X BOOLEAN \X BOOLEAN
    BY <2>3, Zeros
  <2>5. \/ button' = [button EXCEPT !.click = 0, !.ran = <<0, TRUE, ValidationDeps[3]>>]
        \/ button' = [button EXCEPT !.ran = ValidationDeps]
        \/ \E w \in BOOLEAN :
             button' = [button EXCEPT !.ran = ValidationDeps, !.awaiting = w]
    <3>1. button.awaiting \in BOOLEAN
      BY <1>0 DEF Buttons
    <3> QED BY <1>3, <3>1 DEF ValidationEffect
  <2>6. button' \in Buttons
    BY <1>0, <1>2, <2>4, <2>5, Zeros DEF Buttons
  <2> QED BY <2>2, <2>6
<1>4. CASE SecretEffect
  <2>1. SlicesType' /\ VisitType'
    BY <1>0, <1>4 DEF SecretEffect, slices, SlicesType, VisitType
  <2>2. SecretDeps \in (0..MaxTokens) \X BOOLEAN
    BY <1>0 DEF SecretDeps, SlicesType, Cards, Buttons
  <2>3. button' = [button EXCEPT !.ranSecret = SecretDeps]
    BY <1>4 DEF SecretEffect
  <2>4. button' \in Buttons
    BY <1>0, <2>2, <2>3 DEF Buttons
  <2> QED BY <2>1, <2>4
<1> QED BY <1>3, <1>4

\* So do the answers.
LEMMA AnswersType ==
  ASSUME TypeOK, NEW a \in DOMAIN attempts, Answer(a)
  PROVE  SlicesType' /\ VisitType' /\ button' \in Buttons
<1>0. SlicesType /\ VisitType /\ button \in Buttons
  BY TypeParts
<1>1. UNCHANGED Rest
  BY DEF Answer, Authorises, WindowCloses, OneClickCheckout, PayPalCreated, Posted, JobEnds,
     Poll, Charged, Handle3DS
<1>2. \A m : Failed(m) => form' \in Forms /\ wallet' \in Wallets /\ page' = page
  <2> SUFFICES ASSUME NEW m, Failed(m)
               PROVE  form' \in Forms /\ wallet' \in Wallets /\ page' = page
    OBVIOUS
  <2>1. (form.paymentError \/ m # "Wallet") \in BOOLEAN
        /\ (wallet.error \/ m = "Wallet") \in BOOLEAN
    BY <1>0 DEF SlicesType, Forms, Wallets
  <2>2. form' \in Forms
    BY <2>1 DEF Failed, Forms
  <2>3. wallet' \in Wallets
    BY <1>0, <2>1 DEF Failed, SlicesType, Wallets
  <2> QED BY <2>2, <2>3 DEF Failed
<1>3. Succeeded => form' \in Forms /\ wallet' \in Wallets /\ page' = "thankYou"
  BY <1>0 DEF Succeeded, SlicesType, Forms
<1>4. NoVerdict => form' \in Forms /\ wallet' \in Wallets /\ page' = page
  BY <1>0 DEF NoVerdict, SlicesType
<1>5. [form EXCEPT !.isWaiting = TRUE, !.paymentComplete = FALSE] \in Forms
  BY <1>0 DEF SlicesType, Forms
<1>6. form' \in Forms /\ wallet' \in Wallets /\ page' \in {page, "thankYou", "left"}
  <2>1. CASE Authorises(a) \/ WindowCloses(a) \/ Posted(a) \/ JobEnds(a) \/ Poll(a)
               \/ Charged(a) \/ Handle3DS(a)
    BY <1>2, <1>3, <1>4, <2>1 DEF Authorises, NotAuthorised, WindowCloses, Posted, JobEnds,
       Poll, Charged, Handle3DS
  <2>2. CASE OneClickCheckout(a)
    BY <1>0, <1>5, <2>2 DEF OneClickCheckout, SlicesType
  <2>3. CASE PayPalCreated(a)
    BY <1>0, <1>2, <2>3 DEF PayPalCreated, SlicesType
  <2> QED BY <2>1, <2>2, <2>3 DEF Answer
<1>7. SlicesType'
  BY <1>0, <1>1, <1>6 DEF Rest, SlicesType
<1>8. VisitType'
  BY <1>0, <1>1, <1>6 DEF Rest, VisitType
<1>9. button' \in Buttons
  BY <1>0, <1>1 DEF Rest
<1> QED BY <1>7, <1>8, <1>9

\* And everything else.
LEMMA IdleType ==
  ASSUME TypeOK,
         \/ Idle \/ ClickPayPal \/ \E v \in BOOLEAN : AuthoriseWallet(v)
  PROVE  SlicesType' /\ VisitType' /\ button' \in Buttons
<1> DEFINE Goal == SlicesType' /\ VisitType' /\ button' \in Buttons
<1>0. SlicesType /\ VisitType /\ button \in Buttons
  BY TypeParts
<1>1. /\ DetailsValidated \in Details /\ RecaptchaValidated \in Recaptchas
      /\ WalletValidated \in Wallets
      /\ \A m : StripeValidated(m) \in Cards /\ DirectDebitValidated(m) \in Accounts
  BY <1>0, ValidationType
<1>2. \A m : Shown(m) => /\ payment' = m /\ button' \in Buttons /\ stripe' \in Cards
                         /\ details' \in Details /\ wallet' \in Wallets
  BY <1>0, <1>1, MountedType DEF Shown, SlicesType, Cards
<1>3. ASSUME clicks < MaxClicks, clicks' = clicks + 1
      PROVE  /\ clicks' \in 0..MaxClicks /\ clicks' \in 1..MaxClicks
             /\ [button EXCEPT !.click = clicks'] \in Buttons
  <2>1. clicks' \in 0..MaxClicks /\ clicks' \in 1..MaxClicks
    BY <1>0, <1>3, BoundsAssumption DEF VisitType
  <2> QED BY <1>0, <2>1 DEF Buttons
<1>4. ASSUME NEW t \in ContributionTypes, ChooseType(t) PROVE Goal
  BY <1>0, <1>4 DEF ChooseType, slices, SlicesType, VisitType
<1>5. CASE Continue
  <2>1. PICK m : Shown(m) /\ (m \in PaymentMethods \/ m = payment)
    <3> DEFINE shown == getValidPaymentMethods(type) \ {"ExistingCard"}
    <3>1. shown \subseteq PaymentMethods
      BY DEF getValidPaymentMethods, getPaymentMethods, PaymentMethods
    <3>2. CASE Cardinality(shown) = 1
      <4>1. shown # {}
        <5> SUFFICES ASSUME shown = {} PROVE FALSE
          OBVIOUS
        <5> QED BY <3>2, FS_EmptySet
      <4>2. (CHOOSE m \in shown : TRUE) \in shown
        BY <4>1
      <4> QED BY <1>5, <3>1, <3>2, <4>2 DEF Continue
    <3>3. CASE Cardinality(shown) # 1
      BY <1>5, <3>3 DEF Continue
    <3> QED BY <3>2, <3>3
  <2>2. /\ payment' \in PaymentMethods \cup {"None"} /\ button' \in Buttons /\ stripe' \in Cards
        /\ details' \in Details /\ wallet' \in Wallets
    BY <1>0, <1>2, <2>1 DEF VisitType
  <2>3. recaptcha' \in Recaptchas
    <3>1. recaptcha.token \in 0..MaxTokens
          /\ (recaptcha.error \/ payment' = "PayPal") \in BOOLEAN
      BY <1>0 DEF SlicesType, Recaptchas
    <3>2. \E n \in 0..MaxTokens :
            recaptcha' = [token |-> n, solved |-> FALSE,
                          error |-> recaptcha.error \/ payment' = "PayPal"]
      BY <1>5, <3>1, Zeros DEF Continue
    <3> QED BY <3>1, <3>2 DEF Recaptchas
  <2> QED BY <1>0, <1>5, <2>2, <2>3 DEF Continue, SlicesType, VisitType
<1>6. ASSUME NEW m \in PaymentMethods, SelectMethod(m) PROVE Goal
  <2>1. (recaptcha.error \/ m = "PayPal") \in BOOLEAN
    BY <1>0 DEF SlicesType, Recaptchas
  <2>2. recaptcha' \in Recaptchas
    BY <1>6, <2>1, Zeros DEF SelectMethod, Recaptchas
  <2> QED BY <1>0, <1>2, <1>6, <2>2 DEF SelectMethod, SlicesType, VisitType
<1>7. CASE Change
  <2>1. /\ details' \in Details /\ recaptcha' \in Recaptchas /\ stripe' \in Cards
        /\ directDebit' \in Accounts /\ wallet' \in Wallets
    BY <1>0, <1>7 DEF Change, SlicesType, Details, Recaptchas, Cards, Accounts, Wallets
  <2> QED BY <1>0, <1>7, <2>1 DEF Change, SlicesType, VisitType
<1>8. ASSUME NEW v \in BOOLEAN, EditDetails(v) PROVE Goal
  BY <1>0, <1>8 DEF EditDetails, SlicesType, VisitType, Details
<1>9. ASSUME NEW c \in BOOLEAN, EditCard(c) PROVE Goal
  <2>1. stripe' \in Cards
    BY <1>0, <1>9 DEF EditCard, SlicesType, Cards
  <2> QED BY <1>0, <1>9, <2>1 DEF EditCard, SlicesType, VisitType
<1>10. ASSUME NEW account \in {"none", "good", "bad"}, EditAccount(account) PROVE Goal
  <2>1. directDebit' \in Accounts
    BY <1>0, <1>10 DEF EditAccount, SlicesType, Accounts
  <2> QED BY <1>0, <1>10, <2>1 DEF EditAccount, SlicesType, VisitType
<1>11. CASE SolveRecaptcha
  <2>1. tokens' \in 0..MaxTokens /\ tokens' \in 1..MaxTokens
    BY <1>0, <1>11, BoundsAssumption DEF SolveRecaptcha, VisitType
  <2>2. recaptcha' \in Recaptchas
    BY <1>11, <2>1 DEF SolveRecaptcha, Recaptchas
  <2>3. setups' = setups \cup {tokens'} \/ setups' = setups
    BY <1>11 DEF SolveRecaptcha
  <2>4. setups' \subseteq 1..MaxTokens
    BY <1>0, <2>1, <2>3 DEF VisitType
  <2> QED BY <1>0, <1>11, <2>1, <2>2, <2>4 DEF SolveRecaptcha, SlicesType, VisitType
<1>12. CASE ExpireRecaptcha
  <2>1. recaptcha' \in Recaptchas
    BY <1>0, <1>12, Zeros DEF ExpireRecaptcha, SlicesType, Recaptchas
  <2> QED BY <1>0, <1>12, <2>1 DEF ExpireRecaptcha, SlicesType, VisitType
<1>13. CASE ClickPay
  BY <1>0, <1>1, <1>3, <1>13 DEF ClickPay, validateForm, SlicesType, VisitType
<1>14. CASE ClickDirectDebit
  <2>1. form' \in Forms
    BY <1>0, <1>14 DEF ClickDirectDebit, SlicesType, Forms
  <2>2. directDebit' \in Accounts
    BY <1>1, <1>14 DEF ClickDirectDebit, Accounts
  <2>3. clicks' \in 0..MaxClicks /\ clicks' \in 1..MaxClicks /\ button' \in Buttons
    BY <1>3, <1>14 DEF ClickDirectDebit
  <2>4. <<clicks', directDebit.account>> \in Checks
    BY <1>0, <2>3 DEF Checks, SlicesType, Accounts
  <2>5. checks' \subseteq Checks
    BY <1>0, <1>14, <2>4 DEF ClickDirectDebit, VisitType
  <2> QED BY <1>0, <1>1, <1>14, <2>1, <2>2, <2>3, <2>5
       DEF ClickDirectDebit, SlicesType, VisitType
<1>15. CASE ClickPayPal
  BY <1>0, <1>1, <1>3, <1>15 DEF ClickPayPal, validateForm, SlicesType, VisitType
<1>16. CASE ClickWallet
  <2>1. wallet' \in Wallets
    BY <1>0, <1>16 DEF ClickWallet, SlicesType, Wallets
  <2>2. recaptcha' \in Recaptchas
    BY <1>0, <1>16, Zeros DEF ClickWallet, SlicesType, Recaptchas
  <2>3. stripe' \in Cards /\ button' \in Buttons
    BY <1>0, <1>16, MountedType DEF ClickWallet, SlicesType, Cards
  <2>4. clicks' \in 0..MaxClicks
    BY <1>3, <1>16 DEF ClickWallet
  <2> QED BY <1>0, <1>16, <2>1, <2>2, <2>3, <2>4
       DEF ClickWallet, SlicesType, VisitType, PaymentMethods
<1>17. ASSUME NEW v \in BOOLEAN, AuthoriseWallet(v) PROVE Goal
  <2>1. wallet' \in Wallets
    BY <1>0, <1>17 DEF AuthoriseWallet, SlicesType, Wallets
  <2>2. form' \in Forms
    BY <1>0, <1>17 DEF AuthoriseWallet, SlicesType, Forms
  <2>3. recaptcha' \in Recaptchas
    <3>1. [recaptcha EXCEPT !.error = TRUE] \in Recaptchas
      BY <1>0 DEF SlicesType, Recaptchas
    <3>2. [token |-> 0, solved |-> FALSE, error |-> TRUE] \in Recaptchas
      BY Zeros DEF Recaptchas
    <3> QED BY <1>17, <3>1, <3>2 DEF AuthoriseWallet
  <2>4. details' \in Details
    <3>1. \A x, y \in BOOLEAN : [valid |-> x, error |-> y] \in Details
      BY DEF Details
    <3> QED BY <1>17, <3>1 DEF AuthoriseWallet
  <2>5. payment' \in PaymentMethods \cup {"None"}
    BY <1>0, <1>17 DEF AuthoriseWallet, VisitType
  <2> QED BY <1>0, <1>17, <2>1, <2>2, <2>3, <2>4, <2>5
       DEF AuthoriseWallet, SlicesType, VisitType
<1>18. CASE CancelWallet
  <2>1. wallet' \in Wallets
    BY <1>0, <1>18 DEF CancelWallet, SlicesType, Wallets
  <2>2. recaptcha' \in Recaptchas
    BY <1>0, <1>18, Zeros DEF CancelWallet, SlicesType, Recaptchas
  <2> QED BY <1>0, <1>18, <2>1, <2>2 DEF CancelWallet, SlicesType, VisitType
<1>19. ASSUME NEW t \in setups, SetupIntent(t) PROVE Goal
  <2>1. t \in 0..MaxTokens
    BY <1>0, BoundsAssumption DEF VisitType
  <2>2. stripe' \in Cards
    BY <1>0, <1>19, <2>1 DEF SetupIntent, SlicesType, Cards
  <2>3. setups' \subseteq 1..MaxTokens
    BY <1>0, <1>19 DEF SetupIntent, VisitType
  <2> QED BY <1>0, <1>19, <2>2, <2>3 DEF SetupIntent, SlicesType, VisitType
<1>20. ASSUME NEW c \in checks, AccountChecked(c) PROVE Goal
  <2>1. directDebit' \in Accounts
    BY <1>0, <1>20 DEF AccountChecked, SlicesType, Accounts
  <2>2. checks' \subseteq Checks
    BY <1>0, <1>20 DEF AccountChecked, VisitType
  <2> QED BY <1>0, <1>20, <2>1, <2>2 DEF AccountChecked, SlicesType, VisitType
<1>21. CASE UNCHANGED vars
  BY <1>0, <1>21 DEF vars, slices, SlicesType, VisitType
<1> QED BY <1>4, <1>5, <1>6, <1>7, <1>8, <1>9, <1>10, <1>11, <1>12, <1>13, <1>14, <1>15, <1>16,
     <1>17, <1>18, <1>19, <1>20, <1>21 DEF Idle

\* Every step keeps the types.
LEMMA TypeStep == TypeOK /\ [Next]_vars => TypeOK'
<1> SUFFICES ASSUME TypeOK, [Next]_vars PROVE TypeOK'
  OBVIOUS
<1>1. attempts' \in Seq(Attempt)
  BY AttemptsType
<1>2. SlicesType' /\ VisitType' /\ button' \in Buttons
  <2>1. \/ Idle \/ ClickPayPal \/ \E v \in BOOLEAN : AuthoriseWallet(v)
        \/ ValidationEffect \/ SecretEffect
        \/ \E a \in DOMAIN attempts : Answer(a)
    BY DEF Next, Customer, Idle
  <2> QED BY <2>1, IdleType, EffectsType, AnswersType
<1> QED BY <1>1, <1>2 DEF TypeOK, SlicesType, VisitType, Forms, Details, Recaptchas, Cards,
     Accounts, Wallets, Buttons, Checks

\* They hold at first.
LEMMA TypeInit == Init => TypeOK
<1> SUFFICES ASSUME Init PROVE TypeOK
  OBVIOUS
<1>1. <<>> \in Seq(Attempt)
  OBVIOUS
<1>2. type \in ContributionTypes
  BY OffersAssumption DEF Init
<1>3. button \in Buttons
  BY MountedType DEF Init
<1>4. SlicesType
  BY Zeros DEF Init, SlicesType, Forms, Details, Recaptchas, Cards, Accounts, Wallets
<1>5. VisitType
  BY <1>2, Zeros DEF Init, VisitType
<1> QED BY <1>1, <1>3, <1>4, <1>5, TypeParts DEF Init

\* Every slice keeps its shape.
THEOREM TypeCorrect == Spec => []TypeOK
BY TypeInit, TypeStep, PTL DEF Spec

-----------------------------------------------------------------------------
(* ThankYouIsTrue and FailureIsTrue.                                       *)

\* What each attempt's stage says of its money and its job.
Sound(r) ==
  /\ r.stage \in Awaited => ~r.paid /\ ~r.unknown /\ r.job = "none"
  /\ r.stage = "polling" => ~r.paid
  /\ r.stage = "failed" => ~r.paid /\ (r.unknown \/ r.job \in {"none", "failed"})
  /\ r.stage = "succeeded" => r.paid \/ r.job = "succeeded" \/ r.polls = MaxPolls
  /\ r.stage \in {"refused", "abandoned"} => ~r.paid /\ r.job = "none"
  /\ r.stage \in {"lost", "redirected"} => r.job = "none"

Verdicts ==
  /\ \A a \in DOMAIN attempts : Sound(attempts[a])
  /\ page = "thankYou" => \E a \in DOMAIN attempts : attempts[a].stage = "succeeded"

\* An outcome keeps an attempt sound, and a success stays one.
LEMMA SoundOutcome ==
  ASSUME NEW r \in Attempt, NEW stage \in Stages, NEW job \in Jobs, NEW polls \in 0..MaxPolls,
         NEW paid \in BOOLEAN, NEW unknown \in BOOLEAN,
         Sound(r), Outcome(r, stage, job, polls, paid, unknown)
  PROVE  /\ Sound(Become(r, stage, job, polls, paid, unknown))
         /\ r.stage = "succeeded" => stage = "succeeded"
BY DEF Sound, Outcome, Become, Awaited

\* Every step keeps the verdicts.
LEMMA VerdictsStep == TypeOK /\ Verdicts /\ [Next]_vars => Verdicts'
<1> SUFFICES ASSUME TypeOK, Verdicts, [Next]_vars PROVE Verdicts'
  OBVIOUS
<1>0. attempts \in Seq(Attempt) /\ Len(attempts) \in Nat
  BY DEF TypeOK
<1>1. CASE attempts' = attempts /\ (page' = "thankYou" => page = "thankYou")
  BY <1>1 DEF Verdicts
<1>2. ASSUME NEW r, Fresh(r), attempts' = Append(attempts, r), page' = page
      PROVE  Verdicts'
  <2> DEFINE n == Len(attempts) + 1
  <2>1. /\ DOMAIN attempts' = DOMAIN attempts \cup {n} /\ attempts'[n] = r
        /\ \A b \in DOMAIN attempts : b # n /\ attempts'[b] = attempts[b]
    BY <1>0, <1>2 DEF Fresh
  <2>2. Sound(r)
    BY <1>2 DEF Fresh, Sound
  <2> QED BY <1>2, <2>1, <2>2 DEF Verdicts
<1>3. ASSUME NEW a \in DOMAIN attempts, Answer(a) PROVE Verdicts'
  <2> DEFINE r == attempts[a]
  <2>1. PICK stage \in Stages, job \in Jobs, polls \in 0..MaxPolls, paid \in BOOLEAN,
             unknown \in BOOLEAN :
          /\ Changed(a, stage, job, polls, paid, unknown)
          /\ Outcome(r, stage, job, polls, paid, unknown)
          /\ page' = "thankYou" => page = "thankYou" \/ stage = "succeeded"
    BY <1>3, Answers
  <2>2. /\ DOMAIN attempts' = DOMAIN attempts
        /\ attempts'[a] = Become(r, stage, job, polls, paid, unknown)
        /\ \A b \in DOMAIN attempts : b # a => attempts'[b] = attempts[b]
    BY <1>0, <2>1, ChangedType
  <2>3. r \in Attempt /\ Sound(r)
    BY <1>0 DEF Verdicts
  <2>4. /\ Sound(Become(r, stage, job, polls, paid, unknown))
        /\ r.stage = "succeeded" => stage = "succeeded"
    BY <2>1, <2>3, SoundOutcome
  <2>5. \A b \in DOMAIN attempts' : Sound(attempts'[b])
    BY <2>2, <2>4 DEF Verdicts
  <2>6. attempts'[a].stage = stage
    BY <2>2 DEF Become
  <2>7. page' = "thankYou" => \E b \in DOMAIN attempts' : attempts'[b].stage = "succeeded"
    BY <2>1, <2>2, <2>4, <2>6 DEF Verdicts
  <2> QED BY <2>5, <2>7 DEF Verdicts, Sound
<1> QED BY <1>1, <1>2, <1>3, Effects

\* The verdicts hold of every behaviour.
LEMMA VerdictsCorrect == Spec => []Verdicts
<1>1. Init => Verdicts
  BY DEF Init, Verdicts
<1> QED BY <1>1, VerdictsStep, TypeCorrect, PTL DEF Spec

\* Only a charge, a finished job or exhausted polls lead to the thank-you page.
THEOREM ThankYouIsTrueCorrect == Spec => []ThankYouIsTrue
<1>1. Verdicts => ThankYouIsTrue
  BY DEF Verdicts, Sound, ThankYouIsTrue
<1> QED BY <1>1, VerdictsCorrect, PTL

\* A reported failure bought nothing, unless the answer was lost.
THEOREM FailureIsTrueCorrect == Spec => []FailureIsTrue
<1>1. Verdicts => FailureIsTrue
  BY DEF Verdicts, Sound, FailureIsTrue
<1> QED BY <1>1, VerdictsCorrect, PTL

-----------------------------------------------------------------------------
(* OneAttemptPerClick.                                                     *)

\* The button's last click has been paid for.
Used ==
  /\ button.click # 0
  /\ \E a \in DOMAIN attempts :
       attempts[a].by = "click" /\ attempts[a].click = button.click

\* The effect's dependencies say so: they are those it ran with, as long as the form has no
\* errors, since a direct debit once confirmed stays so while its button is mounted.
Handled ==
  /\ button.ran # <<>> /\ button.ran[1] = button.click /\ button.ran[2] = FALSE
  /\ HasButton =>
       button.ran[3] = (payment = "DirectDebit" /\ directDebit.phase = "confirmation")
  /\ HasButton /\ payment = "DirectDebit" => button.ran[3]

ClicksInv ==
  /\ button.click <= clicks
  /\ \A a \in DOMAIN attempts : attempts[a].by = "click" => attempts[a].click \in 1..clicks
  /\ Used => Handled
  /\ OneAttemptPerClick

\* The button is the same one, under the same method.
ButtonKept ==
  /\ button' = button
  /\ HasButton' => HasButton /\ payment' = payment
  /\ directDebit.phase = "confirmation" => directDebit'.phase = "confirmation"

\* What leaves the attempts alone keeps the button, mounts another or clicks it.
LEMMA IdleButton ==
  ASSUME TypeOK, Idle
  PROVE  /\ attempts' = attempts /\ clicks' \in {clicks, clicks + 1}
         /\ \/ ButtonKept
            \/ button' = Mounted
            \/ clicks' = clicks + 1 /\ button' = [button EXCEPT !.click = clicks']
<1> DEFINE Goal == /\ attempts' = attempts /\ clicks' \in {clicks, clicks + 1}
                   /\ \/ ButtonKept
                      \/ button' = Mounted
                      \/ clicks' = clicks + 1 /\ button' = [button EXCEPT !.click = clicks']
<1>0. directDebit \in Accounts
  BY TypeParts DEF SlicesType
<1>1. ASSUME Continue \/ \E m \in PaymentMethods : SelectMethod(m) PROVE Goal
  BY <1>1 DEF Continue, SelectMethod, Shown
<1>2. ASSUME ClickPay \/ ClickDirectDebit PROVE Goal
  BY <1>2 DEF ClickPay, ClickDirectDebit
<1>3. ASSUME ClickWallet PROVE Goal
  BY <1>3 DEF ClickWallet, ButtonKept, HasButton
<1>4. ASSUME \/ \E t \in ContributionTypes : ChooseType(t)
             \/ \E v \in BOOLEAN : EditDetails(v)
             \/ \E c \in BOOLEAN : EditCard(c)
             \/ SolveRecaptcha \/ ExpireRecaptcha \/ CancelWallet
             \/ \E t \in setups : SetupIntent(t)
             \/ UNCHANGED vars
      PROVE  Goal
  BY <1>4 DEF ChooseType, EditDetails, EditCard, SolveRecaptcha, ExpireRecaptcha, CancelWallet,
     SetupIntent, vars, slices, ButtonKept, HasButton
<1>5. ASSUME Change PROVE Goal
  <2>1. directDebit'.phase = directDebit.phase
    BY <1>0, <1>5 DEF Change, Accounts
  <2> QED BY <1>5, <2>1 DEF Change, ButtonKept, HasButton
<1>6. ASSUME NEW account \in {"none", "good", "bad"}, EditAccount(account) PROVE Goal
  <2>1. directDebit'.phase = directDebit.phase
    BY <1>0, <1>6 DEF EditAccount, Accounts
  <2> QED BY <1>6, <2>1 DEF EditAccount, ButtonKept, HasButton
<1>7. ASSUME NEW c \in checks, AccountChecked(c) PROVE Goal
  <2>1. directDebit.phase = "confirmation" => directDebit'.phase = "confirmation"
    BY <1>0, <1>7 DEF AccountChecked, Accounts
  <2> QED BY <1>7, <2>1 DEF AccountChecked, ButtonKept, HasButton
<1> QED BY <1>1, <1>2, <1>3, <1>4, <1>5, <1>6, <1>7 DEF Idle

\* A kept button is as used and as handled as before, if the attempts by clicks are the same.
LEMMA KeptButton ==
  ASSUME TypeOK, Used => Handled, ButtonKept, Used' => Used PROVE Used' => Handled'
BY DEF Handled, ButtonKept

\* Every step keeps it.
LEMMA ClicksStep == TypeOK /\ ClicksInv /\ [Next]_vars => ClicksInv'
<1> SUFFICES ASSUME TypeOK, ClicksInv, [Next]_vars PROVE ClicksInv'
  OBVIOUS
<1> DEFINE n == Len(attempts) + 1
<1>0. /\ attempts \in Seq(Attempt) /\ Len(attempts) \in Nat
      /\ clicks \in Nat /\ button \in Buttons /\ button.click \in Nat
  <2>1. button \in Buttons /\ clicks \in 0..MaxClicks /\ attempts \in Seq(Attempt)
    BY TypeParts DEF VisitType
  <2> QED BY <2>1, BoundsAssumption DEF Buttons
<1>1. CASE Idle
  <2>1. attempts' = attempts /\ clicks' \in Nat /\ clicks' >= clicks
    BY <1>0, <1>1, IdleButton
  <2>2. /\ \A a \in DOMAIN attempts' :
             attempts'[a].by = "click" => attempts'[a].click \in 1..clicks'
        /\ OneAttemptPerClick'
    BY <1>0, <2>1 DEF ClicksInv, OneAttemptPerClick
  <2>3. CASE ButtonKept
    <3>1. Used' = Used
      BY <2>1, <2>3 DEF Used, ButtonKept
    <3>2. button'.click <= clicks'
      BY <1>0, <2>1, <2>3 DEF ButtonKept, ClicksInv
    <3> QED BY <2>2, <2>3, <3>1, <3>2, KeptButton DEF ClicksInv
  <2>4. CASE button' = Mounted
    BY <1>0, <2>1, <2>2, <2>4 DEF Mounted, ClicksInv, Used
  <2>5. CASE clicks' = clicks + 1 /\ button' = [button EXCEPT !.click = clicks']
    <3>1. button'.click = clicks + 1
      BY <1>0, <2>5 DEF Buttons
    <3>2. ~Used'
      BY <1>0, <2>1, <3>1 DEF Used, ClicksInv
    <3> QED BY <1>0, <2>1, <2>2, <2>5, <3>1, <3>2 DEF ClicksInv
  <2> QED BY <1>1, <2>3, <2>4, <2>5, IdleButton
<1>2. ASSUME NEW r \in Attempt, r.by # "click", attempts' = Append(attempts, r), ButtonKept,
             clicks' = clicks
      PROVE  ClicksInv'
  <2>1. /\ DOMAIN attempts' = DOMAIN attempts \cup {n} /\ attempts'[n] = r
        /\ \A b \in DOMAIN attempts : b # n /\ attempts'[b] = attempts[b]
    BY <1>0, <1>2
  <2>2. Used' => Used
    BY <1>2, <2>1 DEF Used, ButtonKept
  <2>3. OneAttemptPerClick'
    BY <1>2, <2>1 DEF ClicksInv, OneAttemptPerClick
  <2>4. Used' => Handled'
    BY <1>2, <2>2, KeptButton DEF ClicksInv
  <2> QED BY <1>2, <2>1, <2>3, <2>4 DEF ClicksInv, ButtonKept
<1>3. ASSUME attempts' = attempts, ButtonKept, clicks' = clicks PROVE ClicksInv'
  <2>1. Used' => Used
    BY <1>3 DEF Used, ButtonKept
  <2>2. Used' => Handled'
    BY <1>3, <2>1, KeptButton DEF ClicksInv
  <2> QED BY <1>3, <2>2 DEF ClicksInv, ButtonKept, OneAttemptPerClick
<1>4. CASE SecretEffect
  <2>1. /\ button'.click = button.click /\ button'.ran = button.ran
        /\ clicks' = clicks /\ HasButton' = HasButton
        /\ UNCHANGED <<payment, directDebit>>
    BY <1>0, <1>4 DEF SecretEffect, HasButton, slices, Buttons
  <2>2. \/ attempts' = attempts
        \/ \E r \in Attempt : r.by = "secret" /\ attempts' = Append(attempts, r)
    <3>1. Fresh(Begun("secret", "Stripe", "confirmCardSetup"))
      BY Beginning DEF PaymentMethods
    <3> QED BY <1>4, <3>1 DEF SecretEffect, Begin, Begun, Fresh
  <2> DEFINE Kept == /\ Used' => Used
                     /\ OneAttemptPerClick'
                     /\ \A a \in DOMAIN attempts' :
                          attempts'[a].by = "click" => attempts'[a].click \in 1..clicks'
  <2>3. Kept
    <3>1. CASE attempts' = attempts
      BY <2>1, <3>1 DEF Used, OneAttemptPerClick, ClicksInv
    <3>2. ASSUME NEW r \in Attempt, r.by = "secret", attempts' = Append(attempts, r)
          PROVE  Kept
      <4>1. /\ DOMAIN attempts' = DOMAIN attempts \cup {n} /\ attempts'[n] = r
            /\ \A b \in DOMAIN attempts : b # n /\ attempts'[b] = attempts[b]
        BY <1>0, <3>2
      <4> QED BY <2>1, <3>2, <4>1 DEF Used, OneAttemptPerClick, ClicksInv
    <3> QED BY <2>2, <3>1, <3>2
  <2>4. Used' => Handled'
    BY <2>1, <2>3 DEF ClicksInv, Handled
  <2> QED BY <2>1, <2>3, <2>4 DEF ClicksInv
<1>5. ASSUME NEW v \in BOOLEAN, AuthoriseWallet(v) PROVE ClicksInv'
  <2>1. ButtonKept /\ clicks' = clicks
    BY <1>5 DEF AuthoriseWallet, ButtonKept, HasButton
  <2>2. \/ attempts' = attempts
        \/ \E r \in Attempt : r.by # "click" /\ attempts' = Append(attempts, r)
    <3>1. /\ Fresh(Begun("wallet", "Wallet", "walletSetup"))
          /\ BeginAuthorised("wallet", "Wallet") =>
               \E stage \in {"refused", "posting", "charging"} :
                 /\ Fresh(Begun("wallet", "Wallet", stage))
                 /\ Begin("wallet", "Wallet", stage)
      BY Beginning
    <3>2. \A stage : Begun("wallet", "Wallet", stage).by # "click"
      BY DEF Begun
    <3> QED BY <1>5, <3>1, <3>2 DEF AuthoriseWallet, Begin, Fresh
  <2> QED BY <1>2, <1>3, <2>1, <2>2
<1>6. CASE ClickPayPal
  <2>1. /\ clicks' = clicks + 1 /\ button' = button
        /\ ButtonKept
    BY <1>6 DEF ClickPayPal, validateForm, DirectDebitValidated, ButtonKept, HasButton
  <2>2. CASE attempts' = attempts
    <3>1. Used' => Used
      BY <2>1, <2>2 DEF Used
    <3>2. Used' => Handled'
      BY <2>1, <3>1, KeptButton DEF ClicksInv
    <3> QED BY <1>0, <2>1, <2>2, <3>2 DEF ClicksInv, OneAttemptPerClick
  <2>3. ASSUME NEW r \in Attempt, r.click = clicks + 1, attempts' = Append(attempts, r)
        PROVE  ClicksInv'
    <3>1. /\ DOMAIN attempts' = DOMAIN attempts \cup {n} /\ attempts'[n] = r
          /\ \A b \in DOMAIN attempts : b # n /\ attempts'[b] = attempts[b]
      BY <1>0, <2>3
    <3>2. \A b \in DOMAIN attempts : attempts[b].by = "click" => attempts[b].click # clicks + 1
      BY <1>0 DEF ClicksInv
    <3>3. OneAttemptPerClick'
      BY <2>3, <3>1, <3>2 DEF ClicksInv, OneAttemptPerClick
    <3>4. Used' => Used
      BY <1>0, <2>1, <2>3, <3>1 DEF Used, ClicksInv
    <3>5. Used' => Handled'
      BY <2>1, <3>4, KeptButton DEF ClicksInv
    <3>6. \A a \in DOMAIN attempts' :
            attempts'[a].by = "click" => attempts'[a].click \in 1..clicks'
      BY <1>0, <2>1, <2>3, <3>1 DEF ClicksInv
    <3> QED BY <1>0, <2>1, <3>3, <3>5, <3>6 DEF ClicksInv
  <2>4. \/ attempts' = attempts
        \/ \E r \in Attempt : r.click = clicks + 1 /\ attempts' = Append(attempts, r)
    <3> DEFINE b == Begun("click", "PayPal", "window")
    <3>1. b \in Attempt
      BY Beginning DEF PaymentMethods, Fresh
    <3>2. clicks' \in 0..MaxClicks
      BY <1>6, BoundsAssumption DEF ClickPayPal, TypeOK
    <3>3. [b EXCEPT !.click = clicks'] \in Attempt /\ [b EXCEPT !.click = clicks'].click = clicks'
      <4> HIDE DEF b
      <4> QED BY <3>1, <3>2 DEF Attempt
    <3> QED BY <1>6, <2>1, <3>3 DEF ClickPayPal
  <2> QED BY <2>2, <2>3, <2>4
<1>7. CASE ValidationEffect
  <2>0. /\ HasButton /\ button.ran # ValidationDeps
        /\ UNCHANGED <<page, type, payment, directDebit, clicks>>
    BY <1>7 DEF ValidationEffect, ValidationDue
  <2>1. contributionsFormHasErrors \in BOOLEAN
    BY ErrorsType, TypeParts
  <2>2. HasButton'
    BY <2>0 DEF HasButton
  <2> DEFINE ready == payment = "DirectDebit" /\ directDebit.phase = "confirmation"
  <2>3. CASE attempts' = attempts /\ button'.click = 0
    BY <1>0, <2>0, <2>3 DEF ClicksInv, Used, OneAttemptPerClick
  <2>4. ~contributionsFormHasErrors => ~Used
    <3> SUFFICES ASSUME Used, ~contributionsFormHasErrors PROVE FALSE
      OBVIOUS
    <3>1. Handled
      BY DEF ClicksInv
    <3>2. button.ran \in (0..MaxClicks) \X BOOLEAN \X BOOLEAN
      BY <1>0, <3>1 DEF Handled, Buttons
    <3>3. button.ran = <<button.ran[1], button.ran[2], button.ran[3]>>
      BY <3>2
    <3>4. button.ran[3] = ready
      BY <2>0, <3>1 DEF Handled
    <3>5. ValidationDeps = <<button.click, FALSE, ready>>
      BY <2>1 DEF ValidationDeps
    <3> QED BY <2>0, <3>1, <3>3, <3>4, <3>5 DEF Handled
  <2>5. CASE contributionsFormHasErrors
    <3>1. attempts' = attempts /\ button' = [button EXCEPT !.click = 0,
                                                !.ran = <<0, TRUE, ValidationDeps[3]>>]
      BY <1>7, <2>5 DEF ValidationEffect
    <3>2. button'.click = 0
      BY <1>0, <3>1 DEF Buttons
    <3> QED BY <2>3, <3>1, <3>2
  <2>6. CASE /\ ~contributionsFormHasErrors
             /\ attempts' = attempts
             /\ button' = [button EXCEPT !.ran = ValidationDeps]
    <3>1. button'.click = button.click
      BY <1>0, <2>6 DEF Buttons
    <3>2. ~Used'
      BY <2>4, <2>6, <3>1 DEF Used
    <3> QED BY <2>0, <2>6, <3>1, <3>2 DEF ClicksInv, OneAttemptPerClick
  <2>7. CASE /\ ~contributionsFormHasErrors
             /\ button.click # 0 /\ (payment = "DirectDebit" => ready)
             /\ \E w \in BOOLEAN :
                  button' = [button EXCEPT !.ran = ValidationDeps, !.awaiting = w]
             /\ paymentHandler
    <3>1. button'.click = button.click /\ button'.ran = ValidationDeps
      BY <1>0, <2>7 DEF Buttons
    <3>2. Handled'
      <4>1. /\ button'.ran[1] = button.click /\ button'.ran[2] = contributionsFormHasErrors
            /\ button'.ran[3] = ready
        BY <3>1 DEF ValidationDeps
      <4>2. button'.ran # <<>>
        BY <3>1 DEF ValidationDeps
      <4> QED BY <2>0, <2>1, <2>7, <3>1, <4>1, <4>2 DEF Handled
    <3>3. CASE attempts' = attempts
      BY <2>0, <3>1, <3>2, <3>3 DEF ClicksInv, OneAttemptPerClick
    <3>4. ASSUME NEW r \in Attempt, r.click = button.click, attempts' = Append(attempts, r)
          PROVE  ClicksInv'
      <4>1. /\ DOMAIN attempts' = DOMAIN attempts \cup {n} /\ attempts'[n] = r
            /\ \A b \in DOMAIN attempts : b # n /\ attempts'[b] = attempts[b]
        BY <1>0, <3>4
      <4>2. \A b \in DOMAIN attempts :
              attempts[b].by = "click" => attempts[b].click # button.click
        BY <2>4, <2>7 DEF Used
      <4>3. OneAttemptPerClick'
        BY <3>4, <4>1, <4>2 DEF ClicksInv, OneAttemptPerClick
      <4>4. button.click \in 1..clicks
        BY <1>0, <2>7 DEF ClicksInv
      <4> QED BY <2>0, <3>1, <3>2, <3>4, <4>1, <4>3, <4>4 DEF ClicksInv
    <3>5. \/ attempts' = attempts
          \/ \E r \in Attempt : r.click = button.click /\ attempts' = Append(attempts, r)
      <4>1. \A m \in PaymentMethods, stage \in {"createPaymentMethod", "confirmCardSetup",
                                                "createPayPal"} :
              Begun("click", m, stage) \in Attempt
        <5> TAKE m \in PaymentMethods, stage \in {"createPaymentMethod", "confirmCardSetup",
                                                  "createPayPal"}
        <5>1. stage \in Stages
          BY DEF Stages
        <5> QED BY <5>1, TypeParts, BegunType
      <4>2. \A m \in PaymentMethods : BeginAuthorised("click", m) =>
              \E stage \in {"refused", "posting", "charging"} :
                Begun("click", m, stage) \in Attempt /\ Begin("click", m, stage)
        <5> TAKE m \in PaymentMethods
        <5>1. BeginAuthorised("click", m) =>
                \E stage \in {"refused", "posting", "charging"} :
                  Fresh(Begun("click", m, stage)) /\ Begin("click", m, stage)
          BY Beginning
        <5> QED BY <5>1 DEF Fresh
      <4>3. \A m, stage : Begun("click", m, stage).click = button.click
        BY DEF Begun
      <4> QED BY <2>7, <4>1, <4>2, <4>3 DEF paymentHandler, Begin, PaymentMethods
    <3> QED BY <3>3, <3>4, <3>5
  <2>8. CASE ~contributionsFormHasErrors
    <3>1. ValidationDeps[3] = ready
      BY DEF ValidationDeps
    <3>2. CASE button.click = 0 \/ (payment = "DirectDebit" /\ ~ready)
      BY <1>7, <2>6, <2>8, <3>1, <3>2 DEF ValidationEffect
    <3>3. CASE ~(button.click = 0 \/ (payment = "DirectDebit" /\ ~ready))
      <4>1. /\ button' = [button EXCEPT
                            !.ran = ValidationDeps,
                            !.awaiting = button.awaiting
                              \/ (payment = "Stripe" /\ type # "ONE_OFF" /\ stripe.secret = 0)]
            /\ paymentHandler
        BY <1>7, <2>8, <3>1, <3>3 DEF ValidationEffect
      <4>2. (button.awaiting
               \/ (payment = "Stripe" /\ type # "ONE_OFF" /\ stripe.secret = 0)) \in BOOLEAN
        BY <1>0 DEF Buttons
      <4> QED BY <2>7, <2>8, <3>3, <4>1, <4>2
    <3> QED BY <3>2, <3>3
  <2> QED BY <2>5, <2>8
<1>8. ASSUME NEW a \in DOMAIN attempts, Answer(a) PROVE ClicksInv'
  <2>1. PICK stage \in Stages, job \in Jobs, polls \in 0..MaxPolls, paid \in BOOLEAN,
             unknown \in BOOLEAN : Changed(a, stage, job, polls, paid, unknown)
    BY <1>8, Answers
  <2>2. /\ DOMAIN attempts' = DOMAIN attempts
        /\ attempts'[a] = Become(attempts[a], stage, job, polls, paid, unknown)
        /\ \A b \in DOMAIN attempts : b # a => attempts'[b] = attempts[b]
    BY <1>0, <2>1, ChangedType
  <2>3. \A b \in DOMAIN attempts :
          attempts'[b].by = attempts[b].by /\ attempts'[b].click = attempts[b].click
    BY <2>2 DEF Become
  <2>4. UNCHANGED Rest
    BY <1>8 DEF Answer, Authorises, WindowCloses, OneClickCheckout, PayPalCreated, Posted,
       JobEnds, Poll, Charged, Handle3DS
  <2>5. page' \in {page, "thankYou", "left"}
    BY <1>8 DEF Answer, Authorises, NotAuthorised, WindowCloses, OneClickCheckout,
       PayPalCreated, Posted, JobEnds, Poll, Charged, Handle3DS, NoVerdict, Succeeded, Failed
  <2>6. ButtonKept /\ clicks' = clicks
    BY <2>4, <2>5 DEF Rest, ButtonKept, HasButton
  <2>7. Used' => Used
    BY <2>2, <2>3, <2>6 DEF Used, ButtonKept
  <2>8. Used' => Handled'
    BY <2>6, <2>7, KeptButton DEF ClicksInv
  <2>9. OneAttemptPerClick'
    BY <2>2, <2>3 DEF ClicksInv, OneAttemptPerClick
  <2> QED BY <2>2, <2>3, <2>6, <2>8, <2>9 DEF ClicksInv, ButtonKept
<1> QED BY <1>1, <1>4, <1>5, <1>6, <1>7, <1>8 DEF Next, Customer, Idle

\* The dependencies of useValidation's effect pay once for a click.
THEOREM OneAttemptPerClickCorrect == Spec => []OneAttemptPerClick
<1>1. Init => ClicksInv
  BY DEF Init, Mounted, ClicksInv, Used, OneAttemptPerClick
<1>2. ClicksInv => OneAttemptPerClick
  BY DEF ClicksInv
<1> QED BY <1>1, <1>2, ClicksStep, TypeCorrect, PTL DEF Spec

-----------------------------------------------------------------------------
(* PaidOnceInOneOffVisit and SecondPurchaseOnlyAfterLostPost.              *)

\* The visits where only the overlay and the effects guard against a second payment.
OneOffVisit == offer.types = {"ONE_OFF"}
BankVisit ==
  /\ offer.types = {"MONTHLY"} /\ ~offer.wallet
  /\ offer.switches["MONTHLY"] \subseteq {"Sepa", "ExistingCard"}

\* What may be selected there.
Selection ==
  \/ OneOffVisit /\ type = "ONE_OFF" /\ payment \notin {"DirectDebit", "Sepa"}
  \/ BankVisit /\ type = "MONTHLY" /\ payment \in {"None", "Sepa", "ExistingCard"}

\* An attempt that may still cost the customer, or has.
Busy(r) == r.stage \notin {"failed", "refused", "abandoned"}

\* A click that the effect has not seen.
NewClick ==
  /\ button.click # 0
  /\ ~(/\ button.ran # <<>> /\ button.ran[1] = button.click
       /\ ~button.ran[2] /\ ~button.ran[3])

\* A busy attempt is the last one, under the overlay and with the wallet's sheet closed.
Overlay ==
  \A a \in DOMAIN attempts :
    Busy(attempts[a]) => a = Len(attempts) /\ form.isWaiting /\ wallet.sheet # "open"

\* A click is seen before anything else happens.
Seen ==
  NewClick =>
    /\ HasButton /\ wallet.sheet # "open"
    /\ \A a \in DOMAIN attempts : ~Busy(attempts[a])

\* Errors drop the click.
Dropped == button.ran # <<>> /\ button.ran[2] => button.ran[1] = 0

ExclusiveInv ==
  OneOffVisit \/ BankVisit => Selection /\ Overlay /\ Seen /\ Dropped

\* A new click makes the effect due.
LEMMA NewClickIsDue ==
  ASSUME TypeOK, ExclusiveInv, OneOffVisit \/ BankVisit, ~EffectDue PROVE ~NewClick
<1> SUFFICES ASSUME NewClick PROVE FALSE
  OBVIOUS
<1>1. button \in Buttons /\ contributionsFormHasErrors \in BOOLEAN
  BY TypeParts, ErrorsType
<1>2. HasButton /\ payment # "DirectDebit"
  BY DEF ExclusiveInv, Seen, Selection
<1>3. button.ran = <<button.click, contributionsFormHasErrors, FALSE>>
  BY <1>2 DEF EffectDue, ValidationDue, ValidationDeps
<1>4. /\ button.ran[1] = button.click /\ button.ran[2] = contributionsFormHasErrors
      /\ button.ran[3] = FALSE /\ button.ran # <<>>
  BY <1>3
<1> QED BY <1>1, <1>4 DEF NewClick, ExclusiveInv, Dropped

\* The customer's other actions: none is taken while an effect is due, only a wallet opens the
\* sheet, and only a bank's button shows the overlay.
LEMMA IdleOverlay ==
  ASSUME TypeOK, Idle, ~UNCHANGED vars
  PROVE  /\ ~EffectDue /\ offer' = offer
         /\ form' = form \/ payment = "DirectDebit"
         /\ wallet'.sheet \in {wallet.sheet, "closed"} \/ ~form.isWaiting
         /\ \/ button' = button
            \/ button' = Mounted
            \/ /\ button' = [button EXCEPT !.click = clicks'] /\ clicks' = clicks + 1
               /\ HasButton' /\ ~form.isWaiting /\ wallet'.sheet # "open"
<1>0. wallet \in Wallets
  BY TypeParts DEF SlicesType
<1>1. WalletValidated.sheet = wallet.sheet
  BY <1>0 DEF WalletValidated, Wallets
<1>2. ~EffectDue /\ offer' = offer
  BY DEF Idle, ChooseType, Continue, SelectMethod, Change, EditDetails, EditCard,
     EditAccount, SolveRecaptcha, ExpireRecaptcha, ClickPay, ClickDirectDebit, ClickWallet,
     CancelWallet, SetupIntent, AccountChecked, Free
<1>3. form' = form \/ payment = "DirectDebit"
  BY DEF Idle, ChooseType, Continue, SelectMethod, Change, EditDetails, EditCard, slices,
     EditAccount, SolveRecaptcha, ExpireRecaptcha, ClickPay, ClickDirectDebit, ClickWallet,
     CancelWallet, SetupIntent, AccountChecked
<1>4. wallet'.sheet \in {wallet.sheet, "closed"} \/ ~form.isWaiting
  <2>1. CASE Continue \/ (\E m \in PaymentMethods : SelectMethod(m)) \/ ClickPay
               \/ ClickDirectDebit \/ ClickWallet \/ (\E t \in ContributionTypes : ChooseType(t))
               \/ Change \/ (\E v \in BOOLEAN : EditDetails(v))
    BY <2>1 DEF Continue, SelectMethod, ClickPay, ClickDirectDebit, ClickWallet, ChooseType,
       Change, EditDetails, Free
  <2>2. CASE CancelWallet
    BY <1>0, <2>2 DEF CancelWallet, Wallets
  <2>3. CASE UNCHANGED wallet
    BY <2>3
  <2> QED BY <2>1, <2>2, <2>3 DEF Idle, EditCard, EditAccount, SolveRecaptcha,
       ExpireRecaptcha, SetupIntent, AccountChecked
<1>5. \/ button' = button
      \/ button' = Mounted
      \/ /\ button' = [button EXCEPT !.click = clicks'] /\ clicks' = clicks + 1
         /\ HasButton' /\ ~form.isWaiting /\ wallet'.sheet # "open"
  <2>1. CASE ClickPay \/ ClickDirectDebit
    BY <1>1, <2>1 DEF ClickPay, ClickDirectDebit, validateForm, Free, HasButton
  <2>2. CASE Continue \/ \E m \in PaymentMethods : SelectMethod(m)
    BY <2>2 DEF Continue, SelectMethod, Shown
  <2> QED BY <2>1, <2>2 DEF Idle, ChooseType, Change, EditDetails, EditCard, ClickWallet,
       CancelWallet, EditAccount, SolveRecaptcha, ExpireRecaptcha, SetupIntent, AccountChecked
<1> QED BY <1>2, <1>3, <1>4, <1>5

\* The selection stays among the methods of the visit.
LEMMA SelectionStep ==
  ASSUME TypeOK, Selection, [Next]_vars PROVE Selection'
<1>1. UNCHANGED offer
  BY DEF Next, Customer, ChooseType, Continue, SelectMethod, Change, EditDetails, EditCard,
     EditAccount, SolveRecaptcha, ExpireRecaptcha, ClickPay, ClickDirectDebit, ClickPayPal,
     ClickWallet, AuthoriseWallet, CancelWallet, ValidationEffect, SecretEffect, SetupIntent,
     AccountChecked, Answer, Authorises, WindowCloses, OneClickCheckout, PayPalCreated, Posted,
     JobEnds, Poll, Charged, Handle3DS, Rest, vars
<1>2. CASE UNCHANGED <<type, payment>>
  BY <1>1, <1>2 DEF Selection, OneOffVisit, BankVisit
<1>3. CASE \E t \in ContributionTypes : ChooseType(t)
  BY <1>3 DEF ChooseType, Selection, OneOffVisit, BankVisit
<1>4. ASSUME NEW m \in getValidPaymentMethods(type), type' = type, payment' = m
      PROVE  Selection'
  BY <1>1, <1>4 DEF Selection, OneOffVisit, BankVisit, getValidPaymentMethods, getPaymentMethods
<1>5. CASE Continue
  <2> DEFINE shown == getValidPaymentMethods(type) \ {"ExistingCard"}
  <2>1. CASE Cardinality(shown) = 1
    <3>1. shown # {}
      <4> SUFFICES ASSUME shown = {} PROVE FALSE
        OBVIOUS
      <4> QED BY <2>1, FS_EmptySet
    <3>2. (CHOOSE m \in shown : TRUE) \in shown
      BY <3>1
    <3>3. payment' \in getValidPaymentMethods(type) /\ type' = type
      BY <1>5, <2>1, <3>2 DEF Continue, Shown
    <3> QED BY <1>4, <3>3
  <2>2. CASE Cardinality(shown) # 1
    BY <1>2, <1>5, <2>2 DEF Continue, Shown
  <2> QED BY <2>1, <2>2
<1>6. CASE \E m \in PaymentMethods : SelectMethod(m)
  BY <1>4, <1>6 DEF SelectMethod, Shown
<1>7. CASE ClickWallet \/ CancelWallet \/ \E v \in BOOLEAN : AuthoriseWallet(v)
  BY <1>1, <1>7 DEF ClickWallet, CancelWallet, AuthoriseWallet, Selection, OneOffVisit, BankVisit
<1>8. CASE \E a \in DOMAIN attempts : Answer(a)
  BY <1>2, <1>8 DEF Answer, Authorises, WindowCloses, OneClickCheckout, PayPalCreated, Posted,
     JobEnds, Poll, Charged, Handle3DS, Rest
<1> QED BY <1>2, <1>3, <1>5, <1>6, <1>7, <1>8 DEF Next, Customer, Change, EditDetails, EditCard,
     EditAccount, SolveRecaptcha, ExpireRecaptcha, ClickPay, ClickDirectDebit, ClickPayPal,
     ValidationEffect, SecretEffect, SetupIntent, AccountChecked, vars

\* An attempt begun when none is busy, under the overlay, is the last.
LEMMA BegunLast ==
  ASSUME attempts \in Seq(Attempt), \A a \in DOMAIN attempts : ~Busy(attempts[a]),
         form'.isWaiting, wallet'.sheet # "open",
         attempts' = attempts \/ \E r \in Attempt : attempts' = Append(attempts, r)
  PROVE  Overlay'
<1>1. CASE attempts' = attempts
  BY <1>1 DEF Overlay, Busy
<1>2. ASSUME NEW r \in Attempt, attempts' = Append(attempts, r) PROVE Overlay'
  <2>1. /\ Len(attempts') = Len(attempts) + 1 /\ DOMAIN attempts = 1..Len(attempts)
        /\ DOMAIN attempts' = DOMAIN attempts \cup {Len(attempts')}
        /\ \A b \in DOMAIN attempts : attempts'[b] = attempts[b]
    BY <1>2
  <2> QED BY <2>1 DEF Overlay, Busy
<1> QED BY <1>1, <1>2

\* An answer makes nothing busy, and takes the overlay away only as it fails its attempt.
LEMMA AnswerOverlay ==
  ASSUME TypeOK, NEW a \in DOMAIN attempts, Answer(a)
  PROVE  /\ Len(attempts') = Len(attempts) /\ DOMAIN attempts' = DOMAIN attempts
         /\ \A b \in DOMAIN attempts : Busy(attempts'[b]) => Busy(attempts[b])
         /\ wallet'.sheet = wallet.sheet /\ UNCHANGED <<button, payment, type, offer>>
         /\ \/ form'.isWaiting = form.isWaiting
            \/ form'.isWaiting = TRUE
            \/ Busy(attempts[a]) /\ ~Busy(attempts'[a])
         /\ page' = page \/ ~EffectDue
<1>0. /\ attempts \in Seq(Attempt) /\ form \in Forms /\ wallet \in Wallets
      /\ attempts[a] \in Attempt
  BY TypeParts DEF SlicesType
<1>1. PICK stage \in Stages, job \in Jobs, polls \in 0..MaxPolls, paid \in BOOLEAN,
           unknown \in BOOLEAN :
        /\ Changed(a, stage, job, polls, paid, unknown)
        /\ Outcome(attempts[a], stage, job, polls, paid, unknown)
  BY Answers
<1>2. /\ attempts' \in Seq(Attempt) /\ DOMAIN attempts' = DOMAIN attempts
      /\ attempts'[a].stage = stage
      /\ \A b \in DOMAIN attempts : b # a => attempts'[b] = attempts[b]
  <2>1. Become(attempts[a], stage, job, polls, paid, unknown).stage = stage
    BY DEF Become
  <2> QED BY <1>0, <1>1, <2>1, ChangedType
<1>3. Len(attempts') = Len(attempts)
  BY <1>0, <1>2
<1>4. Busy(attempts'[a]) => Busy(attempts[a])
  BY <1>1, <1>2 DEF Busy, Outcome, Awaited
<1>5. \A b \in DOMAIN attempts : Busy(attempts'[b]) => Busy(attempts[b])
  BY <1>2, <1>4 DEF Busy
<1>6. wallet'.sheet = wallet.sheet /\ UNCHANGED <<button, payment, type, offer>>
  <2>1. \A m : Failed(m) => wallet'.sheet = wallet.sheet
    BY <1>0 DEF Failed, Wallets
  <2> QED BY <2>1 DEF Answer, Authorises, NotAuthorised, WindowCloses, OneClickCheckout,
       PayPalCreated, Posted, JobEnds, Poll, Charged, Handle3DS, NoVerdict, Succeeded, Rest
<1>7. page' = page \/ ~EffectDue
  BY DEF Answer, Authorises, WindowCloses, OneClickCheckout, PayPalCreated, Posted, JobEnds,
     Poll, Charged, Handle3DS, Answering, NoVerdict
<1>8. \/ form'.isWaiting = form.isWaiting
      \/ form'.isWaiting = TRUE
      \/ attempts'[a].stage = "failed" /\ Busy(attempts[a])
  <2>1. NoVerdict \/ Succeeded => form'.isWaiting = form.isWaiting
    BY <1>0 DEF NoVerdict, Succeeded, Forms
  <2>2. To(a, "failed") => attempts'[a].stage = "failed"
    BY <1>0 DEF To, Attempt
  <2>3. \A job1 : attempts' = [attempts EXCEPT ![a].stage = "failed", ![a].unknown = TRUE,
                                              ![a].job = job1]
          => attempts'[a].stage = "failed"
    BY <1>0 DEF Attempt
  <2>4. CASE Authorises(a) \/ PayPalCreated(a) \/ Charged(a) \/ Handle3DS(a) \/ Poll(a)
    <3>1. Busy(attempts[a])
      BY <2>4 DEF Authorises, PayPalCreated, Charged, Handle3DS, Poll, Answering, Busy
    <3>2. NoVerdict \/ Succeeded \/ UNCHANGED form \/ To(a, "failed")
      BY <2>4 DEF Authorises, NotAuthorised, PayPalCreated, Charged, Handle3DS, Poll
    <3> QED BY <2>1, <2>2, <3>1, <3>2
  <2>5. CASE Posted(a)
    BY <2>1, <2>2, <2>3, <2>5 DEF Posted, Answering, Busy
  <2>6. CASE WindowCloses(a) \/ JobEnds(a)
    BY <2>1, <2>6 DEF WindowCloses, JobEnds
  <2>7. CASE OneClickCheckout(a)
    BY <1>0, <2>7 DEF OneClickCheckout, Forms
  <2> QED BY <2>4, <2>5, <2>6, <2>7 DEF Answer
<1> QED BY <1>2, <1>3, <1>5, <1>6, <1>7, <1>8 DEF Busy

\* In these visits a customer's other actions keep the exclusion.
LEMMA IdleExclusive ==
  ASSUME TypeOK, ExclusiveInv, OneOffVisit \/ BankVisit, Idle, ~UNCHANGED vars
  PROVE  Overlay' /\ Seen' /\ Dropped'
<1>0. button \in Buttons
  BY TypeParts
<1>1. payment # "DirectDebit"
  BY DEF ExclusiveInv, Selection
<1>2. /\ ~EffectDue /\ form' = form /\ attempts' = attempts
      /\ wallet'.sheet \in {wallet.sheet, "closed"} \/ ~form.isWaiting
  BY <1>1, IdleOverlay, IdleButton
<1>3. Overlay'
  BY <1>2 DEF ExclusiveInv, Overlay
<1>4. CASE button' = button
  <2>1. ~NewClick'
    BY <1>2, <1>4, NewClickIsDue DEF NewClick
  <2>2. Dropped'
    BY <1>4 DEF ExclusiveInv, Dropped
  <2> QED BY <1>3, <2>1, <2>2 DEF Seen
<1>5. CASE button' = Mounted
  BY <1>3, <1>5 DEF Mounted, Seen, NewClick, Dropped
<1>6. CASE /\ button' = [button EXCEPT !.click = clicks']
           /\ HasButton' /\ ~form.isWaiting /\ wallet'.sheet # "open"
  <2>1. button'.ran = button.ran /\ button'.click = clicks'
    BY <1>0, <1>6 DEF Buttons
  <2>2. \A a \in DOMAIN attempts : ~Busy(attempts[a])
    BY <1>6 DEF ExclusiveInv, Overlay
  <2>3. Seen'
    BY <1>2, <1>6, <2>2 DEF Seen
  <2> QED BY <1>3, <2>1, <2>3 DEF ExclusiveInv, Dropped
<1> QED BY <1>3, <1>4, <1>5, <1>6, IdleOverlay

\* The effect begins a payment only for a click, and shows the overlay with it.
LEMMA EffectExclusive ==
  ASSUME TypeOK, ExclusiveInv, OneOffVisit \/ BankVisit, ValidationEffect
  PROVE  Overlay' /\ Seen' /\ Dropped'
<1>0. button \in Buttons /\ form \in Forms /\ attempts \in Seq(Attempt)
  BY TypeParts DEF SlicesType
<1>1. /\ contributionsFormHasErrors \in BOOLEAN
      /\ ValidationDeps = <<button.click, contributionsFormHasErrors, FALSE>>
  BY ErrorsType, TypeParts DEF ExclusiveInv, Selection, ValidationDeps
<1>2. wallet' = wallet /\ payment # "DirectDebit"
  BY DEF ValidationEffect, ExclusiveInv, Selection
<1>3. CASE contributionsFormHasErrors
  <2>1. attempts' = attempts /\ form' = form
    BY <1>2, <1>3 DEF ValidationEffect
  <2>2. button'.click = 0 /\ button'.ran = <<0, TRUE, ValidationDeps[3]>>
    BY <1>0, <1>3 DEF ValidationEffect, Buttons
  <2>3. button'.ran[1] = 0
    BY <2>2
  <2> QED BY <1>2, <2>1, <2>2, <2>3 DEF ExclusiveInv, Overlay, Seen, NewClick, Dropped
<1>4. CASE ~contributionsFormHasErrors /\ button.click = 0
  <2>1. attempts' = attempts /\ form' = form /\ button' = [button EXCEPT !.ran = ValidationDeps]
    BY <1>4 DEF ValidationEffect
  <2>2. button'.click = 0 /\ button'.ran = ValidationDeps
    BY <1>0, <1>4, <2>1 DEF Buttons
  <2>3. button'.ran[1] = 0
    BY <1>1, <1>4, <2>2
  <2> QED BY <1>2, <2>1, <2>2, <2>3 DEF ExclusiveInv, Overlay, Seen, NewClick, Dropped
<1>5. CASE ~contributionsFormHasErrors /\ button.click # 0
  <2>1. NewClick
    <3> SUFFICES ASSUME ~NewClick PROVE FALSE
      OBVIOUS
    <3>1. /\ button.ran # <<>> /\ button.ran[1] = button.click
          /\ ~button.ran[2] /\ ~button.ran[3]
      BY <1>5 DEF NewClick
    <3>2. button.ran \in (0..MaxClicks) \X BOOLEAN \X BOOLEAN
      BY <1>0, <3>1 DEF Buttons
    <3>3. button.ran = <<button.ran[1], button.ran[2], button.ran[3]>>
          /\ button.ran[2] \in BOOLEAN /\ button.ran[3] \in BOOLEAN
      BY <3>2
    <3>4. button.ran = ValidationDeps
      BY <1>1, <1>5, <3>1, <3>3
    <3> QED BY <3>4 DEF ValidationEffect, ValidationDue
  <2>2. wallet.sheet # "open" /\ \A a \in DOMAIN attempts : ~Busy(attempts[a])
    BY <2>1 DEF ExclusiveInv, Seen
  <2>3. /\ form' = [form EXCEPT !.isWaiting = TRUE, !.paymentComplete = FALSE]
        /\ paymentHandler /\ button'.ran = ValidationDeps /\ button'.click = button.click
    <3>1. /\ form' = [form EXCEPT !.isWaiting = TRUE, !.paymentComplete = FALSE]
          /\ paymentHandler
          /\ button' = [button EXCEPT
                          !.ran = ValidationDeps,
                          !.awaiting = @ \/ (payment = "Stripe" /\ type # "ONE_OFF"
                                             /\ stripe.secret = 0)]
      BY <1>2, <1>5 DEF ValidationEffect
    <3> QED BY <1>0, <3>1 DEF Buttons
  <2>4. form'.isWaiting
    BY <1>0, <2>3 DEF Forms
  <2>5. attempts' = attempts \/ \E r \in Attempt : attempts' = Append(attempts, r)
    <3>1. attempts' = attempts \/ \E r : Fresh(r) /\ attempts' = Append(attempts, r)
      BY Beginnings
    <3> QED BY <3>1 DEF Fresh
  <2>6. Overlay'
    BY <1>0, <1>2, <2>2, <2>4, <2>5, BegunLast
  <2>7. button'.ran[1] = button'.click /\ ~button'.ran[2] /\ ~button'.ran[3]
        /\ button'.ran # <<>>
    BY <1>1, <1>5, <2>3
  <2> QED BY <2>6, <2>7 DEF Seen, NewClick, Dropped
<1> QED BY <1>3, <1>4, <1>5

\* The wallet authorises only while its sheet is open, when nothing is busy.
LEMMA WalletExclusive ==
  ASSUME TypeOK, ExclusiveInv, OneOffVisit \/ BankVisit, NEW v \in BOOLEAN, AuthoriseWallet(v)
  PROVE  Overlay' /\ Seen' /\ Dropped'
<1>0. form \in Forms /\ wallet \in Wallets /\ attempts \in Seq(Attempt)
  BY TypeParts DEF SlicesType
<1>1. ~NewClick /\ button' = button
  BY NewClickIsDue DEF AuthoriseWallet
<1>2. \A a \in DOMAIN attempts : ~Busy(attempts[a])
  BY DEF AuthoriseWallet, ExclusiveInv, Overlay
<1>3. wallet'.sheet = "authorised"
  BY <1>0 DEF AuthoriseWallet, Wallets
<1>4. attempts' = attempts \/ form'.isWaiting
  BY <1>0 DEF AuthoriseWallet, Forms
<1>5. attempts' = attempts \/ \E r \in Attempt : attempts' = Append(attempts, r)
  BY Beginnings DEF Fresh
<1>6. Overlay'
  <2>1. CASE attempts' = attempts
    BY <1>2, <2>1 DEF Overlay
  <2>2. CASE form'.isWaiting
    BY <1>0, <1>2, <1>3, <1>5, <2>2, BegunLast
  <2> QED BY <1>4, <2>1, <2>2
<1> QED BY <1>1, <1>6 DEF ExclusiveInv, Seen, NewClick, Dropped

\* An answer makes nothing busy.
LEMMA AnswerExclusive ==
  ASSUME TypeOK, ExclusiveInv, OneOffVisit \/ BankVisit, NEW a \in DOMAIN attempts, Answer(a)
  PROVE  Overlay' /\ Seen' /\ Dropped'
<1>1. /\ Len(attempts') = Len(attempts) /\ DOMAIN attempts' = DOMAIN attempts
      /\ \A b \in DOMAIN attempts : Busy(attempts'[b]) => Busy(attempts[b])
      /\ wallet'.sheet = wallet.sheet /\ UNCHANGED <<button, payment, type, offer>>
      /\ \/ form'.isWaiting = form.isWaiting
         \/ form'.isWaiting = TRUE
         \/ Busy(attempts[a]) /\ ~Busy(attempts'[a])
      /\ page' = page \/ ~EffectDue
  BY AnswerOverlay
<1>2. Overlay'
  <2> SUFFICES ASSUME NEW b \in DOMAIN attempts, Busy(attempts'[b])
               PROVE  b = Len(attempts') /\ form'.isWaiting /\ wallet'.sheet # "open"
    BY <1>1 DEF Overlay, Busy
  <2>1. Busy(attempts[b]) /\ b = Len(attempts) /\ form.isWaiting /\ wallet.sheet # "open"
    BY <1>1 DEF ExclusiveInv, Overlay
  <2>2. ~(Busy(attempts[a]) /\ ~Busy(attempts'[a]))
    BY <2>1 DEF ExclusiveInv, Overlay
  <2> QED BY <1>1, <2>1, <2>2
<1>3. Seen'
  <2> SUFFICES ASSUME NewClick' PROVE Seen'
    BY DEF Seen
  <2>1. NewClick
    BY <1>1 DEF NewClick
  <2>2. EffectDue
    BY <2>1, NewClickIsDue
  <2>3. HasButton /\ wallet.sheet # "open" /\ \A b \in DOMAIN attempts : ~Busy(attempts[b])
    BY <2>1 DEF ExclusiveInv, Seen
  <2>4. HasButton'
    BY <1>1, <2>2, <2>3 DEF HasButton
  <2>5. \A b \in DOMAIN attempts' : ~Busy(attempts'[b])
    BY <1>1, <2>3
  <2> QED BY <1>1, <2>3, <2>4, <2>5 DEF Seen, Busy
<1> QED BY <1>1, <1>2, <1>3 DEF ExclusiveInv, Dropped

\* Every step keeps it.
LEMMA ExclusiveStep == TypeOK /\ ExclusiveInv /\ [Next]_vars => ExclusiveInv'
<1> SUFFICES ASSUME TypeOK, ExclusiveInv, [Next]_vars, (OneOffVisit \/ BankVisit)'
             PROVE  Selection' /\ Overlay' /\ Seen' /\ Dropped'
  BY DEF ExclusiveInv
<1>1. UNCHANGED offer
  BY DEF Next, Customer, ChooseType, Continue, SelectMethod, Change, EditDetails, EditCard,
     EditAccount, SolveRecaptcha, ExpireRecaptcha, ClickPay, ClickDirectDebit, ClickPayPal,
     ClickWallet, AuthoriseWallet, CancelWallet, ValidationEffect, SecretEffect, SetupIntent,
     AccountChecked, Answer, Authorises, WindowCloses, OneClickCheckout, PayPalCreated, Posted,
     JobEnds, Poll, Charged, Handle3DS, Rest, vars
<1>2. OneOffVisit \/ BankVisit
  BY <1>1 DEF OneOffVisit, BankVisit
<1>3. Selection'
  BY <1>2, SelectionStep DEF ExclusiveInv
<1> DEFINE Goal == Overlay' /\ Seen' /\ Dropped'
<1>4. ASSUME UNCHANGED vars PROVE Goal
  <2>1. UNCHANGED <<page, type, payment, form, wallet, button, attempts>>
    BY <1>4 DEF vars, slices
  <2>2. Overlay'
    BY <1>2, <2>1 DEF ExclusiveInv, Overlay, Busy
  <2>3. Seen'
    BY <1>2, <2>1 DEF ExclusiveInv, Seen, NewClick, HasButton, Busy
  <2>4. Dropped'
    BY <1>2, <2>1 DEF ExclusiveInv, Dropped
  <2> QED BY <2>2, <2>3, <2>4
<1>5. ASSUME Idle, ~UNCHANGED vars PROVE Goal
  BY <1>2, <1>5, IdleExclusive
<1>6. ASSUME ValidationEffect PROVE Goal
  BY <1>2, <1>6, EffectExclusive
<1>7. ASSUME \E v \in BOOLEAN : AuthoriseWallet(v) PROVE Goal
  BY <1>2, <1>7, WalletExclusive
<1>8. ASSUME \E a \in DOMAIN attempts : Answer(a) PROVE Goal
  BY <1>2, <1>8, AnswerExclusive
<1>9. ~SecretEffect /\ ~ClickPayPal
  BY <1>2 DEF ExclusiveInv, Selection, SecretEffect, SecretDue, ClickPayPal
<1> QED BY <1>3, <1>4, <1>5, <1>6, <1>7, <1>8, <1>9 DEF Next, Customer, Idle

\* At most one attempt is busy, under the overlay.
LEMMA ExclusiveCorrect == Spec => []ExclusiveInv
<1>1. Init => ExclusiveInv
  <2> SUFFICES ASSUME Init, OneOffVisit \/ BankVisit
               PROVE  Selection /\ Overlay /\ Seen /\ Dropped
    BY DEF ExclusiveInv
  <2>1. Selection
    BY DEF Init, Selection, OneOffVisit, BankVisit
  <2> QED BY <2>1 DEF Init, Mounted, Overlay, Seen, NewClick, Dropped
<1> QED BY <1>1, ExclusiveStep, TypeCorrect, PTL DEF Spec

\* A charge leaves its attempt busy, and a busy attempt is the last: with one-off
\* contributions only, nobody is charged twice.
THEOREM PaidOnceInOneOffVisitCorrect == Spec => []PaidOnceInOneOffVisit
<1>1. Verdicts /\ ExclusiveInv => PaidOnceInOneOffVisit
  BY DEF Verdicts, Sound, ExclusiveInv, OneOffVisit, Overlay, Busy, PaidOnceInOneOffVisit
<1> QED BY <1>1, VerdictsCorrect, ExclusiveCorrect, PTL

\* So is a job that is under way or done, unless its answer was lost: two jobs need that.
THEOREM SecondPurchaseOnlyAfterLostPostCorrect == Spec => []SecondPurchaseOnlyAfterLostPost
<1>1. TypeOK /\ Verdicts /\ ExclusiveInv => SecondPurchaseOnlyAfterLostPost
  <2> SUFFICES ASSUME TypeOK, Verdicts, ExclusiveInv, BankVisit,
                      NEW a \in DOMAIN attempts, NEW b \in DOMAIN attempts, a < b,
                      attempts[a].job \in {"running", "succeeded"}, ~attempts[a].unknown
               PROVE  FALSE
    BY DEF SecondPurchaseOnlyAfterLostPost, BankVisit
  <2>1. attempts \in Seq(Attempt)
    BY DEF TypeOK
  <2>2. Busy(attempts[a])
    BY DEF Verdicts, Sound, Busy
  <2>3. a = Len(attempts) /\ DOMAIN attempts = 1..Len(attempts)
    BY <2>1, <2>2 DEF ExclusiveInv, Overlay
  <2> QED BY <2>3
<1> QED BY <1>1, VerdictsCorrect, ExclusiveCorrect, TypeCorrect, PTL

=============================================================================
