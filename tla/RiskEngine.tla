------------------------------ MODULE RiskEngine ------------------------------
(***************************************************************************)
(* The revenue-risk engine: what it observes of a recovery case, the rules *)
(* of Baseline v1, and the scores of a batch of predictions against the    *)
(* hidden ground truth.                                                    *)
(*                                                                         *)
(* A case is one row of the dataset:                                       *)
(*   kind         "payment" or "subscription"                              *)
(*   customer                                                              *)
(*   amount       at risk, in rupees: thresholds and floors are the code's *)
(*   codes        decline codes of the payment's attempts, oldest first    *)
(*   prior        the customer's payments before this one ...              *)
(*   captured     ... and how many of them were captured                   *)
(*   status       of a subscription                                        *)
(*   recoverable  the hidden truth                                         *)
(***************************************************************************)
EXTENDS Integers, Sequences, FiniteSets, FiniteSetsExt

FailureCodes == {"temporary_failure", "insufficient_funds", "expired_payment_method",
                 "generic_decline", "unknown_failure"}
NoCode   == "none"
NoStatus == "none"

\* The cases the generator writes: one to three failed attempts for a payment, with
\* any decline codes, and past_due for a subscription, which is always recoverable.
Generated(c) ==
  /\ c.prior \in Nat /\ c.captured \in 0 .. c.prior /\ c.recoverable \in BOOLEAN
  /\ c.amount \in Nat /\ c.amount > 0
  /\ \/ /\ c.kind = "payment" /\ c.status = NoStatus
        /\ c.codes \in Seq(FailureCodes) /\ Len(c.codes) \in 1 .. 3
     \/ /\ c.kind = "subscription" /\ c.status = "past_due"
        /\ c.codes = <<>> /\ c.recoverable

------------------------------------------------------------------------------
(* The extractor *)

\* Basis points, rounded down; 0 of nothing.
Bps(part, whole) == IF whole > 0 THEN (part * 10000) \div whole ELSE 0

\* What is observed of a case; a subscription has neither attempts nor a code.
ContextOf(c) ==
  [kind |-> c.kind, amount |-> c.amount, status |-> c.status,
   history |-> c.prior, success |-> Bps(c.captured, c.prior),
   attempts |-> Len(c.codes),
   code |-> IF c.codes = <<>> THEN NoCode ELSE c.codes[Len(c.codes)]]

------------------------------------------------------------------------------
(* Rules v1 *)

HighValueExposure(x) == x.amount >= 5000

\* Faulty variant: one attempt too few.
ExhaustedEarly(x) == x.attempts >= 2

ExhaustedAttempts(x) == x.attempts >= 3
ChronicDecline(x) ==
  x.history >= 3 /\ x.success < 2500 /\ x.code \in {"generic_decline", "unknown_failure"}
NegativeInvariant(x) == ExhaustedAttempts(x) \/ ChronicDecline(x)

BillingGlitch(x) == x.kind = "subscription" /\ x.status = "past_due"
ProvenHistory(x) ==
  x.history >= 2 /\ x.success >= 7500 /\ x.code \in {"temporary_failure", "generic_decline"}
ShortOfFunds(x) == x.code = "insufficient_funds" /\ x.attempts <= 2
CheckoutDrop(x) == x.history <= 1 /\ x.attempts <= 2

PositiveSignal(x) ==
  BillingGlitch(x) \/ ProvenHistory(x) \/ ShortOfFunds(x) \/ CheckoutDrop(x)

PredictedRecoverable(x) == ~NegativeInvariant(x) /\ PositiveSignal(x)

RiskLevel(x) ==
  IF PredictedRecoverable(x)
  THEN CASE HighValueExposure(x) -> "HIGH"
         [] ~HighValueExposure(x) /\ ProvenHistory(x) -> "LOW"
         [] OTHER -> "MEDIUM"
  ELSE IF HighValueExposure(x) \/ NegativeInvariant(x) THEN "CRITICAL" ELSE "HIGH"

------------------------------------------------------------------------------
(* Scores: verdicts against the truth *)

Yes == "recoverable"
No  == "unrecoverable"
Unassessed == "unassessed"

\* The engine's predictions for a batch.
Predictions(cases) ==
  [i \in DOMAIN cases |-> IF PredictedRecoverable(ContextOf(cases[i])) THEN Yes ELSE No]

AmountOf(cases, I) == MapThenSumSet(LAMBDA i : cases[i].amount, I)

\* The confusion matrix, its rates and the money behind it. Risk engine and diagnosis
\* evaluator each have this calculation; only the latter meets unassessed cases.
Score(cases, verdict) ==
  LET Of(v, truth) == {i \in DOMAIN cases : verdict[i] = v /\ cases[i].recoverable = truth}
      tp == Cardinality(Of(Yes, TRUE))   fp == Cardinality(Of(Yes, FALSE))
      fn == Cardinality(Of(No, TRUE))    tn == Cardinality(Of(No, FALSE))
      precision == Bps(tp, tp + fp)      recall == Bps(tp, tp + fn)
      recoverable == {i \in DOMAIN cases : cases[i].recoverable}
  IN [tp |-> tp, fp |-> fp, fn |-> fn, tn |-> tn,
      precision |-> precision, recall |-> recall,
      f1 |-> IF precision + recall > 0
             THEN (2 * precision * recall) \div (precision + recall) ELSE 0,
      accuracy |-> Bps(tp + tn, tp + fp + fn + tn),
      atRisk |-> AmountOf(cases, DOMAIN cases),
      captured |-> AmountOf(cases, Of(Yes, TRUE)),
      missed |-> AmountOf(cases, Of(No, TRUE)),
      falseIntervention |-> AmountOf(cases, Of(Yes, FALSE)),
      capture |-> Bps(AmountOf(cases, Of(Yes, TRUE)), AmountOf(cases, recoverable))]

\* evaluate_dataset of the baseline evaluator.
BaselineScore(cases) == Score(cases, Predictions(cases))
==============================================================================
