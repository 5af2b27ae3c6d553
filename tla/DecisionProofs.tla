---------------------------- MODULE DecisionProofs -----------------------------
(***************************************************************************)
(* What the decision agent guarantees for every case and every diagnosis,  *)
(* whatever the language model put into it. The limits come first in the   *)
(* code; these theorems say that nothing behind them reaches around them.  *)
(***************************************************************************)
EXTENDS DecisionPolicy, TLAPS

\* The two copies of the hard limits, one in the rules of the risk engine and one in
\* the decision agent, are the same condition.
THEOREM CopiesOfTheLimitsAgree ==
  ASSUME NEW x, x.attempts \in Nat
  PROVE  NegativeInvariant(x) <=> HardBlock(x)
<1>1. ExhaustedAttempts(x) <=> AttemptsExhausted(x)
  BY DEF ExhaustedAttempts, AttemptsExhausted, MaxRetryAttempts
<1>2. ChronicDecline(x) <=> ChronicHistory(x)
  BY DEF ChronicDecline, ChronicHistory, BlockedDeclineCodes
<1> QED
  BY <1>1, <1>2 DEF NegativeInvariant, HardBlock

\* A case beyond the limits is blocked, and any other of high value is reviewed: no
\* diagnosis changes that.
THEOREM LimitsPrevail ==
  ASSUME NEW x, x.attempts \in Nat, NEW d
  PROVE  /\ NegativeInvariant(x) => Decide(x, d) = Block
         /\ HighValueCase(x) /\ ~NegativeInvariant(x) => Decide(x, d) = Escalate
BY CopiesOfTheLimitsAgree DEF Decide, Escalates

\* No diagnosis makes a case proposed that the risk engine calls critical.
THEOREM CriticalIsNeverProposed ==
  ASSUME NEW x, x.attempts \in Nat, NEW d, RiskLevel(x) = "CRITICAL"
  PROVE  Decide(x, d).status # "PROPOSED"
<1>1. CASE NegativeInvariant(x)
  BY <1>1, LimitsPrevail DEF Block, Verdict
<1>2. CASE HighValueExposure(x)
  <2>1. Escalates(x, d)
    BY <1>2 DEF Escalates, HighValueCase, HighValueExposure, HighValueThreshold
  <2> QED
    BY <2>1 DEF Decide, Block, Escalate, Verdict
<1>3. ~PredictedRecoverable(x)
  <2>1. SUFFICES ASSUME PredictedRecoverable(x) PROVE FALSE
    OBVIOUS
  <2>2. RiskLevel(x) \in {"HIGH", "LOW", "MEDIUM"}
    <3>1. CASE HighValueExposure(x)
      BY <2>1, <3>1 DEF RiskLevel
    <3>2. CASE ~HighValueExposure(x) /\ ProvenHistory(x)
      BY <2>1, <3>2 DEF RiskLevel
    <3>3. CASE ~HighValueExposure(x) /\ ~ProvenHistory(x)
      BY <2>1, <3>3 DEF RiskLevel
    <3> QED
      BY <3>1, <3>2, <3>3
  <2> QED
    BY <2>2
<1>4. HighValueExposure(x) \/ NegativeInvariant(x)
  BY <1>3 DEF RiskLevel
<1> QED
  BY <1>1, <1>2, <1>4

\* What the model answers makes a difference only to a case within the limits and
\* below the high-value threshold.
THEOREM ModelDecidesWithinLimitsOnly ==
  ASSUME NEW x, x.attempts \in Nat, NEW d, NEW e,
         Decide(x, d) # Decide(x, e)
  PROVE  ~NegativeInvariant(x) /\ ~HighValueCase(x)
<1>1. ~NegativeInvariant(x)
  BY LimitsPrevail
<1>2. ~HighValueCase(x)
  BY DEF Decide, Escalates
<1> QED
  BY <1>1, <1>2

\* A failed diagnosis is never the reason for acting: the case is blocked or reviewed.
THEOREM FailedDiagnosisIsReviewed ==
  ASSUME NEW x, NEW status \in Statuses \ {"SUCCESS"}
  PROVE  Decide(x, Fallback(status)) \in {Block, Escalate}
<1>1. DiagnosisFailed(Fallback(status))
  BY DEF DiagnosisFailed, Present, Fallback, Statuses
<1> QED
  BY <1>1 DEF Decide, Escalates

\* An untrusted model is believed exactly when its answer is on the schema. Anything else
\* assesses nothing, and is no reason for acting on any case.
THEOREM EveryReplyIsADiagnosis ==
  ASSUME NEW reply \in HTTPReplies
  PROVE  /\ Diagnose(reply) \in Diagnoses
         /\ reply.payload \in Payloads =>
              Diagnose(reply) = [status |-> "SUCCESS", category |-> reply.payload[1],
                                 verdict |-> reply.payload[2]]
         /\ reply.payload \notin Payloads =>
              /\ \E status \in Statuses \ {"SUCCESS"} : Diagnose(reply) = Fallback(status)
              /\ \A x : Decide(x, Diagnose(reply)) \in {Block, Escalate}
<1>1. Unusable \notin Payloads
  BY DEF Unusable, Payloads
<1>2. CASE reply.payload \in Payloads
  <2>1. PICK c \in Categories, v \in {Yes, No} : reply.payload = <<c, v>>
    BY <1>2 DEF Payloads
  <2>2. reply.http = 200 /\ reply.payload # Unusable
    BY <1>1, <1>2 DEF HTTPReplies
  <2>3. Diagnose(reply) = [status |-> "SUCCESS", category |-> c, verdict |-> v]
    BY <2>1, <2>2 DEF Diagnose
  <2> QED
    BY <1>2, <2>1, <2>3 DEF Diagnoses
<1>3. CASE reply.payload \notin Payloads
  <2>1. reply.payload = Unusable
    BY <1>3 DEF HTTPReplies
  <2>2. PICK status \in Statuses \ {"SUCCESS"} : Diagnose(reply) = Fallback(status)
    <3>1. CASE reply.http = 408
      BY <3>1 DEF Diagnose, Statuses
    <3>2. CASE reply.http # 408 /\ reply.http # 200
      BY <3>2 DEF Diagnose, Statuses
    <3>3. CASE reply.http = 200
      BY <2>1, <3>3 DEF Diagnose, Statuses
    <3> QED
      BY <3>1, <3>2, <3>3
  <2>3. Fallback(status) \in Diagnoses
    BY DEF Fallback, Diagnoses
  <2>4. \A x : Decide(x, Fallback(status)) \in {Block, Escalate}
    BY FailedDiagnosisIsReviewed
  <2> QED
    BY <1>3, <2>2, <2>3, <2>4
<1> QED
  BY <1>2, <1>3
==============================================================================
