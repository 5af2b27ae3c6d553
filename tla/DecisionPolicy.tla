---------------------------- MODULE DecisionPolicy -----------------------------
(***************************************************************************)
(* The recovery decision agent: the context of a case and its diagnosis    *)
(* become a proposal, by the first rule that applies.                      *)
(***************************************************************************)
EXTENDS DiagnosisAgent

\* RecoveryPolicy v1, amounts in rupees.
MaxRetryAttempts == 2
HighValueThreshold == 5000
BlockedDeclineCodes == {"generic_decline", "unknown_failure"}

\* ai_diagnosis is optional.
NoDiagnosis == [status |-> "ABSENT", category |-> "NONE", verdict |-> Unassessed]
Present(d) == d.status # "ABSENT"

Verdict(action, status) == [action |-> action, status |-> status,
                            approval |-> action = "HUMAN_REVIEW"]

Block    == Verdict("NO_ACTION", "BLOCKED")
Escalate == Verdict("HUMAN_REVIEW", "REQUIRES_REVIEW")
Propose(action) == Verdict(action, "PROPOSED")
Pass     == Verdict("NO_ACTION", "NO_ACTION")

------------------------------------------------------------------------------
(* The rules, in their order *)

\* 1. Hard blocks.
AttemptsExhausted(x) == x.attempts >= MaxRetryAttempts + 1
ChronicHistory(x) ==
  x.history >= 3 /\ x.success < 2500 /\ x.code \in BlockedDeclineCodes
HardBlock(x) == AttemptsExhausted(x) \/ ChronicHistory(x)

\* 2. and 3. What a human decides.
HighValueCase(x)     == x.amount >= HighValueThreshold
DiagnosisFailed(d) == Present(d) /\ d.status # "SUCCESS"
Escalates(x, d)    == HighValueCase(x) \/ DiagnosisFailed(d) \/ x.code = "unknown_failure"

\* 4. Routing: here the category of the diagnosis counts as much as the decline code,
\* and an earlier line beats a later one, whichever of the two it is for.
PastDue(x)     == x.kind = "subscription" /\ x.status = "past_due"
Expired(x, d)  == x.code = "expired_payment_method" \/ d.category = "EXPIRED_OR_INVALID_METHOD"
Deficit(x, d)  == x.code = "insufficient_funds" \/ d.category = "BALANCE_OR_LIMIT_DEFICIT"
Transient(x, d) == x.code = "temporary_failure" \/ d.category = "TRANSIENT_SYSTEM_ERROR"
Persistent(x, d) == x.code = "generic_decline" \/ d.category = "PERSISTENT_ISSUER_DECLINE"

Route(x, d) ==
  IF PastDue(x) THEN Propose("SUBSCRIPTION_RECOVERY_WORKFLOW")
  ELSE IF Expired(x, d) THEN Propose("REQUEST_PAYMENT_METHOD_UPDATE")
  ELSE IF Deficit(x, d) THEN Propose("RETRY_LATER")
  ELSE IF Transient(x, d) THEN Propose("RETRY_PAYMENT")
  ELSE IF Persistent(x, d) THEN Block
  ELSE Pass

\* Faulty variant: what needs a human is looked at after the hard routing only.
DecideRoutingFirst(x, d) ==
  IF HardBlock(x) THEN Block
  ELSE IF Route(x, d).status = "PROPOSED" THEN Route(x, d)
  ELSE IF Escalates(x, d) THEN Escalate ELSE Route(x, d)

Decide(x, d) ==
  IF HardBlock(x) THEN Block ELSE IF Escalates(x, d) THEN Escalate ELSE Route(x, d)

\* The same uuid5 as the gateway recomputes.
DeriveProposalId(kind, id) == <<"proposal", kind, id>>

------------------------------------------------------------------------------
(* evaluate_proposals: the exposure by status, and the agent's own safety audit *)

DecisionReport(cases, proposals) ==
  LET With(status) == {i \in DOMAIN cases : proposals[i].status = status} IN
  [atRisk |-> AmountOf(cases, DOMAIN cases),
   proposed |-> AmountOf(cases, With("PROPOSED")),
   review |-> AmountOf(cases, With("REQUIRES_REVIEW")),
   blocked |-> AmountOf(cases, With("BLOCKED")),
   noAction |-> AmountOf(cases, With("NO_ACTION")),
   reviewRate |-> Bps(Cardinality(With("REQUIRES_REVIEW")), Len(cases)),
   blockedRate |-> Bps(Cardinality(With("BLOCKED")), Len(cases)),
   unsafe |-> Cardinality({i \in With("PROPOSED") : proposals[i].approval})]
==============================================================================
