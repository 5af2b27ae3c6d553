---------------------------- MODULE SafetyGateway -----------------------------
(***************************************************************************)
(* The deterministic safety gateway: evaluate_proposal runs a proposal, the *)
(* trusted facts about its target and an optional human approval through   *)
(* the kill switch, the input checks, the decision store, the policy       *)
(* checks and the rate limiter, and records the result.                    *)
(*                                                                         *)
(* Every caller in the repository evaluates proposals one after the other, *)
(* so an evaluation is one step; each of its exits is an action.           *)
(***************************************************************************)
EXTENDS Integers, Sequences, FiniteSets

CONSTANTS
  Submissions,     (* the <<proposal, target, approval>> a caller may submit     *)
  HighValue,       (* config.high_value_threshold_minor                          *)
  RateLimit,       (* config.rate_limit_per_target_window                        *)
  Window,          (* config.window_seconds                                      *)
  MaxTime,         (* bound: the clock                                           *)
  MaxEvaluations   (* bound: evaluations                                         *)

ASSUME GatewayAssumption ==
  HighValue \in Nat /\ RateLimit \in Nat /\ Window \in Nat /\ MaxTime \in Nat
    /\ MaxEvaluations \in Nat

VARIABLES
  active,          (* kill_switch._is_active                                     *)
  corrupted,       (* kill_switch._is_corrupted                                  *)
  now,             (* the clock, in the unit of Window                           *)
  primary,         (* idempotency_store._primary_store: proposal id -> decision  *)
  targetStore,     (* idempotency_store._target_store: target -> entry           *)
  targetTimes,     (* rate_limiter._target_timestamps: target -> attempts        *)
  customerTimes,   (* rate_limiter._customer_timestamps                          *)
  audit            (* audit_logger._records                                      *)

killSwitch == <<active, corrupted>>
store      == <<primary, targetStore>>
limiter    == <<targetTimes, customerTimes>>
vars == <<killSwitch, now, store, limiter, audit>>

------------------------------------------------------------------------------
(* Names and data *)

TargetKey(s)  == <<s.target.kind, s.target.id>>
ProposalIds   == {s.proposal.id : s \in Submissions}
Targets       == {TargetKey(s) : s \in Submissions}
Customers     == {s.target.customer : s \in Submissions}

NoApproval == <<>>
NoDecision == "none"
NoEntry    == [proposal |-> <<"none">>, action |-> "none", amount |-> 0, decision |-> NoDecision]

\* The decisions the store keeps, and all that an evaluation may answer.
StoredDecisions == {"APPROVED", "BLOCKED", "REQUIRES_REVIEW"}
Decisions == StoredDecisions \cup {"KILL_SWITCH_ACTIVE", "RATE_LIMITED", "INVALID_PROPOSAL"}

\* A uuid5 over the versions, target type and target id: injective in the target.
DeriveExpectedProposalId(kind, target) == <<"proposal", kind, target>>

------------------------------------------------------------------------------
(* Stages 1 to 4: the kill switch and the input checks *)

Suspended == corrupted \/ active

\* "current" abstracts the comparisons of versions.
SchemaAndVersion(s) ==
  s.proposal.current /\ s.target.kind \in {"payment", "subscription"}

\* Faulty variant: the proposal's id is taken as given.
ProposalIdentityUnverified(s) ==
  s.proposal.target = s.target.id /\ s.proposal.kind = s.target.kind

ProposalIdentity(s) ==
  /\ s.proposal.target = s.target.id
  /\ s.proposal.kind = s.target.kind
  /\ s.proposal.id = DeriveExpectedProposalId(s.proposal.kind, s.proposal.target)

FinancialIntegrity(s) ==
  /\ s.target.amount > 0
  /\ s.proposal.amount = s.target.amount
  /\ s.proposal.currency = s.target.currency

Authentic(s) == SchemaAndVersion(s) /\ ProposalIdentity(s) /\ FinancialIntegrity(s)

------------------------------------------------------------------------------
(* Stage 5: the decision store *)

ExistingDecision(s) == primary[s.proposal.id]

\* Faulty variant: the action is not compared.
AlteredInAmount(s) ==
  LET entry == targetStore[TargetKey(s)] IN
  ExistingDecision(s) # NoDecision /\ entry # NoEntry /\ entry.amount # s.proposal.amount

\* The proposal was decided, but for another action or amount.
Altered(s) ==
  LET entry == targetStore[TargetKey(s)] IN
  /\ ExistingDecision(s) # NoDecision
  /\ entry # NoEntry
  /\ entry.action # s.proposal.action \/ entry.amount # s.proposal.amount

\* Another proposal is approved for the target, with another action or amount.
CheckTargetConflict(s) ==
  LET entry == targetStore[TargetKey(s)] IN
  /\ ExistingDecision(s) = NoDecision
  /\ entry.decision = "APPROVED"
  /\ entry.proposal # s.proposal.id
  /\ entry.action # s.proposal.action \/ entry.amount # s.proposal.amount

Conflicting(s) == Altered(s) \/ CheckTargetConflict(s)

------------------------------------------------------------------------------
(* Stages 6 to 9: the policy *)

ExecutableActions ==
  {"RETRY_PAYMENT", "RETRY_LATER", "REQUEST_PAYMENT_METHOD_UPDATE",
   "SUBSCRIPTION_RECOVERY_WORKFLOW"}

MaxTargetAttempts == 2
BlockedDeclineCodes == {"generic_decline", "unknown_failure"}
UnrecoverableFraudCodes == {"suspected_fraud", "stolen_card", "lost_card"}

\* Faulty variant: the limit itself counts as reached.
RetryAndChronicStrict(t) ==
  /\ t.attempts < MaxTargetAttempts
  /\ ~ (t.history >= 3 /\ t.success < 2500 /\ t.code \in BlockedDeclineCodes)

\* The retry limit and the chronic failure invariant. Rates are in basis points.
RetryAndChronic(t) ==
  /\ t.attempts < MaxTargetAttempts + 1
  /\ ~ (t.history >= 3 /\ t.success < 2500 /\ t.code \in BlockedDeclineCodes)

\* Faulty variant: what the decision agent blocks is not looked at again.
FailureCategoryTrusted(p, t) == t.code \notin UnrecoverableFraudCodes

FailureCategorySafe(p, t) ==
  /\ t.code \notin UnrecoverableFraudCodes
  /\ ~ (p.action = "RETRY_PAYMENT" /\ t.code \in BlockedDeclineCodes /\ t.success < 7500)

\* Faulty variant: the threshold itself passes without a human.
RequiresApprovalAbove(s) == s.target.amount > HighValue \/ s.proposal.escalated

RequiresApproval(s) == s.target.amount >= HighValue \/ s.proposal.escalated

ValidApproval(s) ==
  /\ s.approval # NoApproval
  /\ s.approval.proposal = s.proposal.id /\ s.approval.target = s.proposal.target
  /\ s.approval.approved
  /\ s.approval.signed

\* Safe to execute, but for what a human has to say.
WithinPolicy(s) ==
  /\ s.proposal.action \in ExecutableActions
  /\ RetryAndChronic(s.target)
  /\ FailureCategorySafe(s.proposal, s.target)

\* HUMAN_REVIEW proposals and missing or invalid approvals wait for a human.
NeedsReview(s) ==
  \/ s.proposal.action = "HUMAN_REVIEW"
  \/ WithinPolicy(s) /\ RequiresApproval(s) /\ ~ValidApproval(s)

------------------------------------------------------------------------------
(* Stage 10: the rate limiter *)

\* The timestamps of a key are a bag: nothing reads their order. An attempt carries
\* the number of its evaluation, so that attempts of one instant count separately.
Attempts == [time : 0 .. MaxTime, evaluation : 1 .. MaxEvaluations]
ThisAttempt == [time |-> now, evaluation |-> Len(audit) + 1]

\* Faulty variant: a time at the far end of the window is dropped.
RecentExclusive(times) == {a \in times : a.time > now - Window}

Recent(times) == {a \in times : a.time >= now - Window}

TargetHistory(s)   == Recent(targetTimes[TargetKey(s)])
CustomerHistory(s) == Recent(customerTimes[s.target.customer])

\* Faulty variant: the limit may be exceeded by one.
CustomerLimitedLate(s) == Cardinality(CustomerHistory(s)) > 3 * RateLimit

TargetLimited(s)   == Cardinality(TargetHistory(s)) >= RateLimit
CustomerLimited(s) == Cardinality(CustomerHistory(s)) >= 3 * RateLimit
IsRateLimited(s)   == TargetLimited(s) \/ CustomerLimited(s)

------------------------------------------------------------------------------
(* evaluate_proposal: one action per exit *)

\* The result, as the audit log keeps it.
Result(s, decision, eligible, replay) ==
  [input |-> s, time |-> now, decision |-> decision, eligible |-> eligible,
   replay |-> replay]

RecordAudit(r) == Len(audit) < MaxEvaluations /\ audit' = Append(audit, r)

RecordDecision(s, decision) ==
  /\ primary' = [primary EXCEPT ![s.proposal.id] = decision]
  /\ targetStore' = [targetStore EXCEPT ![TargetKey(s)] =
       [proposal |-> s.proposal.id, action |-> s.proposal.action,
        amount |-> s.target.amount, decision |-> decision]]

\* Faulty variant: the answer of a suspended gateway is stored as a decision.
SuspendStored(s) ==
  /\ Suspended
  /\ RecordAudit(Result(s, "KILL_SWITCH_ACTIVE", FALSE, FALSE))
  /\ RecordDecision(s, "KILL_SWITCH_ACTIVE")
  /\ UNCHANGED <<killSwitch, now, limiter>>

Suspend(s) ==
  /\ Suspended
  /\ RecordAudit(Result(s, "KILL_SWITCH_ACTIVE", FALSE, FALSE))
  /\ UNCHANGED <<killSwitch, now, store, limiter>>

RejectInvalid(s) ==
  /\ ~Suspended /\ ~Authentic(s)
  /\ RecordAudit(Result(s, "INVALID_PROPOSAL", FALSE, FALSE))
  /\ UNCHANGED <<killSwitch, now, store, limiter>>

Admitted(s) == ~Suspended /\ Authentic(s)

RejectConflict(s) ==
  /\ Admitted(s) /\ Conflicting(s)
  /\ RecordAudit(Result(s, "BLOCKED", FALSE, FALSE))
  /\ UNCHANGED <<killSwitch, now, store, limiter>>

\* A decided proposal gets its decision again, whatever the later stages would say.
ReplayDecision(s) ==
  LET existing == ExistingDecision(s) IN
  /\ Admitted(s) /\ ~Conflicting(s)
  /\ existing # NoDecision
  /\ RecordAudit(Result(s, existing, existing = "APPROVED", TRUE))
  /\ UNCHANGED <<killSwitch, now, store, limiter>>

Fresh(s) == Admitted(s) /\ ~Conflicting(s) /\ ExistingDecision(s) = NoDecision

Block(s) ==
  /\ Fresh(s) /\ ~WithinPolicy(s) /\ ~NeedsReview(s)
  /\ RecordAudit(Result(s, "BLOCKED", FALSE, FALSE))
  /\ RecordDecision(s, "BLOCKED")
  /\ UNCHANGED <<killSwitch, now, limiter>>

RequestReview(s) ==
  /\ Fresh(s) /\ NeedsReview(s)
  /\ RecordAudit(Result(s, "REQUIRES_REVIEW", FALSE, FALSE))
  /\ RecordDecision(s, "REQUIRES_REVIEW")
  /\ UNCHANGED <<killSwitch, now, limiter>>

Cleared(s) == Fresh(s) /\ WithinPolicy(s) /\ ~NeedsReview(s)

\* Expired times are dropped; the customer's only if the target's limit lets it be asked.
Throttle(s) ==
  /\ Cleared(s) /\ IsRateLimited(s)
  /\ targetTimes' = [targetTimes EXCEPT ![TargetKey(s)] = TargetHistory(s)]
  /\ customerTimes' = IF TargetLimited(s) THEN customerTimes
                      ELSE [customerTimes EXCEPT ![s.target.customer] = CustomerHistory(s)]
  /\ RecordAudit(Result(s, "RATE_LIMITED", FALSE, FALSE))
  /\ UNCHANGED <<killSwitch, now, store>>

Approve(s) ==
  /\ Cleared(s) /\ ~IsRateLimited(s)
  /\ targetTimes' = [targetTimes EXCEPT ![TargetKey(s)] = TargetHistory(s) \cup {ThisAttempt}]
  /\ customerTimes' =
       [customerTimes EXCEPT ![s.target.customer] = CustomerHistory(s) \cup {ThisAttempt}]
  /\ RecordAudit(Result(s, "APPROVED", TRUE, FALSE))
  /\ RecordDecision(s, "APPROVED")
  /\ UNCHANGED <<killSwitch, now>>

EvaluateProposal(s) ==
  \/ Suspend(s) \/ RejectInvalid(s) \/ RejectConflict(s) \/ ReplayDecision(s)
  \/ Block(s) \/ RequestReview(s) \/ Throttle(s) \/ Approve(s)

------------------------------------------------------------------------------
(* The kill switch and the clock *)

Activate == ~active /\ active' = TRUE /\ UNCHANGED <<corrupted, now, store, limiter, audit>>

\* Faulty variant: deactivating also clears the corruption.
DeactivateAlways ==
  /\ active
  /\ active' = FALSE /\ corrupted' = FALSE
  /\ UNCHANGED <<now, store, limiter, audit>>

Deactivate ==
  /\ active /\ ~corrupted
  /\ active' = FALSE
  /\ UNCHANGED <<corrupted, now, store, limiter, audit>>

SetCorrupted ==
  /\ ~corrupted
  /\ corrupted' = TRUE /\ active' = TRUE
  /\ UNCHANGED <<now, store, limiter, audit>>

Tick ==
  /\ now < MaxTime
  /\ \E t \in now + 1 .. MaxTime : now' = t
  /\ UNCHANGED <<killSwitch, store, limiter, audit>>

------------------------------------------------------------------------------

Init ==
  /\ active \in BOOLEAN /\ corrupted = FALSE
  /\ now = 0
  /\ primary = [p \in ProposalIds |-> NoDecision]
  /\ targetStore = [k \in Targets |-> NoEntry]
  /\ targetTimes = [k \in Targets |-> {}]
  /\ customerTimes = [c \in Customers |-> {}]
  /\ audit = <<>>

Next ==
  \/ \E s \in Submissions : EvaluateProposal(s)
  \/ Activate \/ Deactivate \/ SetCorrupted \/ Tick

Spec == Init /\ [][Next]_vars
==============================================================================
