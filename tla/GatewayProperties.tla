-------------------------- MODULE GatewayProperties ---------------------------
(* What makes the safety gateway correct, and a claim it does not meet.   *)
EXTENDS SafetyGateway

Entries == [proposal : ProposalIds, action : {s.proposal.action : s \in Submissions},
            amount : {s.target.amount : s \in Submissions}, decision : StoredDecisions]

Results == [input : Submissions, time : 0 .. MaxTime, decision : Decisions,
            eligible : BOOLEAN, replay : BOOLEAN]

\* The types of the variables. In particular the store keeps final decisions
\* only: a suspended, throttled or invalid evaluation may be repeated.
GatewayTypeOK ==
  /\ active \in BOOLEAN /\ corrupted \in BOOLEAN
  /\ now \in 0 .. MaxTime
  /\ primary \in [ProposalIds -> StoredDecisions \cup {NoDecision}]
  /\ targetStore \in [Targets -> Entries \cup {NoEntry}]
  /\ targetTimes \in [Targets -> SUBSET Attempts]
  /\ customerTimes \in [Customers -> SUBSET Attempts]
  /\ audit \in Seq(Results)

Evaluations == 1 .. Len(audit)
Input(i)    == audit[i].input
KeyAt(i)    == TargetKey(Input(i))
TermsOf(s)  == <<s.proposal.action, s.target.amount>>
AllTerms    == {TermsOf(s) : s \in Submissions}

\* Results that authorise for the first time, not by replay.
FreshApproval(i) == audit[i].decision = "APPROVED" /\ ~audit[i].replay

------------------------------------------------------------------------------
(* The ledger *)

Ledger == INSTANCE AuthorizationLedger WITH
  Terms    <- AllTerms,
  Numbers  <- 1 .. MaxEvaluations,
  vouchers <- {[number |-> i, target |-> KeyAt(i), terms |-> TermsOf(Input(i))] :
                 i \in {j \in Evaluations : FreshApproval(j)}},
  honoured <- {<<KeyAt(i), TermsOf(Input(i))>> : i \in {j \in Evaluations : audit[j].eligible}}

\* Whatever is proposed for a target, in any order and however often, it is authorised
\* afresh once at most, and all results the execution layer may act on, replays included,
\* carry the action and amount of that one authorisation. (_record_and_store, and the
\* replay and conflict checks of stage 5.)
KeepsLedger == Ledger!LedgerSpec

\* A target is decided in both stores or in neither, with one decision, and that
\* decision was given to a proposal for that target, action and amount, which the
\* audit log has. (record_decision writes both stores under different keys, which
\* agree only because stage 3 recomputes the proposal id.)
DecisionsAreRooted ==
  \A k \in Targets :
    LET entry == targetStore[k]
        id    == DeriveExpectedProposalId(k[1], k[2]) IN
    IF entry = NoEntry
    THEN id \in ProposalIds => primary[id] = NoDecision
    ELSE /\ entry.proposal = id
         /\ primary[id] = entry.decision
         /\ \E i \in Evaluations :
              /\ KeyAt(i) = k /\ TermsOf(Input(i)) = <<entry.action, entry.amount>>
              /\ audit[i].decision = entry.decision /\ ~audit[i].replay

------------------------------------------------------------------------------
(* Approvals and limits *)

\* A result that authorises a high-value amount goes back to an evaluation of the
\* same target, action and amount that had a human's approval of this proposal,
\* also when it is a replay without one. (Stage 9 runs only the first time.)
HighValueWasApproved ==
  \A i \in Evaluations :
    audit[i].eligible /\ Input(i).target.amount >= HighValue =>
      \E j \in 1 .. i :
        /\ FreshApproval(j)
        /\ KeyAt(j) = KeyAt(i) /\ TermsOf(Input(j)) = TermsOf(Input(i))
        /\ Input(j).approval # NoApproval
        /\ Input(j).approval.proposal = DeriveExpectedProposalId(KeyAt(i)[1], KeyAt(i)[2])
        /\ Input(j).approval.approved /\ Input(j).approval.signed

\* The approvals before evaluation i that fall into its window.
InWindow(i) == {j \in 1 .. i - 1 : FreshApproval(j) /\ audit[j].time >= audit[i].time - Window}
TargetUse(i)   == Cardinality({j \in InWindow(i) : KeyAt(j) = KeyAt(i)})
CustomerUse(i) ==
  Cardinality({j \in InWindow(i) : Input(j).target.customer = Input(i).target.customer})

\* The limits are exact, although expired times are dropped on the way and only
\* for the target and customer at hand: no approval exceeds them in its closed
\* window, and nothing is throttled that has quota left, so that replays and
\* refusals use none. (is_rate_limited, record_attempt.)
RateLimitIsExact ==
  \A i \in Evaluations :
    LET exhausted == TargetUse(i) >= RateLimit \/ CustomerUse(i) >= 3 * RateLimit IN
    /\ FreshApproval(i) => ~exhausted
    /\ audit[i].decision = "RATE_LIMITED" => exhausted

\* While the kill switch is active nothing is authorised, not even by replay, and a
\* corrupted one stays so: no operator action brings authorisation back. Replays are
\* included because stage 1 comes before stage 5 (docs/safety-gateway.md:83, although
\* line 134 of it speaks of requests that are not replayed).
SuspensionHolds ==
  [][/\ corrupted => corrupted'
     /\ Suspended /\ audit' # audit => ~audit'[Len(audit')].eligible]_vars

------------------------------------------------------------------------------
(* A claim of the repository that the code does not meet *)

\* docs/safety-gateway.md: "Valid human approval -> passed to Stage 10". So a
\* proposal within policy is not sent to review when it carries a valid approval.
ValidApprovalIsHonoured ==
  \A i \in Evaluations :
    WithinPolicy(Input(i)) /\ ValidApproval(Input(i)) => audit[i].decision # "REQUIRES_REVIEW"
==============================================================================
