---------------------------- MODULE GatewayProofs -----------------------------
(* Theorems about the safety gateway, for all submissions and bounds. *)
EXTENDS GatewayProperties, FiniteSetTheorems, TLAPS

------------------------------------------------------------------------------
(* Types *)

\* What a submission names is in the domains of the store and the limiter.
LEMMA SubmissionFacts ==
  ASSUME NEW s \in Submissions
  PROVE  /\ s.proposal.id \in ProposalIds /\ TargetKey(s) \in Targets
         /\ s.target.customer \in Customers /\ TermsOf(s) \in AllTerms
  BY DEF ProposalIds, Targets, Customers, AllTerms

\* A result of an evaluation at this time is one of the results.
LEMMA ResultType ==
  ASSUME GatewayTypeOK, NEW s \in Submissions, NEW d \in Decisions,
         NEW e \in BOOLEAN, NEW r \in BOOLEAN
  PROVE  Result(s, d, e, r) \in Results
  BY DEF GatewayTypeOK, Result, Results

\* Recording a result appends it to the log.
LEMMA AuditStep ==
  ASSUME GatewayTypeOK, NEW r \in Results, RecordAudit(r)
  PROVE  /\ audit' \in Seq(Results)
         /\ Len(audit') = Len(audit) + 1 /\ Len(audit) \in Nat
         /\ Evaluations' = Evaluations \cup {Len(audit) + 1}
         /\ \A i \in Evaluations : i \in Evaluations' /\ audit'[i] = audit[i]
         /\ audit'[Len(audit) + 1] = r
         /\ Len(audit) + 1 \in 1 .. MaxEvaluations
  BY GatewayAssumption DEF GatewayTypeOK, RecordAudit, Evaluations

\* Storing a decision keeps the types of the stores.
LEMMA StoreStep ==
  ASSUME GatewayTypeOK, NEW s \in Submissions, NEW d \in StoredDecisions,
         RecordDecision(s, d)
  PROVE  /\ primary' \in [ProposalIds -> StoredDecisions \cup {NoDecision}]
         /\ targetStore' \in [Targets -> Entries \cup {NoEntry}]
<1>1. [proposal |-> s.proposal.id, action |-> s.proposal.action,
       amount |-> s.target.amount, decision |-> d] \in Entries
  BY SubmissionFacts DEF Entries
<1>. QED
  BY <1>1, SubmissionFacts DEF GatewayTypeOK, RecordDecision

\* Every evaluation keeps the types.
LEMMA EvaluationTypes ==
  ASSUME GatewayTypeOK, NEW s \in Submissions, EvaluateProposal(s)
  PROVE  GatewayTypeOK'
<1>0. /\ active' = active /\ corrupted' = corrupted /\ now' = now
  BY DEF EvaluateProposal, Suspend, RejectInvalid, RejectConflict, ReplayDecision,
         Block, RequestReview, Throttle, Approve, killSwitch
<1>1. audit' \in Seq(Results)
  <2>1. \A d \in Decisions, e, r \in BOOLEAN : RecordAudit(Result(s, d, e, r)) =>
          audit' \in Seq(Results)
    BY ResultType, AuditStep
  <2>2. ExistingDecision(s) # NoDecision => ExistingDecision(s) \in Decisions
    BY SubmissionFacts DEF ExistingDecision, GatewayTypeOK, Decisions
  <2>. QED
    BY <2>1, <2>2 DEF EvaluateProposal, Suspend, RejectInvalid, RejectConflict,
       ReplayDecision, Block, RequestReview, Throttle, Approve, Decisions, StoredDecisions
<1>2. /\ primary' \in [ProposalIds -> StoredDecisions \cup {NoDecision}]
      /\ targetStore' \in [Targets -> Entries \cup {NoEntry}]
  <2>1. \A d \in StoredDecisions : RecordDecision(s, d) =>
          /\ primary' \in [ProposalIds -> StoredDecisions \cup {NoDecision}]
          /\ targetStore' \in [Targets -> Entries \cup {NoEntry}]
    BY StoreStep
  <2>2. UNCHANGED store \/ \E d \in StoredDecisions : RecordDecision(s, d)
    BY DEF EvaluateProposal, Suspend, RejectInvalid, RejectConflict,
       ReplayDecision, Block, RequestReview, Throttle, Approve, StoredDecisions
  <2>. QED
    BY <2>1, <2>2 DEF store, GatewayTypeOK
<1>3. /\ targetTimes' \in [Targets -> SUBSET Attempts]
      /\ customerTimes' \in [Customers -> SUBSET Attempts]
  <2>1. /\ TargetHistory(s) \subseteq Attempts /\ CustomerHistory(s) \subseteq Attempts
    BY SubmissionFacts DEF TargetHistory, CustomerHistory, Recent, GatewayTypeOK
  <2>2. CASE Throttle(s)
    BY <2>1, <2>2, SubmissionFacts DEF Throttle, GatewayTypeOK
  <2>3. CASE Approve(s)
    <3>1. Len(audit) + 1 \in 1 .. MaxEvaluations
      BY <2>3, ResultType, AuditStep DEF Approve, Decisions, StoredDecisions
    <3>2. ThisAttempt \in Attempts
      BY <3>1 DEF ThisAttempt, Attempts, GatewayTypeOK
    <3>. QED
      BY <2>1, <2>3, <3>2, SubmissionFacts DEF Approve, GatewayTypeOK
  <2>4. CASE UNCHANGED limiter
    BY <2>4 DEF limiter, GatewayTypeOK
  <2>. QED
    BY <2>2, <2>3, <2>4 DEF EvaluateProposal, Suspend, RejectInvalid, RejectConflict,
       ReplayDecision, Block, RequestReview
<1>. QED
  BY <1>0, <1>1, <1>2, <1>3 DEF GatewayTypeOK

\* The initial state has the types.
LEMMA GatewayInitTypes == Init => GatewayTypeOK
<1>. SUFFICES ASSUME Init PROVE GatewayTypeOK
  OBVIOUS
<1>1. active \in BOOLEAN /\ corrupted \in BOOLEAN
  BY DEF Init
<1>2. now \in 0 .. MaxTime
  BY GatewayAssumption DEF Init
<1>3. audit \in Seq(Results)
  BY DEF Init
<1>4. /\ primary \in [ProposalIds -> StoredDecisions \cup {NoDecision}]
      /\ targetStore \in [Targets -> Entries \cup {NoEntry}]
      /\ targetTimes \in [Targets -> SUBSET Attempts]
      /\ customerTimes \in [Customers -> SUBSET Attempts]
  BY DEF Init
<1>. QED
  BY <1>1, <1>2, <1>3, <1>4 DEF GatewayTypeOK

\* The gateway keeps its types; its store holds final decisions only.
THEOREM GatewayTypeCorrect == Spec => []GatewayTypeOK
<1>1. Init => GatewayTypeOK
  BY GatewayInitTypes
<1>2. GatewayTypeOK /\ [Next]_vars => GatewayTypeOK'
  <2>. SUFFICES ASSUME GatewayTypeOK, [Next]_vars PROVE GatewayTypeOK'
    OBVIOUS
  <2>1. ASSUME NEW s \in Submissions, EvaluateProposal(s) PROVE GatewayTypeOK'
    BY <2>1, EvaluationTypes
  <2>2. CASE Activate \/ Deactivate \/ SetCorrupted
    BY <2>2 DEF Activate, Deactivate, SetCorrupted, GatewayTypeOK, store, limiter
  <2>3. CASE Tick
    BY <2>3, GatewayAssumption DEF Tick, GatewayTypeOK, killSwitch, store, limiter
  <2>4. CASE UNCHANGED vars
    BY <2>4 DEF vars, GatewayTypeOK, killSwitch, store, limiter
  <2>. QED
    BY <2>1, <2>2, <2>3, <2>4 DEF Next
<1>. QED
  BY <1>1, <1>2, PTL DEF Spec

------------------------------------------------------------------------------
(* What an evaluation can do to the store and the log *)

\* An evaluation that is recorded, authorises nothing and decides nothing.
Passed(s) ==
  /\ \E d \in Decisions \ {"APPROVED"} : RecordAudit(Result(s, d, FALSE, FALSE))
  /\ UNCHANGED store

\* An evaluation that decides the proposal.
Decided(s, d) ==
  /\ Fresh(s)
  /\ d = "APPROVED" => WithinPolicy(s) /\ ~NeedsReview(s)
  /\ RecordAudit(Result(s, d, d = "APPROVED", FALSE))
  /\ RecordDecision(s, d)

LEMMA EvaluationSteps ==
  ASSUME NEW s \in Submissions, EvaluateProposal(s)
  PROVE  \/ Passed(s)
         \/ ReplayDecision(s)
         \/ \E d \in StoredDecisions : Decided(s, d)
<1>1. Suspend(s) \/ RejectInvalid(s) \/ RejectConflict(s) \/ Throttle(s) => Passed(s)
  BY DEF Suspend, RejectInvalid, RejectConflict, Throttle, Passed, Decisions, StoredDecisions
<1>2. Block(s) => Decided(s, "BLOCKED")
  BY DEF Block, Decided
<1>3. RequestReview(s) => Decided(s, "REQUIRES_REVIEW")
  BY DEF RequestReview, Decided
<1>4. Approve(s) => Decided(s, "APPROVED")
  BY DEF Approve, Cleared, Decided
<1>. QED
  BY <1>1, <1>2, <1>3, <1>4 DEF EvaluateProposal, StoredDecisions

LEMMA GatewaySteps ==
  ASSUME [Next]_vars
  PROVE  \/ UNCHANGED <<store, audit>>
         \/ \E s \in Submissions :
              Passed(s) \/ ReplayDecision(s) \/ \E d \in StoredDecisions : Decided(s, d)
  BY EvaluationSteps
     DEF Next, Activate, Deactivate, SetCorrupted, Tick, vars, store

------------------------------------------------------------------------------
(* The store *)

\* Results that authorise agree with the store, and a first approval authorises.
GrantedIsStored ==
  /\ \A i \in Evaluations : audit[i].eligible =>
       LET entry == targetStore[KeyAt(i)] IN
       entry.decision = "APPROVED" /\ TermsOf(Input(i)) = <<entry.action, entry.amount>>
  /\ \A i \in Evaluations : FreshApproval(i) => audit[i].eligible

StoreInvariant == GatewayTypeOK /\ DecisionsAreRooted /\ GrantedIsStored

\* The proposal id of an admitted submission is the one derived from its target.
LEMMA AdmittedIdentity ==
  ASSUME NEW s \in Submissions, Admitted(s)
  PROVE  /\ TargetKey(s) = <<s.target.kind, s.target.id>>
         /\ s.proposal.id = DeriveExpectedProposalId(TargetKey(s)[1], TargetKey(s)[2])
         /\ s.proposal.amount = s.target.amount
  BY DEF Admitted, Authentic, ProposalIdentity, FinancialIntegrity, TargetKey

\* Distinct targets have distinct proposal ids.
LEMMA IdsAreInjective ==
  ASSUME NEW k \in Targets, NEW l \in Targets,
         DeriveExpectedProposalId(k[1], k[2]) = DeriveExpectedProposalId(l[1], l[2])
  PROVE  k = l
  BY DEF Targets, TargetKey, DeriveExpectedProposalId

\* A proposal not decided yet is for a target not decided yet.
LEMMA FreshTarget ==
  ASSUME StoreInvariant, NEW s \in Submissions, Fresh(s)
  PROVE  targetStore[TargetKey(s)] = NoEntry
<1>1. primary[s.proposal.id] = NoDecision
  BY DEF Fresh, ExistingDecision
<1>2. s.proposal.id = DeriveExpectedProposalId(TargetKey(s)[1], TargetKey(s)[2])
  BY AdmittedIdentity DEF Fresh
<1>. SUFFICES ASSUME targetStore[TargetKey(s)] # NoEntry PROVE FALSE
  OBVIOUS
<1>3. targetStore[TargetKey(s)] \in Entries
  BY SubmissionFacts DEF StoreInvariant, GatewayTypeOK
<1>4. primary[s.proposal.id] = targetStore[TargetKey(s)].decision
  BY <1>2, SubmissionFacts DEF StoreInvariant, DecisionsAreRooted
<1>. QED
  BY <1>1, <1>3, <1>4 DEF Entries, StoredDecisions, NoDecision

\* A replayed proposal carries the terms its target was decided for.
LEMMA ReplayedTerms ==
  ASSUME StoreInvariant, NEW s \in Submissions, ReplayDecision(s)
  PROVE  LET entry == targetStore[TargetKey(s)] IN
         /\ entry \in Entries
         /\ ExistingDecision(s) = entry.decision
         /\ TermsOf(s) = <<entry.action, entry.amount>>
<1>1. s.proposal.id = DeriveExpectedProposalId(TargetKey(s)[1], TargetKey(s)[2])
  BY AdmittedIdentity DEF ReplayDecision
<1>2. primary[s.proposal.id] # NoDecision
  BY DEF ReplayDecision, ExistingDecision
<1>3. targetStore[TargetKey(s)] # NoEntry
  BY <1>1, <1>2, SubmissionFacts DEF StoreInvariant, DecisionsAreRooted
<1>4. primary[s.proposal.id] = targetStore[TargetKey(s)].decision
  BY <1>1, <1>3, SubmissionFacts DEF StoreInvariant, DecisionsAreRooted
<1>5. TermsOf(s) = <<targetStore[TargetKey(s)].action, targetStore[TargetKey(s)].amount>>
  BY <1>2, <1>3, AdmittedIdentity
     DEF ReplayDecision, Conflicting, Altered, TermsOf, ExistingDecision
<1>. QED
  BY <1>3, <1>4, <1>5, SubmissionFacts DEF StoreInvariant, GatewayTypeOK, ExistingDecision

\* A step that leaves the store alone and only appends results that agree with it.
LEMMA StorePreserved ==
  ASSUME StoreInvariant, GatewayTypeOK', NEW r \in Results, RecordAudit(r), UNCHANGED store,
         r.eligible => LET entry == targetStore[TargetKey(r.input)] IN
           entry.decision = "APPROVED" /\ TermsOf(r.input) = <<entry.action, entry.amount>>,
         r.decision = "APPROVED" /\ ~r.replay => r.eligible
  PROVE  StoreInvariant'
<1>1. /\ Evaluations' = Evaluations \cup {Len(audit) + 1}
      /\ \A i \in Evaluations : i \in Evaluations' /\ audit'[i] = audit[i]
      /\ audit'[Len(audit) + 1] = r
  BY AuditStep DEF StoreInvariant
<1>2. DecisionsAreRooted'
  BY <1>1 DEF StoreInvariant, DecisionsAreRooted, store, KeyAt, Input
<1>3. GrantedIsStored'
  BY <1>1 DEF StoreInvariant, GrantedIsStored, FreshApproval, store, KeyAt, Input
<1>. QED
  BY <1>2, <1>3 DEF StoreInvariant

\* Evaluations are of submissions.
LEMMA EvaluationInput ==
  ASSUME GatewayTypeOK, NEW i \in Evaluations
  PROVE  audit[i] \in Results /\ Input(i) \in Submissions
<1>1. audit[i] \in Results
  BY DEF GatewayTypeOK, Evaluations
<1>. QED
  BY <1>1 DEF Results, Input

\* A decision is stored with its result.
LEMMA StoreDecided ==
  ASSUME StoreInvariant, GatewayTypeOK', NEW s \in Submissions,
         NEW d \in StoredDecisions, Decided(s, d)
  PROVE  StoreInvariant'
<1>. DEFINE r   == Result(s, d, d = "APPROVED", FALSE)
            key == TargetKey(s)
            new == [proposal |-> s.proposal.id, action |-> s.proposal.action,
                    amount |-> s.target.amount, decision |-> d]
<1>0. GatewayTypeOK /\ r \in Results
  BY ResultType DEF StoreInvariant, Decisions
<1>n. PICK n : n = Len(audit) + 1
  OBVIOUS
<1>1. /\ Evaluations' = Evaluations \cup {n}
      /\ \A i \in Evaluations : i \in Evaluations' /\ audit'[i] = audit[i]
      /\ audit'[n] = r
  BY <1>0, <1>n, AuditStep DEF Decided
<1>2. /\ primary' = [primary EXCEPT ![s.proposal.id] = d]
      /\ targetStore' = [targetStore EXCEPT ![key] = new]
      /\ s.proposal.id = DeriveExpectedProposalId(key[1], key[2])
      /\ targetStore[key] = NoEntry
      /\ key \in Targets /\ s.proposal.id \in ProposalIds
      /\ primary \in [ProposalIds -> StoredDecisions \cup {NoDecision}]
      /\ targetStore \in [Targets -> Entries \cup {NoEntry}]
  BY AdmittedIdentity, FreshTarget, SubmissionFacts
     DEF Decided, Fresh, RecordDecision, StoreInvariant, GatewayTypeOK
<1>3. new # NoEntry
  BY DEF NoEntry, StoredDecisions, NoDecision
<1>4. /\ r.input = s /\ r.decision = d /\ r.eligible = (d = "APPROVED") /\ r.replay = FALSE
      /\ new.action = s.proposal.action /\ new.amount = s.target.amount
      /\ new.decision = d /\ new.proposal = s.proposal.id
  BY DEF Result
<1>. HIDE DEF r, key, new
<1>5. DecisionsAreRooted'
  <2>. SUFFICES ASSUME NEW k \in Targets
                PROVE  LET entry == targetStore'[k]
                           id    == DeriveExpectedProposalId(k[1], k[2]) IN
                       IF entry = NoEntry
                       THEN id \in ProposalIds => primary'[id] = NoDecision
                       ELSE /\ entry.proposal = id
                            /\ primary'[id] = entry.decision
                            /\ \E i \in Evaluations' :
                                 /\ KeyAt(i)' = k
                                 /\ TermsOf(Input(i))' = <<entry.action, entry.amount>>
                                 /\ audit'[i].decision = entry.decision /\ ~audit'[i].replay
    BY DEF DecisionsAreRooted
  <2>1. CASE k = key
    <3>1. targetStore'[k] = new /\ primary'[s.proposal.id] = d
      BY <1>2, <2>1
    <3>2. n \in Evaluations'
      BY <1>1
    <3>3. KeyAt(n)' = k /\ TermsOf(Input(n))' = <<new.action, new.amount>>
      BY <1>1, <1>4, <2>1 DEF KeyAt, Input, TermsOf, TargetKey, key
    <3>. QED
      BY <1>1, <1>2, <1>3, <1>4, <2>1, <3>1, <3>2, <3>3
  <2>2. CASE k # key
    <3>1. DeriveExpectedProposalId(k[1], k[2]) # s.proposal.id
      BY <1>2, <2>2, IdsAreInjective
    <3>2. targetStore'[k] = targetStore[k]
      BY <1>2, <2>2
    <3>3. DeriveExpectedProposalId(k[1], k[2]) \in ProposalIds =>
            primary'[DeriveExpectedProposalId(k[1], k[2])]
              = primary[DeriveExpectedProposalId(k[1], k[2])]
      BY <1>2, <3>1
    <3>4. CASE targetStore[k] = NoEntry
      BY <3>2, <3>3, <3>4 DEF StoreInvariant, DecisionsAreRooted
    <3>5. CASE targetStore[k] # NoEntry
      <4>1. targetStore[k] \in Entries
        BY <1>2, <3>5
      <4>2. /\ targetStore[k].proposal = DeriveExpectedProposalId(k[1], k[2])
            /\ primary[DeriveExpectedProposalId(k[1], k[2])] = targetStore[k].decision
        BY <3>5 DEF StoreInvariant, DecisionsAreRooted
      <4>3. DeriveExpectedProposalId(k[1], k[2]) \in ProposalIds
        BY <4>1, <4>2 DEF Entries
      <4>4. PICK i \in Evaluations :
              /\ KeyAt(i) = k
              /\ TermsOf(Input(i)) = <<targetStore[k].action, targetStore[k].amount>>
              /\ audit[i].decision = targetStore[k].decision /\ ~audit[i].replay
        BY <3>5 DEF StoreInvariant, DecisionsAreRooted
      <4>5. KeyAt(i)' = KeyAt(i) /\ TermsOf(Input(i))' = TermsOf(Input(i))
        BY <1>1, <4>4 DEF KeyAt, Input, TermsOf, TargetKey
      <4>. QED
        BY <1>1, <3>2, <3>3, <3>5, <4>2, <4>3, <4>4, <4>5
    <3>. QED
      BY <3>4, <3>5
  <2>. QED
    BY <2>1, <2>2
<1>6. GrantedIsStored'
  <2>1. \A i \in Evaluations : audit[i].eligible =>
          KeyAt(i) # key /\ KeyAt(i) \in Targets
    <3>. SUFFICES ASSUME NEW i \in Evaluations, audit[i].eligible
                  PROVE  KeyAt(i) # key /\ KeyAt(i) \in Targets
      OBVIOUS
    <3>1. Input(i) \in Submissions
      BY EvaluationInput DEF StoreInvariant
    <3>2. targetStore[KeyAt(i)].decision = "APPROVED"
      BY DEF StoreInvariant, GrantedIsStored
    <3>. QED
      BY <1>2, <3>1, <3>2, SubmissionFacts DEF KeyAt, NoEntry, NoDecision
  <2>2. \A i \in Evaluations : audit[i].eligible => targetStore'[KeyAt(i)] = targetStore[KeyAt(i)]
    BY <1>2, <2>1
  <2>3. KeyAt(n)' = key /\ TermsOf(Input(n))' = <<new.action, new.amount>>
    BY <1>1, <1>4 DEF KeyAt, Input, TermsOf, TargetKey, key
  <2>4. targetStore'[key] = new /\ new.decision = d
    BY <1>2, <1>4
  <2>5. \A i \in Evaluations : KeyAt(i)' = KeyAt(i) /\ TermsOf(Input(i))' = TermsOf(Input(i))
    BY <1>1 DEF KeyAt, Input, TermsOf, TargetKey
  <2>6. \A i \in Evaluations' : audit'[i].eligible =>
          LET entry == targetStore'[KeyAt(i)'] IN
          entry.decision = "APPROVED" /\ TermsOf(Input(i))' = <<entry.action, entry.amount>>
    <3>. SUFFICES ASSUME NEW i \in Evaluations', audit'[i].eligible
                  PROVE  LET entry == targetStore'[KeyAt(i)'] IN
                         /\ entry.decision = "APPROVED"
                         /\ TermsOf(Input(i))' = <<entry.action, entry.amount>>
      OBVIOUS
    <3>1. CASE i \in Evaluations
      BY <1>1, <2>2, <2>5, <3>1 DEF StoreInvariant, GrantedIsStored
    <3>2. CASE i = n
      BY <1>1, <1>4, <2>3, <2>4, <3>2
    <3>. QED
      BY <1>1, <3>1, <3>2
  <2>7. \A i \in Evaluations' : FreshApproval(i)' => audit'[i].eligible
    BY <1>1, <1>4 DEF StoreInvariant, GrantedIsStored, FreshApproval
  <2>. QED
    BY <2>6, <2>7 DEF GrantedIsStored
<1>. QED
  BY <1>5, <1>6 DEF StoreInvariant

\* The store invariant is inductive.
LEMMA StoreInvariantStep ==
  ASSUME StoreInvariant, GatewayTypeOK', [Next]_vars
  PROVE  StoreInvariant'
<1>1. CASE UNCHANGED <<store, audit>>
  BY <1>1 DEF StoreInvariant, DecisionsAreRooted, GrantedIsStored, FreshApproval,
              Evaluations, KeyAt, Input, store
<1>2. ASSUME NEW s \in Submissions, Passed(s) PROVE StoreInvariant'
  <2>1. PICK d \in Decisions \ {"APPROVED"} : RecordAudit(Result(s, d, FALSE, FALSE))
    BY <1>2 DEF Passed
  <2>2. Result(s, d, FALSE, FALSE) \in Results
    BY ResultType DEF StoreInvariant
  <2>. QED
    BY <1>2, <2>1, <2>2, StorePreserved DEF Passed, Result
<1>3. ASSUME NEW s \in Submissions, ReplayDecision(s) PROVE StoreInvariant'
  <2>. DEFINE existing == ExistingDecision(s)
              entry == targetStore[TargetKey(s)]
              r == Result(s, existing, existing = "APPROVED", TRUE)
  <2>1. entry \in Entries /\ existing = entry.decision
        /\ TermsOf(s) = <<entry.action, entry.amount>>
    BY <1>3, ReplayedTerms
  <2>2. r \in Results
    BY <2>1, ResultType DEF StoreInvariant, Entries, Decisions
  <2>3. RecordAudit(r) /\ UNCHANGED store
    BY <1>3 DEF ReplayDecision
  <2>4. r.input = s /\ r.eligible = (existing = "APPROVED") /\ r.replay = TRUE
    BY DEF Result
  <2>. QED
    BY <2>1, <2>2, <2>3, <2>4, StorePreserved
<1>4. ASSUME NEW s \in Submissions, NEW d \in StoredDecisions, Decided(s, d)
      PROVE  StoreInvariant'
  BY <1>4, StoreDecided
<1>. QED
  BY <1>1, <1>2, <1>3, <1>4, GatewaySteps

LEMMA StoreInvariantInit == Init => StoreInvariant
<1>. SUFFICES ASSUME Init PROVE StoreInvariant
  OBVIOUS
<1>1. GatewayTypeOK
  BY GatewayInitTypes
<1>2. Evaluations = {}
  BY DEF Init, Evaluations
<1>. QED
  BY <1>1, <1>2 DEF Init, StoreInvariant, DecisionsAreRooted, GrantedIsStored

THEOREM StoreInvariantHolds == Spec => []StoreInvariant
<1>1. Spec => []GatewayTypeOK
  BY GatewayTypeCorrect
<1>2. StoreInvariant /\ GatewayTypeOK' /\ [Next]_vars => StoreInvariant'
  BY StoreInvariantStep
<1>. QED
  BY <1>1, <1>2, StoreInvariantInit, PTL DEF Spec

\* A target is decided in both stores or in neither, by a proposal of its own.
THEOREM StoredDecisionsAreRooted == Spec => []DecisionsAreRooted
<1>1. StoreInvariant => DecisionsAreRooted
  BY DEF StoreInvariant
<1>. QED
  BY <1>1, StoreInvariantHolds, PTL

------------------------------------------------------------------------------
(* The gateway keeps the ledger *)

\* What the refinement mapping of Ledger substitutes.
Voucher(i) == [number |-> i, target |-> KeyAt(i), terms |-> TermsOf(Input(i))]
Vouchers == {Voucher(i) : i \in {j \in Evaluations : FreshApproval(j)}}
Honoured == {<<KeyAt(i), TermsOf(Input(i))>> : i \in {j \in Evaluations : audit[j].eligible}}

\* Recording a result issues a voucher if it is a fresh approval, honours one if it
\* authorises, and nothing otherwise.
LEMMA LedgerStep ==
  ASSUME GatewayTypeOK, NEW s \in Submissions, NEW d \in Decisions, NEW e \in BOOLEAN,
         NEW p \in BOOLEAN, RecordAudit(Result(s, d, e, p)), NEW n, n = Len(audit) + 1
  PROVE  /\ n \in 1 .. MaxEvaluations
         /\ Honoured' = IF e THEN Honoured \cup {<<TargetKey(s), TermsOf(s)>>} ELSE Honoured
         /\ Vouchers' = IF d = "APPROVED" /\ ~p
                        THEN Vouchers \cup {[number |-> n, target |-> TargetKey(s),
                                             terms |-> TermsOf(s)]}
                        ELSE Vouchers
<1>. DEFINE r == Result(s, d, e, p)
<1>1. /\ Evaluations' = Evaluations \cup {n} /\ n \in 1 .. MaxEvaluations
      /\ \A i \in Evaluations : i \in Evaluations' /\ audit'[i] = audit[i]
      /\ audit'[n] = r
  BY AuditStep, ResultType
<1>2. r.input = s /\ r.eligible = e /\ r.decision = d /\ r.replay = p
  BY DEF Result
<1>. HIDE DEF r
<1>3. n \notin Evaluations
  BY DEF Evaluations, GatewayTypeOK
<1>4. /\ {j \in Evaluations' : audit'[j].eligible} =
           {j \in Evaluations : audit[j].eligible} \cup (IF e THEN {n} ELSE {})
      /\ {j \in Evaluations' : FreshApproval(j)'} =
           {j \in Evaluations : FreshApproval(j)} \cup
             (IF d = "APPROVED" /\ ~p THEN {n} ELSE {})
  BY <1>1, <1>2, <1>3 DEF FreshApproval
<1>5. \A i \in Evaluations : KeyAt(i)' = KeyAt(i) /\ TermsOf(Input(i))' = TermsOf(Input(i))
  BY <1>1 DEF KeyAt, Input, TermsOf, TargetKey
<1>6. KeyAt(n)' = TargetKey(s) /\ TermsOf(Input(n))' = TermsOf(s)
  BY <1>1, <1>2 DEF KeyAt, Input, TermsOf, TargetKey
<1>7. Honoured' = IF e THEN Honoured \cup {<<TargetKey(s), TermsOf(s)>>} ELSE Honoured
  <2>1. Honoured' = {<<KeyAt(i)', TermsOf(Input(i))'>> :
                      i \in {j \in Evaluations' : audit'[j].eligible}}
    BY DEF Honoured
  <2>2. CASE e
    BY <1>4, <1>5, <1>6, <2>1, <2>2 DEF Honoured
  <2>3. CASE ~e
    BY <1>4, <1>5, <2>1, <2>3 DEF Honoured
  <2>. QED
    BY <2>2, <2>3
<1>8. Vouchers' = IF d = "APPROVED" /\ ~p
                  THEN Vouchers \cup {[number |-> n, target |-> TargetKey(s),
                                       terms |-> TermsOf(s)]}
                  ELSE Vouchers
  <2>1. Vouchers' = {Voucher(i)' : i \in {j \in Evaluations' : FreshApproval(j)'}}
    BY DEF Vouchers
  <2>2. \A i \in Evaluations : Voucher(i)' = Voucher(i)
    BY <1>5 DEF Voucher
  <2>3. Voucher(n)' = [number |-> n, target |-> TargetKey(s), terms |-> TermsOf(s)]
    BY <1>6 DEF Voucher
  <2>4. CASE d = "APPROVED" /\ ~p
    BY <1>4, <2>1, <2>2, <2>3, <2>4 DEF Vouchers
  <2>5. CASE ~(d = "APPROVED" /\ ~p)
    BY <1>4, <2>1, <2>2, <2>5 DEF Vouchers
  <2>. QED
    BY <2>4, <2>5
<1>. QED
  BY <1>1, <1>7, <1>8

\* A target that is not decided has no voucher.
LEMMA UndecidedHasNoVoucher ==
  ASSUME StoreInvariant, NEW k \in Targets, targetStore[k] = NoEntry
  PROVE  \A v \in Vouchers : v.target # k
<1>1. ASSUME NEW i \in Evaluations, FreshApproval(i) PROVE KeyAt(i) # k
  <2>1. targetStore[KeyAt(i)].decision = "APPROVED"
    BY <1>1 DEF StoreInvariant, GrantedIsStored
  <2>2. NoEntry.decision # "APPROVED"
    BY DEF NoEntry, NoDecision
  <2>. QED
    BY <2>1, <2>2
<1>. QED
  BY <1>1 DEF Vouchers, Voucher

\* Whatever is proposed for a target, it is authorised afresh once at most, and all that
\* is authorised of it carries the action and amount of that once: the gateway
\* implements the ledger.
THEOREM GatewayKeepsLedger == Spec => KeepsLedger
<1>1. Init => Ledger!LedgerInit
  <2>. SUFFICES ASSUME Init PROVE Ledger!LedgerInit
    OBVIOUS
  <2>1. Evaluations = {}
    BY DEF Init, Evaluations
  <2>. QED
    BY <2>1 DEF Init, Ledger!LedgerInit
<1>2. StoreInvariant /\ [Next]_vars => [Ledger!LedgerNext]_(Ledger!ledger)
  <2>. SUFFICES ASSUME StoreInvariant, [Next]_vars
                PROVE  \/ Vouchers' = Vouchers /\ Honoured' = Honoured
                       \/ \E n \in 1 .. MaxEvaluations, k \in Targets, terms \in AllTerms :
                            /\ \A v \in Vouchers : v.target # k
                            /\ Vouchers' = Vouchers \cup
                                 {[number |-> n, target |-> k, terms |-> terms]}
                            /\ Honoured' = Honoured \cup {<<k, terms>>}
    BY DEF Vouchers, Voucher, Honoured, Ledger!LedgerNext, Ledger!ledger, Ledger!Clear
  <2>1. CASE UNCHANGED <<store, audit>>
    BY <2>1 DEF Vouchers, Voucher, Honoured, Evaluations, FreshApproval, KeyAt, Input
  <2>2. ASSUME NEW s \in Submissions, Passed(s)
        PROVE  Vouchers' = Vouchers /\ Honoured' = Honoured
    BY <2>2, LedgerStep DEF Passed, StoreInvariant
  <2>3. ASSUME NEW s \in Submissions, ReplayDecision(s)
        PROVE  Vouchers' = Vouchers /\ Honoured' = Honoured
    <3>. DEFINE entry == targetStore[TargetKey(s)]
                existing == ExistingDecision(s)
    <3>1. /\ entry \in Entries /\ existing = entry.decision
          /\ TermsOf(s) = <<entry.action, entry.amount>>
      BY <2>3, ReplayedTerms
    <3>2. existing \in Decisions
      BY <3>1 DEF Entries, Decisions
    <3>3. /\ Vouchers' = Vouchers
          /\ Honoured' = IF existing = "APPROVED"
                         THEN Honoured \cup {<<TargetKey(s), TermsOf(s)>>} ELSE Honoured
      BY <2>3, <3>2, LedgerStep DEF ReplayDecision, StoreInvariant
    <3>4. existing = "APPROVED" => <<TargetKey(s), TermsOf(s)>> \in Honoured
      <4>. SUFFICES ASSUME existing = "APPROVED"
                    PROVE  <<TargetKey(s), TermsOf(s)>> \in Honoured
        OBVIOUS
      <4>1. entry # NoEntry /\ TargetKey(s) \in Targets
        BY <3>1, SubmissionFacts DEF Entries, NoEntry, StoredDecisions, NoDecision
      <4>2. PICK i \in Evaluations :
              /\ KeyAt(i) = TargetKey(s) /\ TermsOf(Input(i)) = <<entry.action, entry.amount>>
              /\ audit[i].decision = entry.decision /\ ~audit[i].replay
        BY <4>1 DEF StoreInvariant, DecisionsAreRooted
      <4>3. audit[i].eligible
        BY <3>1, <4>2 DEF StoreInvariant, GrantedIsStored, FreshApproval
      <4>. QED
        BY <3>1, <4>2, <4>3 DEF Honoured
    <3>. QED
      BY <3>3, <3>4
  <2>4. ASSUME NEW s \in Submissions, NEW d \in StoredDecisions, Decided(s, d)
        PROVE  \/ Vouchers' = Vouchers /\ Honoured' = Honoured
               \/ \E n \in 1 .. MaxEvaluations :
                    /\ \A v \in Vouchers : v.target # TargetKey(s)
                    /\ Vouchers' = Vouchers \cup
                         {[number |-> n, target |-> TargetKey(s), terms |-> TermsOf(s)]}
                    /\ Honoured' = Honoured \cup {<<TargetKey(s), TermsOf(s)>>}
    <3>1. PICK n : n = Len(audit) + 1
      OBVIOUS
    <3>2. /\ n \in 1 .. MaxEvaluations
          /\ Honoured' = IF d = "APPROVED"
                         THEN Honoured \cup {<<TargetKey(s), TermsOf(s)>>} ELSE Honoured
          /\ Vouchers' = IF d = "APPROVED"
                         THEN Vouchers \cup {[number |-> n, target |-> TargetKey(s),
                                              terms |-> TermsOf(s)]}
                         ELSE Vouchers
      BY <2>4, <3>1, LedgerStep DEF Decided, StoreInvariant, Decisions
    <3>3. \A v \in Vouchers : v.target # TargetKey(s)
      BY <2>4, FreshTarget, SubmissionFacts, UndecidedHasNoVoucher DEF Decided
    <3>. QED
      BY <3>2, <3>3
  <2>5. \A s \in Submissions : TargetKey(s) \in Targets /\ TermsOf(s) \in AllTerms
    BY SubmissionFacts
  <2>. QED
    BY <2>1, <2>2, <2>3, <2>4, <2>5, GatewaySteps
<1>. QED
  BY <1>1, <1>2, StoreInvariantHolds, PTL DEF Spec, KeepsLedger, Ledger!LedgerSpec

------------------------------------------------------------------------------
(* Suspension *)

\* Nothing is authorised while the kill switch is active, and its corruption stays.
THEOREM SuspensionIsKept == Spec => SuspensionHolds
<1>1. GatewayTypeOK /\ [Next]_vars =>
        [/\ corrupted => corrupted'
         /\ Suspended /\ audit' # audit => ~audit'[Len(audit')].eligible]_vars
  <2>. SUFFICES ASSUME GatewayTypeOK, [Next]_vars
                PROVE  /\ corrupted => corrupted'
                       /\ Suspended /\ audit' # audit => ~audit'[Len(audit')].eligible
    OBVIOUS
  <2>1. ASSUME NEW s \in Submissions, EvaluateProposal(s)
        PROVE  /\ corrupted' = corrupted
               /\ Suspended => ~audit'[Len(audit')].eligible
    <3>1. corrupted' = corrupted
      BY <2>1 DEF EvaluateProposal, Suspend, RejectInvalid, RejectConflict, ReplayDecision,
                  Block, RequestReview, Throttle, Approve, killSwitch
    <3>2. ASSUME Suspended PROVE ~audit'[Len(audit')].eligible
      <4>1. Suspend(s)
        BY <2>1, <3>2 DEF EvaluateProposal, RejectInvalid, RejectConflict, ReplayDecision,
                  Block, RequestReview, Throttle, Approve, Admitted, Fresh, Cleared
      <4>2. Result(s, "KILL_SWITCH_ACTIVE", FALSE, FALSE) \in Results
        BY ResultType DEF Decisions
      <4>3. audit'[Len(audit')] = Result(s, "KILL_SWITCH_ACTIVE", FALSE, FALSE)
        BY <4>1, <4>2, AuditStep DEF Suspend
      <4>. QED
        BY <4>3 DEF Result
    <3>. QED
      BY <3>1, <3>2
  <2>2. CASE Activate \/ Deactivate \/ SetCorrupted \/ Tick \/ UNCHANGED vars
    BY <2>2 DEF Activate, Deactivate, SetCorrupted, Tick, vars, killSwitch
  <2>. QED
    BY <2>1, <2>2 DEF Next
<1>. QED
  BY <1>1, GatewayTypeCorrect, PTL DEF Spec, SuspensionHolds

------------------------------------------------------------------------------
(* Human approvals *)

\* Evaluation j vouches for a high-value result r that authorises.
Vouches(j, r) ==
  /\ FreshApproval(j)
  /\ KeyAt(j) = TargetKey(r.input) /\ TermsOf(Input(j)) = TermsOf(r.input)
  /\ Input(j).approval # NoApproval
  /\ Input(j).approval.proposal =
       DeriveExpectedProposalId(TargetKey(r.input)[1], TargetKey(r.input)[2])
  /\ Input(j).approval.approved /\ Input(j).approval.signed

HighValueResult(r) == r.eligible /\ r.input.target.amount >= HighValue

LEMMA HighValueRestated ==
  HighValueWasApproved <=>
    \A i \in Evaluations : HighValueResult(audit[i]) => \E j \in 1 .. i : Vouches(j, audit[i])
  BY DEF HighValueWasApproved, HighValueResult, Vouches, KeyAt, Input

\* A recorded result that authorises nothing, or that an earlier evaluation or the
\* result itself vouches for, keeps the property.
LEMMA VouchedStep ==
  ASSUME GatewayTypeOK, HighValueWasApproved, NEW r \in Results, RecordAudit(r),
         NEW n, n = Len(audit) + 1,
         HighValueResult(r) => (\E j \in Evaluations : Vouches(j, r)) \/ Vouches(n, r)'
  PROVE  HighValueWasApproved'
<1>1. /\ Evaluations' = Evaluations \cup {n} /\ Len(audit) \in Nat
      /\ \A i \in Evaluations : i \in Evaluations' /\ audit'[i] = audit[i]
      /\ audit'[n] = r
  BY AuditStep
<1>2. \A j \in Evaluations : \A q : Vouches(j, q) => Vouches(j, q)'
  BY <1>1 DEF Vouches, FreshApproval, KeyAt, Input
<1>. SUFFICES ASSUME NEW i \in Evaluations', NEW q, q = audit'[i], HighValueResult(q)
              PROVE  \E j \in 1 .. i : Vouches(j, q)'
  BY DEF HighValueWasApproved, HighValueResult, Vouches, KeyAt, Input
<1>3. CASE i \in Evaluations
  <2>1. PICK j \in 1 .. i : Vouches(j, audit[i])
    BY <1>1, <1>3, HighValueRestated DEF HighValueResult
  <2>2. j \in Evaluations
    BY <1>1, <1>3, <2>1 DEF Evaluations
  <2>. QED
    BY <1>1, <1>2, <1>3, <2>1, <2>2
<1>4. CASE i = n
  <2>1. CASE \E j \in Evaluations : Vouches(j, r)
    <3>1. PICK j \in Evaluations : Vouches(j, r)
      BY <2>1
    <3>2. j \in 1 .. i
      BY <1>1, <1>4 DEF Evaluations
    <3>. QED
      BY <1>1, <1>2, <1>4, <3>1, <3>2
  <2>2. CASE Vouches(n, r)'
    BY <1>1, <1>4, <2>2
  <2>. QED
    BY <1>1, <1>4, <2>1, <2>2
<1>. QED
  BY <1>1, <1>3, <1>4

LEMMA HighValueStep ==
  ASSUME StoreInvariant, HighValueWasApproved, [Next]_vars
  PROVE  HighValueWasApproved'
<1>n. PICK n : n = Len(audit) + 1
  OBVIOUS
<1>1. CASE UNCHANGED <<store, audit>>
  BY <1>1 DEF HighValueWasApproved, FreshApproval, Evaluations, KeyAt, Input
<1>2. ASSUME NEW s \in Submissions, Passed(s) PROVE HighValueWasApproved'
  <2>1. PICK d \in Decisions \ {"APPROVED"} : RecordAudit(Result(s, d, FALSE, FALSE))
    BY <1>2 DEF Passed
  <2>2. Result(s, d, FALSE, FALSE) \in Results /\ ~HighValueResult(Result(s, d, FALSE, FALSE))
    BY ResultType DEF StoreInvariant, HighValueResult, Result
  <2>. QED
    BY <1>n, <2>1, <2>2, VouchedStep DEF StoreInvariant
<1>3. ASSUME NEW s \in Submissions, ReplayDecision(s) PROVE HighValueWasApproved'
  <2>. DEFINE entry == targetStore[TargetKey(s)]
              existing == ExistingDecision(s)
  <2>r. PICK r : r = Result(s, existing, existing = "APPROVED", TRUE)
    OBVIOUS
  <2>1. /\ entry \in Entries /\ existing = entry.decision
        /\ TermsOf(s) = <<entry.action, entry.amount>>
    BY <1>3, ReplayedTerms
  <2>2. r \in Results
    BY <2>1, <2>r, ResultType DEF StoreInvariant, Entries, Decisions
  <2>3. r.input = s /\ r.eligible = (existing = "APPROVED")
    BY <2>r DEF Result
  <2>4. ASSUME HighValueResult(r) PROVE \E j \in Evaluations : Vouches(j, r)
    <3>1. existing = "APPROVED" /\ s.target.amount >= HighValue
      BY <2>3, <2>4 DEF HighValueResult
    <3>2. entry # NoEntry /\ TargetKey(s) \in Targets
      BY <2>1, SubmissionFacts DEF Entries, NoEntry, StoredDecisions, NoDecision
    <3>3. PICK i \in Evaluations :
            /\ KeyAt(i) = TargetKey(s) /\ TermsOf(Input(i)) = <<entry.action, entry.amount>>
            /\ audit[i].decision = entry.decision /\ ~audit[i].replay
      BY <3>2 DEF StoreInvariant, DecisionsAreRooted
    <3>4. TargetKey(audit[i].input) = TargetKey(s) /\ TermsOf(audit[i].input) = TermsOf(s)
      BY <2>1, <3>3 DEF KeyAt, Input
    <3>5. HighValueResult(audit[i])
      <4>1. audit[i].eligible
        BY <2>1, <3>1, <3>3 DEF StoreInvariant, GrantedIsStored, FreshApproval
      <4>2. audit[i].input.target.amount = s.target.amount
        BY <3>4 DEF TermsOf
      <4>. QED
        BY <3>1, <4>1, <4>2 DEF HighValueResult
    <3>6. PICK j \in 1 .. i : Vouches(j, audit[i])
      BY <3>5, HighValueRestated
    <3>7. j \in Evaluations
      BY <3>3, <3>6 DEF Evaluations, StoreInvariant, GatewayTypeOK
    <3>8. Vouches(j, r)
      BY <2>3, <3>4, <3>6 DEF Vouches
    <3>. QED
      BY <3>7, <3>8
  <2>. QED
    BY <1>n, <1>3, <2>r, <2>2, <2>4, VouchedStep DEF ReplayDecision, StoreInvariant
<1>4. ASSUME NEW s \in Submissions, NEW d \in StoredDecisions, Decided(s, d)
      PROVE  HighValueWasApproved'
  <2>r. PICK r : r = Result(s, d, d = "APPROVED", FALSE)
    OBVIOUS
  <2>2. r \in Results
    BY <2>r, ResultType DEF StoreInvariant, Decisions
  <2>3. /\ r.input = s /\ r.eligible = (d = "APPROVED") /\ r.decision = d /\ r.replay = FALSE
    BY <2>r DEF Result
  <2>4. ASSUME HighValueResult(r) PROVE Vouches(n, r)'
    <3>1. d = "APPROVED" /\ s.target.amount >= HighValue
      BY <2>3, <2>4 DEF HighValueResult
    <3>2. ValidApproval(s)
      BY <1>4, <3>1 DEF Decided, NeedsReview, RequiresApproval
    <3>3. s.proposal.id = DeriveExpectedProposalId(TargetKey(s)[1], TargetKey(s)[2])
      BY <1>4, AdmittedIdentity DEF Decided, Fresh
    <3>4. audit'[n] = r
      BY <1>4, <1>n, <2>r, <2>2, AuditStep DEF Decided, StoreInvariant
    <3>. QED
      BY <2>3, <3>1, <3>2, <3>3, <3>4 DEF Vouches, FreshApproval, KeyAt, Input, ValidApproval
  <2>. QED
    BY <1>4, <1>n, <2>r, <2>2, <2>4, VouchedStep DEF Decided, StoreInvariant
<1>. QED
  BY <1>1, <1>2, <1>3, <1>4, GatewaySteps

\* No high-value amount is authorised, not even by replay, unless a human approved
\* this proposal for this target, action and amount.
THEOREM HighValueNeedsAHuman == Spec => []HighValueWasApproved
<1>1. Init => HighValueWasApproved
  BY DEF Init, HighValueWasApproved, Evaluations
<1>2. StoreInvariant /\ HighValueWasApproved /\ [Next]_vars => HighValueWasApproved'
  BY HighValueStep
<1>. QED
  BY <1>1, <1>2, StoreInvariantHolds, PTL DEF Spec

------------------------------------------------------------------------------
(* The rate limiter *)

\* The approvals of a target, or of a customer, that are in the window now, and the
\* attempts that record them.
ApprovedFor(k) ==
  {j \in Evaluations : FreshApproval(j) /\ KeyAt(j) = k /\ audit[j].time >= now - Window}
ApprovedOf(c) ==
  {j \in Evaluations : FreshApproval(j) /\ Input(j).target.customer = c
                         /\ audit[j].time >= now - Window}

Stamp(j)     == [time |-> audit[j].time, evaluation |-> j]
StampsFor(k) == {Stamp(j) : j \in ApprovedFor(k)}
StampsOf(c)  == {Stamp(j) : j \in ApprovedOf(c)}

\* Within the window, the limiter's history is exactly the approvals.
LimiterLedger ==
  /\ \A k \in Targets : Recent(targetTimes[k]) = StampsFor(k)
  /\ \A c \in Customers : Recent(customerTimes[c]) = StampsOf(c)

\* Stamps are as many as the evaluations they stamp.
LEMMA StampsCount ==
  ASSUME GatewayTypeOK, NEW J, J \subseteq Evaluations
  PROVE  Cardinality({Stamp(j) : j \in J}) = Cardinality(J) /\ Cardinality(J) \in Nat
<1>. DEFINE T == {Stamp(j) : j \in J}
            f == [j \in J |-> Stamp(j)]
<1>1. IsFiniteSet(Evaluations)
  BY FS_Interval DEF Evaluations, GatewayTypeOK
<1>2. IsFiniteSet(J)
  BY <1>1, FS_Subset
<1>3. f \in Bijection(J, T)
  <2>1. f \in [J -> T] /\ \A t \in T : \E j \in J : f[j] = t
    OBVIOUS
  <2>2. \A i, j \in J : f[i] = f[j] => i = j
    BY DEF Stamp
  <2>. QED
    BY <2>1, <2>2 DEF Bijection, Injection, Surjection, IsInjective
<1>4. Cardinality(T) = Cardinality(J)
  BY <1>2, <1>3, FS_Bijection DEF ExistsBijection
<1>. QED
  BY <1>2, <1>4, FS_CardinalityType

\* What a recorded result adds to the approvals in the window.
LEMMA StampStep ==
  ASSUME GatewayTypeOK, NEW r \in Results, RecordAudit(r), r.time = now, now' = now,
         NEW n, n = Len(audit) + 1
  PROVE  LET fresh == r.decision = "APPROVED" /\ ~r.replay
             stamp == [time |-> now, evaluation |-> n] IN
         /\ \A k : StampsFor(k)' =
              StampsFor(k) \cup (IF fresh /\ TargetKey(r.input) = k THEN {stamp} ELSE {})
         /\ \A c : StampsOf(c)' =
              StampsOf(c) \cup (IF fresh /\ r.input.target.customer = c THEN {stamp} ELSE {})
<1>. DEFINE fresh == r.decision = "APPROVED" /\ ~r.replay
            stamp == [time |-> now, evaluation |-> n]
<1>1. /\ Evaluations' = Evaluations \cup {n} /\ n \notin Evaluations
      /\ \A i \in Evaluations : i \in Evaluations' /\ audit'[i] = audit[i]
      /\ audit'[n] = r
  BY AuditStep DEF Evaluations
<1>2. /\ \A i \in Evaluations : Stamp(i)' = Stamp(i) /\ KeyAt(i)' = KeyAt(i)
                                /\ Input(i)' = Input(i) /\ FreshApproval(i)' = FreshApproval(i)
      /\ Stamp(n)' = stamp /\ KeyAt(n)' = TargetKey(r.input) /\ Input(n)' = r.input
      /\ FreshApproval(n)' = fresh
  BY <1>1 DEF Stamp, KeyAt, Input, FreshApproval, TargetKey
<1>3. now >= now - Window
  BY GatewayAssumption DEF GatewayTypeOK
<1>4. ASSUME NEW k
      PROVE  ApprovedFor(k)' =
               ApprovedFor(k) \cup (IF fresh /\ TargetKey(r.input) = k THEN {n} ELSE {})
  BY <1>1, <1>2, <1>3 DEF ApprovedFor
<1>5. ASSUME NEW c
      PROVE  ApprovedOf(c)' =
               ApprovedOf(c) \cup (IF fresh /\ r.input.target.customer = c THEN {n} ELSE {})
  BY <1>1, <1>2, <1>3 DEF ApprovedOf
<1>6. ASSUME NEW k
      PROVE  StampsFor(k)' =
               StampsFor(k) \cup (IF fresh /\ TargetKey(r.input) = k THEN {stamp} ELSE {})
  <2>1. StampsFor(k)' = {Stamp(j)' : j \in ApprovedFor(k)'}
    BY DEF StampsFor
  <2>2. \A j \in ApprovedFor(k) : Stamp(j)' = Stamp(j)
    BY <1>2 DEF ApprovedFor
  <2>. QED
    BY <1>2, <1>4, <2>1, <2>2 DEF StampsFor
<1>7. ASSUME NEW c
      PROVE  StampsOf(c)' =
               StampsOf(c) \cup (IF fresh /\ r.input.target.customer = c THEN {stamp} ELSE {})
  <2>1. StampsOf(c)' = {Stamp(j)' : j \in ApprovedOf(c)'}
    BY DEF StampsOf
  <2>2. \A j \in ApprovedOf(c) : Stamp(j)' = Stamp(j)
    BY <1>2 DEF ApprovedOf
  <2>. QED
    BY <1>2, <1>5, <2>1, <2>2 DEF StampsOf
<1>. QED
  BY <1>6, <1>7

\* An evaluation that neither approves nor throttles leaves the limiter alone.
LEMMA QuietEvaluations ==
  ASSUME GatewayTypeOK, NEW s \in Submissions, EvaluateProposal(s)
  PROVE  /\ now' = now
         /\ \/ Throttle(s)
            \/ Approve(s)
            \/ /\ UNCHANGED limiter
               /\ \E d \in Decisions \ {"RATE_LIMITED"}, e, p \in BOOLEAN :
                    RecordAudit(Result(s, d, e, p)) /\ (d = "APPROVED" => p)
<1>1. now' = now
  BY DEF EvaluateProposal, Suspend, RejectInvalid, RejectConflict, ReplayDecision,
         Block, RequestReview, Throttle, Approve
<1>2. CASE Suspend(s) \/ RejectInvalid(s) \/ RejectConflict(s) \/ Block(s) \/ RequestReview(s)
  <2>1. UNCHANGED limiter
    BY <1>2 DEF Suspend, RejectInvalid, RejectConflict, Block, RequestReview
  <2>2. PICK d \in {"KILL_SWITCH_ACTIVE", "INVALID_PROPOSAL", "BLOCKED", "REQUIRES_REVIEW"} :
          RecordAudit(Result(s, d, FALSE, FALSE))
    BY <1>2 DEF Suspend, RejectInvalid, RejectConflict, Block, RequestReview
  <2>3. d \in Decisions \ {"RATE_LIMITED"} /\ d # "APPROVED"
    BY DEF Decisions, StoredDecisions
  <2>. QED
    BY <1>1, <2>1, <2>2, <2>3
<1>3. CASE ReplayDecision(s)
  <2>1. ExistingDecision(s) \in StoredDecisions
    BY <1>3, SubmissionFacts DEF ReplayDecision, ExistingDecision, GatewayTypeOK
  <2>2. ExistingDecision(s) \in Decisions \ {"RATE_LIMITED"}
    BY <2>1 DEF StoredDecisions, Decisions
  <2>. QED
    BY <1>1, <1>3, <2>2 DEF ReplayDecision
<1>. QED
  BY <1>1, <1>2, <1>3 DEF EvaluateProposal

\* The limiter ledger is inductive.
LEMMA LimiterLedgerStep ==
  ASSUME GatewayTypeOK, LimiterLedger, [Next]_vars
  PROVE  LimiterLedger'
<1>n. PICK n : n = Len(audit) + 1
  OBVIOUS
<1>t. /\ targetTimes \in [Targets -> SUBSET Attempts]
      /\ customerTimes \in [Customers -> SUBSET Attempts]
  BY DEF GatewayTypeOK
<1>1. CASE UNCHANGED <<now, limiter, audit>>
  BY <1>1 DEF LimiterLedger, limiter, Recent, StampsFor, StampsOf, ApprovedFor, ApprovedOf,
              Stamp, Evaluations, FreshApproval, KeyAt, Input
<1>2. CASE Tick
  <2>1. /\ UNCHANGED <<limiter, audit>> /\ now \in Int /\ now' \in Int /\ now' >= now
    BY <1>2, GatewayAssumption DEF Tick, GatewayTypeOK
  <2>2. \A j \in Evaluations : audit[j].time \in Int
    BY EvaluationInput DEF Results
  <2>3. \A times \in SUBSET Attempts :
          Recent(times)' = {a \in Recent(times) : a.time >= now' - Window}
    BY <2>1, GatewayAssumption DEF Recent, Attempts
  <2>4. ASSUME NEW k
        PROVE  StampsFor(k)' = {a \in StampsFor(k) : a.time >= now' - Window}
    <3>1. ApprovedFor(k)' = {j \in ApprovedFor(k) : audit[j].time >= now' - Window}
      BY <2>1, <2>2, GatewayAssumption DEF ApprovedFor, Evaluations, FreshApproval, KeyAt, Input
    <3>. QED
      BY <2>1, <3>1 DEF StampsFor, Stamp
  <2>5. ASSUME NEW c
        PROVE  StampsOf(c)' = {a \in StampsOf(c) : a.time >= now' - Window}
    <3>1. ApprovedOf(c)' = {j \in ApprovedOf(c) : audit[j].time >= now' - Window}
      BY <2>1, <2>2, GatewayAssumption DEF ApprovedOf, Evaluations, FreshApproval, KeyAt, Input
    <3>. QED
      BY <2>1, <3>1 DEF StampsOf, Stamp
  <2>6. ASSUME NEW k \in Targets PROVE Recent(targetTimes[k])' = StampsFor(k)'
    BY <1>t, <2>1, <2>3, <2>4 DEF LimiterLedger, limiter, Recent
  <2>7. ASSUME NEW c \in Customers PROVE Recent(customerTimes[c])' = StampsOf(c)'
    BY <1>t, <2>1, <2>3, <2>5 DEF LimiterLedger, limiter, Recent
  <2>. QED
    BY <2>6, <2>7 DEF LimiterLedger
<1>3. ASSUME NEW s \in Submissions, EvaluateProposal(s) PROVE LimiterLedger'
  <2>1. now' = now
    BY <1>3, QuietEvaluations
  <2>2. \A times : Recent(times)' = Recent(times') /\ Recent(Recent(times)) = Recent(times)
    BY <2>1 DEF Recent
  <2>3. ASSUME NEW d \in Decisions, NEW e \in BOOLEAN, NEW p \in BOOLEAN,
               RecordAudit(Result(s, d, e, p)), d = "APPROVED" => p
        PROVE  /\ \A k : StampsFor(k)' = StampsFor(k)
               /\ \A c : StampsOf(c)' = StampsOf(c)
    <3>1. PICK r : r = Result(s, d, e, p)
      OBVIOUS
    <3>2. r \in Results /\ r.time = now /\ r.decision = d /\ r.replay = p
      BY <3>1, ResultType DEF Result
    <3>3. ~(r.decision = "APPROVED" /\ ~r.replay)
      BY <2>3, <3>2
    <3>4. RecordAudit(r)
      BY <2>3, <3>1
    <3>5. /\ \A k : StampsFor(k)' = StampsFor(k) \cup {}
          /\ \A c : StampsOf(c)' = StampsOf(c) \cup {}
      BY <1>n, <2>1, <3>2, <3>3, <3>4, StampStep
    <3>. QED
      BY <3>5
  <2>4. CASE UNCHANGED limiter /\ \E d \in Decisions \ {"RATE_LIMITED"}, e, p \in BOOLEAN :
               RecordAudit(Result(s, d, e, p)) /\ (d = "APPROVED" => p)
    BY <2>1, <2>3, <2>4 DEF LimiterLedger, limiter, Recent
  <2>5. CASE Throttle(s)
    <3>1. /\ \A k : StampsFor(k)' = StampsFor(k)
          /\ \A c : StampsOf(c)' = StampsOf(c)
      <4>1. RecordAudit(Result(s, "RATE_LIMITED", FALSE, FALSE))
        BY <2>5 DEF Throttle
      <4>2. "RATE_LIMITED" \in Decisions
        BY DEF Decisions
      <4>. QED
        BY <2>3, <4>1, <4>2
    <3>2. \A k \in Targets : Recent(targetTimes'[k]) = Recent(targetTimes[k])
      BY <1>t, <2>2, <2>5 DEF Throttle, TargetHistory
    <3>3. \A c \in Customers : Recent(customerTimes'[c]) = Recent(customerTimes[c])
      BY <1>t, <2>2, <2>5 DEF Throttle, CustomerHistory
    <3>. QED
      BY <2>1, <3>1, <3>2, <3>3 DEF LimiterLedger, Recent
  <2>6. CASE Approve(s)
    <3>1. PICK r : r = Result(s, "APPROVED", TRUE, FALSE)
      OBVIOUS
    <3>2. /\ r \in Results /\ RecordAudit(r)
          /\ r.input = s /\ r.time = now /\ r.decision = "APPROVED" /\ r.replay = FALSE
      BY <2>6, <3>1, ResultType DEF Result, Approve, Decisions, StoredDecisions
    <3>. DEFINE stamp == [time |-> now, evaluation |-> n]
    <3>3. /\ \A k : StampsFor(k)' = StampsFor(k) \cup (IF TargetKey(s) = k THEN {stamp} ELSE {})
          /\ \A c : StampsOf(c)' =
               StampsOf(c) \cup (IF s.target.customer = c THEN {stamp} ELSE {})
      BY <1>n, <2>1, <3>2, StampStep
    <3>4. stamp.time >= now - Window /\ ThisAttempt = stamp
      BY <1>n, GatewayAssumption DEF GatewayTypeOK, ThisAttempt
    <3>5. \A k \in Targets : targetTimes'[k] =
            IF TargetKey(s) = k THEN Recent(targetTimes[k]) \cup {stamp} ELSE targetTimes[k]
      BY <1>t, <2>6, <3>4 DEF Approve, TargetHistory
    <3>6. \A c \in Customers : customerTimes'[c] =
            IF s.target.customer = c THEN Recent(customerTimes[c]) \cup {stamp}
             ELSE customerTimes[c]
      BY <1>t, <2>6, <3>4 DEF Approve, CustomerHistory
    <3>7. \A times : Recent(Recent(times) \cup {stamp}) = Recent(times) \cup {stamp}
      BY <3>4 DEF Recent
    <3>8. ASSUME NEW k \in Targets PROVE Recent(targetTimes'[k]) = StampsFor(k)'
      BY <3>3, <3>5, <3>7 DEF LimiterLedger
    <3>9. ASSUME NEW c \in Customers PROVE Recent(customerTimes'[c]) = StampsOf(c)'
      BY <3>3, <3>6, <3>7 DEF LimiterLedger
    <3>. QED
      BY <2>1, <3>8, <3>9 DEF LimiterLedger, Recent
  <2>. QED
    BY <1>3, <2>4, <2>5, <2>6, QuietEvaluations
<1>. QED
  BY <1>1, <1>2, <1>3 DEF Next, Activate, Deactivate, SetCorrupted, vars, limiter, store

\* What counts against earlier evaluations does not change, and what counts
\* against a new one is what the window holds when it is made.
LEMMA UseStep ==
  ASSUME GatewayTypeOK, NEW r \in Results, RecordAudit(r), r.time = now,
         NEW n, n = Len(audit) + 1
  PROVE  /\ \A i \in Evaluations : TargetUse(i)' = TargetUse(i) /\ CustomerUse(i)' = CustomerUse(i)
         /\ TargetUse(n)' = Cardinality(ApprovedFor(TargetKey(r.input)))
         /\ CustomerUse(n)' = Cardinality(ApprovedOf(r.input.target.customer))
<1>1. /\ Evaluations' = Evaluations \cup {n} /\ Len(audit) \in Nat
      /\ \A i \in Evaluations : i \in Evaluations' /\ audit'[i] = audit[i]
      /\ audit'[n] = r
  BY AuditStep
<1>2. \A j \in Evaluations : /\ FreshApproval(j)' = FreshApproval(j)
                             /\ KeyAt(j)' = KeyAt(j) /\ Input(j)' = Input(j)
  BY <1>1 DEF FreshApproval, KeyAt, Input
<1>3. ASSUME NEW i \in Evaluations
      PROVE  TargetUse(i)' = TargetUse(i) /\ CustomerUse(i)' = CustomerUse(i)
  <2>1. 1 .. i - 1 \subseteq Evaluations
    BY <1>1 DEF Evaluations
  <2>2. InWindow(i)' = InWindow(i) /\ InWindow(i) \subseteq Evaluations
    BY <1>1, <1>2, <2>1 DEF InWindow
  <2>3. {j \in InWindow(i)' : KeyAt(j)' = KeyAt(i)'} = {j \in InWindow(i) : KeyAt(j) = KeyAt(i)}
    BY <1>2, <2>2
  <2>4. {j \in InWindow(i)' : Input(j)'.target.customer = Input(i)'.target.customer}
          = {j \in InWindow(i) : Input(j).target.customer = Input(i).target.customer}
    BY <1>2, <2>2
  <2>. QED
    BY <2>3, <2>4 DEF TargetUse, CustomerUse
<1>4. 1 .. n - 1 = Evaluations
  BY <1>1 DEF Evaluations
<1>5. InWindow(n)' = {j \in Evaluations : FreshApproval(j) /\ audit[j].time >= now - Window}
  BY <1>1, <1>2, <1>4 DEF InWindow
<1>6. KeyAt(n)' = TargetKey(r.input) /\ Input(n)' = r.input
  BY <1>1 DEF KeyAt, Input, TargetKey
<1>7. {j \in InWindow(n)' : KeyAt(j)' = KeyAt(n)'} = ApprovedFor(TargetKey(r.input))
  BY <1>2, <1>5, <1>6 DEF ApprovedFor
<1>8. {j \in InWindow(n)' : Input(j)'.target.customer = Input(n)'.target.customer}
        = ApprovedOf(r.input.target.customer)
  BY <1>2, <1>5, <1>6 DEF ApprovedOf
<1>9. TargetUse(n)' = Cardinality(ApprovedFor(TargetKey(r.input)))
  BY <1>7 DEF TargetUse
<1>10. CustomerUse(n)' = Cardinality(ApprovedOf(r.input.target.customer))
  BY <1>8 DEF CustomerUse
<1>. QED
  BY <1>3, <1>9, <1>10

\* The limiter refuses an evaluation exactly when the approvals in its window do.
LEMMA LimitedByUse ==
  ASSUME GatewayTypeOK, LimiterLedger, NEW s \in Submissions
  PROVE  IsRateLimited(s) <=>
           \/ Cardinality(ApprovedFor(TargetKey(s))) >= RateLimit
           \/ Cardinality(ApprovedOf(s.target.customer)) >= 3 * RateLimit
<1>1. /\ TargetHistory(s) = StampsFor(TargetKey(s))
      /\ CustomerHistory(s) = StampsOf(s.target.customer)
  BY SubmissionFacts DEF LimiterLedger, TargetHistory, CustomerHistory
<1>2. Cardinality(StampsFor(TargetKey(s))) = Cardinality(ApprovedFor(TargetKey(s)))
  BY StampsCount DEF StampsFor, ApprovedFor
<1>3. Cardinality(StampsOf(s.target.customer)) = Cardinality(ApprovedOf(s.target.customer))
  BY StampsCount DEF StampsOf, ApprovedOf
<1>. QED
  BY <1>1, <1>2, <1>3 DEF IsRateLimited, TargetLimited, CustomerLimited

\* The property of one evaluation.
Exhausted(i) == TargetUse(i) >= RateLimit \/ CustomerUse(i) >= 3 * RateLimit
ExactAt(i) ==
  (FreshApproval(i) => ~Exhausted(i)) /\ (audit[i].decision = "RATE_LIMITED" => Exhausted(i))

LEMMA RateLimitStep ==
  ASSUME GatewayTypeOK, LimiterLedger, RateLimitIsExact, [Next]_vars
  PROVE  RateLimitIsExact'
<1>n. PICK n : n = Len(audit) + 1
  OBVIOUS
<1>1. CASE UNCHANGED audit
  BY <1>1 DEF RateLimitIsExact, Evaluations, TargetUse, CustomerUse, InWindow, FreshApproval,
              KeyAt, Input
<1>2. ASSUME NEW s \in Submissions, EvaluateProposal(s) PROVE RateLimitIsExact'
  <2>1. ASSUME NEW d \in Decisions, NEW e \in BOOLEAN, NEW p \in BOOLEAN,
               RecordAudit(Result(s, d, e, p)),
               d = "APPROVED" => p \/ ~IsRateLimited(s),
               d = "RATE_LIMITED" => IsRateLimited(s)
        PROVE  RateLimitIsExact'
    <3>1. PICK r : r = Result(s, d, e, p)
      OBVIOUS
    <3>2. /\ r \in Results /\ RecordAudit(r)
          /\ r.input = s /\ r.time = now /\ r.decision = d /\ r.replay = p
      BY <2>1, <3>1, ResultType DEF Result
    <3>3. /\ Evaluations' = Evaluations \cup {n}
          /\ \A i \in Evaluations : audit'[i] = audit[i]
          /\ audit'[n] = r
      BY <1>n, <3>2, AuditStep
    <3>4. ASSUME NEW i \in Evaluations PROVE ExactAt(i)'
      <4>1. ExactAt(i)
        BY DEF RateLimitIsExact, ExactAt, Exhausted
      <4>2. Exhausted(i)' <=> Exhausted(i)
        BY <1>n, <3>2, UseStep DEF Exhausted
      <4>. QED
        BY <3>3, <4>1, <4>2 DEF ExactAt, FreshApproval
    <3>5. ExactAt(n)'
      <4>1. Exhausted(n)' <=> IsRateLimited(s)
        BY <1>n, <3>2, UseStep, LimitedByUse DEF Exhausted
      <4>. QED
        BY <2>1, <3>2, <3>3, <4>1 DEF ExactAt, FreshApproval
    <3>. QED
      BY <3>3, <3>4, <3>5 DEF RateLimitIsExact, ExactAt, Exhausted
  <2>2. CASE Throttle(s)
    <3>1. "RATE_LIMITED" \in Decisions
      BY DEF Decisions
    <3>. QED
      BY <2>1, <2>2, <3>1 DEF Throttle
  <2>3. CASE Approve(s)
    <3>1. "APPROVED" \in Decisions
      BY DEF Decisions, StoredDecisions
    <3>. QED
      BY <2>1, <2>3, <3>1 DEF Approve
  <2>. QED
    BY <1>2, <2>1, <2>2, <2>3, QuietEvaluations
<1>. QED
  BY <1>1, <1>2 DEF Next, Activate, Deactivate, SetCorrupted, Tick, vars

\* In every closed window a target and a customer get no more approvals than their
\* limits, and nothing is throttled below them.
THEOREM RateLimitHolds == Spec => []RateLimitIsExact
<1>1. Init => LimiterLedger /\ RateLimitIsExact
  <2>. SUFFICES ASSUME Init PROVE LimiterLedger /\ RateLimitIsExact
    OBVIOUS
  <2>1. Evaluations = {}
    BY DEF Init, Evaluations
  <2>. QED
    BY <2>1 DEF Init, LimiterLedger, RateLimitIsExact, Recent, StampsFor, StampsOf,
       ApprovedFor, ApprovedOf
<1>2. GatewayTypeOK /\ LimiterLedger /\ RateLimitIsExact /\ [Next]_vars
        => LimiterLedger' /\ RateLimitIsExact'
  BY LimiterLedgerStep, RateLimitStep
<1>. QED
  BY <1>1, <1>2, GatewayTypeCorrect, PTL DEF Spec
==============================================================================
