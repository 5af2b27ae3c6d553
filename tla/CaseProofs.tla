------------------------------ MODULE CaseProofs -------------------------------
(***************************************************************************)
(* The pipeline, case by case, for any datasets and any replies of the     *)
(* language model: the gateway answers every proposal exactly as the       *)
(* decision agent's limits say, the execution layer accepts whatever the   *)
(* gateway approved, every case shows the record of its own execution, and *)
(* the pipeline is a behaviour of both components.                         *)
(*                                                                         *)
(* The argument is about what each component's books hold of cases still   *)
(* to come, which is nothing: targets and keys are of one case only, so a  *)
(* case meets no store entry, no target attempts, no record and no key in  *)
(* flight, and of the others only its customer's approvals count.          *)
(***************************************************************************)
EXTENDS PipelineProofs, FiniteSetTheorems

------------------------------------------------------------------------------
(* The inductive invariant *)

Target(i) == TargetOf(i, batch[i])
RequestFor(i) == RequestOf(i, batch[i], proposals[i], results[i])
CaseKey(i) == <<"derived", ExecutionId(DeriveProposalId(batch[i].kind, i)), proposals[i].action>>

\* The customer's approvals so far.
ApprovedOf(c) == {j \in DOMAIN results : batch[j].customer = c /\ Approved(j)}

\* The limiter knows exactly the customers' approvals, and of the cases still to come
\* neither limiter nor store knows anything.
GatewayBooks ==
  /\ customerTimes = [c \in Gateway!Customers |->
                        {[time |-> 0, evaluation |-> j] : j \in ApprovedOf(c)}]
  /\ DOMAIN targetTimes = Gateway!Targets /\ DOMAIN targetStore = Gateway!Targets
  /\ \A i \in DOMAIN batch :
       Len(results) < i => targetTimes[Target(i)] = {} /\ targetStore[Target(i)] = Gateway!NoEntry

ExplainedAway(i) ==
  LET x == ContextOf(batch[i]) IN
  proposals[i].action = "RETRY_PAYMENT" /\ x.code = "generic_decline" /\ x.success < 7500

\* What CheckersAgree says of the gateway's answer to one case.
AnswerAgrees(i) ==
  proposals[i].status = "PROPOSED" =>
    results[i].decision = IF ExplainedAway(i) THEN "BLOCKED"
                          ELSE IF Cardinality(ApprovedBefore(i)) >= 9 THEN "RATE_LIMITED"
                          ELSE "APPROVED"

\* How a case may be answered: it is reviewed exactly if the agent asked for it.
FirstAnswers == {"APPROVED", "BLOCKED", "REQUIRES_REVIEW", "RATE_LIMITED"}

ReviewAgrees(i, decision) ==
  decision = "REQUIRES_REVIEW" <=> proposals[i].status = "REQUIRES_REVIEW"

Answers ==
  \A i \in DOMAIN results :
    /\ AnswerAgrees(i)
    /\ results[i].decision \in FirstAnswers /\ ReviewAgrees(i, results[i].decision)
    /\ ~results[i].replay /\ (Approved(i) => results[i].eligible)

\* Case i has been through the execution stage.
Done(i) == stage \in {"index", "ready"} \/ (stage = "execute" /\ i < next)
Executed(i) == Done(i) /\ Approved(i)

\* A call is made for an approved case when its turn comes, and returns.
CallBooks ==
  /\ DOMAIN pc = {CallOf(i) : i \in Positions}
  /\ \A i \in Positions :
       LET c == CallOf(i) IN
       /\ pc[c] \in {"idle", "awaiting", "returned"}
       /\ pc[c] = "returned" <=> i \in DOMAIN batch /\ Executed(i)
       /\ pc[c] = "awaiting" =>
            stage = "execute" /\ i = next /\ proposals[i].action # "RETRY_LATER"
       /\ pc[c] # "idle" => Approved(i) /\ request[c] = RequestFor(i)

\* The record of an executed case.
OwnRecord(record, i) ==
  /\ record.execution = CallOf(i)
  /\ record.proposal = ExecutionId(DeriveProposalId(batch[i].kind, i))
  /\ record.amount = batch[i].amount /\ record.currency = "INR"
  /\ record.status \in {"SUCCEEDED", "FAILED", "UNKNOWN_PROVIDER_STATE", "DEFERRED"}
  /\ record.status = "DEFERRED" <=> proposals[i].action = "RETRY_LATER"

\* Every executed case has its record, no other key has one, and only the key of the
\* call that waits is in flight.
RecordBooks ==
  /\ DOMAIN records = Execution!Keys
  /\ \A k \in Execution!Keys :
       records[k] # NoRecord => \E i \in DOMAIN batch : Executed(i) /\ k = CaseKey(i)
  /\ \A i \in DOMAIN batch : Executed(i) => OwnRecord(records[CaseKey(i)], i)
  /\ \A k \in inFlight : \E i \in DOMAIN batch : pc[CallOf(i)] = "awaiting" /\ k = CaseKey(i)

ItemsShown == stage = "ready" => items = [i \in DOMAIN batch |-> ItemOf(i)]

CaseInvariant ==
  /\ IInv
  /\ GatewayBooks /\ Answers
  /\ CallBooks /\ RecordBooks
  /\ ItemsShown

------------------------------------------------------------------------------
(* Cases and their names *)

\* Targets, keys and calls are of one case only.
LEMMA CasesAreDistinct ==
  ASSUME NEW i, NEW j
  PROVE  /\ Target(i) = Target(j) => i = j
         /\ CaseKey(i) = CaseKey(j) => i = j
         /\ CallOf(i) = CallOf(j) => i = j
         /\ ExecutionId(DeriveProposalId(batch[i].kind, i))
              = ExecutionId(DeriveProposalId(batch[j].kind, j)) => i = j
<1>1. \A a, b : TargetOf(i, a) = TargetOf(j, b) => i = j
  BY DEF TargetOf
<1>2. \A a, b : ExecutionId(DeriveProposalId(a, i)) = ExecutionId(DeriveProposalId(b, j))
                  => i = j
  BY DEF ExecutionId, DeriveProposalId
<1>3. CaseKey(i) = CaseKey(j) => ExecutionId(DeriveProposalId(batch[i].kind, i))
                                   = ExecutionId(DeriveProposalId(batch[j].kind, j))
  BY DEF CaseKey
<1>4. CallOf(i) = CallOf(j) => i = j
  BY DEF CallOf
<1> QED
  BY <1>1, <1>2, <1>3, <1>4 DEF Target

\* The gateway knows the target and the customer of every case.
LEMMA CaseIsKnown ==
  ASSUME batch \in Batches, NEW i \in DOMAIN batch
  PROVE  Target(i) \in Gateway!Targets /\ batch[i].customer \in Gateway!Customers
<1> DEFINE s == SubmissionOf(i, batch[i], Block)
<1>1. s \in Submissions
  BY SubmissionsAreDeclared DEF Verdicts
<1>2. Gateway!TargetKey(s) = Target(i) /\ s.target.customer = batch[i].customer
  BY DEF SubmissionOf, Gateway!TargetKey, Target, TargetOf, ContextOf
<1> HIDE DEF s
<1> QED
  BY <1>1, <1>2 DEF Gateway!Targets, Gateway!Customers

\* How far each stage has come, in terms of the batch.
LEMMA StageFacts ==
  ASSUME IInv
  PROVE  /\ batch \in Batches /\ Len(batch) \in Nat \ {0} /\ DOMAIN batch = 1 .. Len(batch)
         /\ next \in 1 .. Len(batch) /\ stage \in Stages
         /\ results \in Seq(Outcomes) /\ DOMAIN results = 1 .. Len(results)
         /\ Len(results) \in Nat /\ Len(results) <= Len(batch)
         /\ stage \in {"diagnose", "decide"} => Len(results) = 0
         /\ stage = "authorize" => Len(results) = next - 1
         /\ stage \in {"authorize", "execute", "index", "ready"} => DOMAIN proposals = DOMAIN batch
         /\ stage \in {"execute", "index", "ready"} => DOMAIN results = DOMAIN batch
<1>1. /\ batch \in Batches /\ Len(batch) \in Nat \ {0} /\ DOMAIN batch = 1 .. Len(batch)
      /\ next \in 1 .. Len(batch) /\ stage \in Stages
  BY BatchFacts DEF IInv, Progress
<1>2. /\ results \in Seq(Outcomes) /\ proposals \in Seq(Verdicts)
      /\ Len(proposals) = (IF stage \in {"diagnose", "decide"} THEN 0 ELSE Len(batch))
      /\ Len(results) = (IF stage \in {"diagnose", "decide"} THEN 0
                         ELSE IF stage = "authorize" THEN next - 1 ELSE Len(batch))
  BY DEF IInv, Progress
<1>3. DOMAIN results = 1 .. Len(results) /\ DOMAIN proposals = 1 .. Len(proposals)
        /\ Len(results) \in Nat
  BY <1>2
<1> QED
  BY <1>1, <1>2, <1>3 DEF Stages

------------------------------------------------------------------------------
(* The gateway's answer to one case *)

\* As many attempts are stamped as there are approvals.
LEMMA StampsAreCounted ==
  ASSUME NEW n \in Nat, NEW J \in SUBSET (1 .. n)
  PROVE  Cardinality({[time |-> 0, evaluation |-> j] : j \in J}) = Cardinality(J)
<1> DEFINE Stamp(j) == [time |-> 0, evaluation |-> j]
           T == {Stamp(j) : j \in J}
           f == [j \in J |-> Stamp(j)]
<1>1. IsFiniteSet(J)
  <2>1. IsFiniteSet(1 .. n)
    BY FS_Interval
  <2> QED
    BY <2>1, FS_Subset
<1>2. f \in Bijection(J, T)
  <2>1. f \in [J -> T] /\ \A t \in T : \E j \in J : f[j] = t
    OBVIOUS
  <2>2. \A i, j \in J : f[i] = f[j] => i = j
    <3>1. \A i : Stamp(i).evaluation = i
      OBVIOUS
    <3>2. \A i \in J : f[i] = Stamp(i)
      OBVIOUS
    <3> HIDE DEF Stamp, f
    <3> QED
      BY <3>1, <3>2
  <2> QED
    BY <2>1, <2>2 DEF Bijection, Injection, Surjection, IsInjective
<1> QED
  BY <1>1, <1>2, FS_Bijection DEF ExistsBijection

LEMMA LastIsElement ==
  ASSUME NEW S, NEW t \in Seq(S), Len(t) \in 1 .. 3
  PROVE  t[Len(t)] \in S
<1>1. Len(t) \in 1 .. Len(t)
  OBVIOUS
<1> QED
  BY <1>1

\* What the agent proposes is authentic, waits for no human, and is within the policy
\* exactly if no hard decline was explained away.
LEMMA ProposalsPass ==
  ASSUME IInv, NEW i \in DOMAIN batch, i \in DOMAIN proposals, proposals[i].status = "PROPOSED"
  PROVE  /\ ~Gateway!NeedsReview(Expected(i))
         /\ Gateway!WithinPolicy(Expected(i)) <=> ~ExplainedAway(i)
<1> DEFINE x == ContextOf(batch[i])
           d == diagnoses[i]
           s == Expected(i)
<1>1. proposals[i] = Decide(x, d)
  BY DEF IInv, Proposed
<1>2. x.attempts \in Nat /\ batch \in Batches
  BY CaseFacts DEF IInv, Progress
<1>3. /\ s.proposal.action = proposals[i].action /\ s.proposal.escalated = proposals[i].approval
      /\ s.target.attempts = x.attempts /\ s.target.history = x.history
      /\ s.target.success = x.success /\ s.target.code = x.code /\ s.target.amount = x.amount
  BY DEF Expected, SubmissionOf
<1>4. x.code \in FailureCodes \cup {NoCode}
  <2>1. Generated(batch[i])
    BY <1>2, PipelineAssumption
  <2>2. CASE batch[i].codes = <<>>
    BY <2>2 DEF ContextOf
  <2>3. CASE batch[i].codes # <<>>
    <3>1. batch[i].codes \in Seq(FailureCodes) /\ Len(batch[i].codes) \in 1 .. 3
      BY <2>1, <2>3 DEF Generated
    <3>2. batch[i].codes[Len(batch[i].codes)] \in FailureCodes
      BY <3>1, LastIsElement
    <3>3. x.code = batch[i].codes[Len(batch[i].codes)]
      BY <2>3 DEF ContextOf
    <3> QED
      BY <3>1, <3>2, <3>3
  <2> QED
    BY <2>2, <2>3
<1> HIDE DEF x, d, s
<1>5. /\ ~HardBlock(x) /\ ~Escalates(x, d)
      /\ proposals[i].action \in Gateway!ExecutableActions
      /\ proposals[i].action # "HUMAN_REVIEW" /\ proposals[i].approval = FALSE
  <2>1. Block.status # "PROPOSED" /\ Escalate.status # "PROPOSED" /\ Pass.status # "PROPOSED"
    BY DEF Block, Escalate, Pass, Verdict
  <2>2. ~HardBlock(x) /\ ~Escalates(x, d) /\ proposals[i] = Route(x, d)
    BY <1>1, <2>1 DEF Decide
  <2>3. PICK a \in Gateway!ExecutableActions : proposals[i] = Propose(a)
    BY <2>1, <2>2 DEF Route, Gateway!ExecutableActions
  <2>4. a # "HUMAN_REVIEW"
    BY DEF Gateway!ExecutableActions
  <2>5. proposals[i].action = a /\ proposals[i].approval = (a = "HUMAN_REVIEW")
    BY <2>3 DEF Propose, Verdict
  <2>6. (a = "HUMAN_REVIEW") = FALSE
    BY <2>4
  <2> QED
    BY <2>2, <2>4, <2>5, <2>6
<1>6. Gateway!RetryAndChronic(s.target)
  <2>1. x.attempts < 3
    BY <1>2, <1>5 DEF HardBlock, AttemptsExhausted, MaxRetryAttempts
  <2> QED
    BY <1>3, <1>5, <2>1 DEF HardBlock, ChronicHistory, BlockedDeclineCodes,
       Gateway!RetryAndChronic, Gateway!MaxTargetAttempts, Gateway!BlockedDeclineCodes
<1>7. x.code \notin {"suspected_fraud", "stolen_card", "lost_card", "unknown_failure"}
  BY <1>4, <1>5 DEF FailureCodes, NoCode, Escalates
<1>8. Gateway!FailureCategorySafe(s.proposal, s.target) <=> ~ExplainedAway(i)
  BY <1>3, <1>7 DEF Gateway!FailureCategorySafe, Gateway!UnrecoverableFraudCodes,
     Gateway!BlockedDeclineCodes, ExplainedAway, x
<1>9. ~Gateway!RequiresApproval(s)
  BY <1>3, <1>5 DEF Gateway!RequiresApproval, Escalates, HighValueCase
<1> QED
  BY <1>3, <1>5, <1>6, <1>8, <1>9 DEF Gateway!WithinPolicy, Gateway!NeedsReview, s

\* The gateway asks for a review where the agent did, and nowhere else.
LEMMA ReviewsAreTheAgents ==
  ASSUME IInv, NEW i \in DOMAIN batch, i \in DOMAIN proposals
  PROVE  Gateway!NeedsReview(Expected(i)) <=> proposals[i].status = "REQUIRES_REVIEW"
<1> DEFINE x == ContextOf(batch[i])
           d == diagnoses[i]
<1>1. proposals[i] = Decide(x, d)
  BY DEF IInv, Proposed
<1>2. Expected(i).proposal.action = proposals[i].action
  BY DEF Expected, SubmissionOf
<1> HIDE DEF x, d
<1>3. \/ proposals[i] \in {Block, Pass, Escalate}
      \/ \E a \in Gateway!ExecutableActions : proposals[i] = Propose(a)
  BY <1>1 DEF Decide, Route, Gateway!ExecutableActions
<1>4. CASE proposals[i] \in {Block, Pass}
  <2>1. proposals[i].action = "NO_ACTION" /\ proposals[i].status # "REQUIRES_REVIEW"
    BY <1>4 DEF Block, Pass, Verdict
  <2> QED
    BY <1>2, <2>1 DEF Gateway!NeedsReview, Gateway!WithinPolicy, Gateway!ExecutableActions
<1>5. CASE proposals[i] = Escalate
  BY <1>2, <1>5 DEF Escalate, Verdict, Gateway!NeedsReview
<1>6. CASE \E a \in Gateway!ExecutableActions : proposals[i] = Propose(a)
  <2>1. proposals[i].status = "PROPOSED"
    BY <1>6 DEF Propose, Verdict
  <2> QED
    BY <2>1, ProposalsPass
<1> QED
  BY <1>3, <1>4, <1>5, <1>6

\* Of a case that has its turn the gateway knows nothing, so it is admitted and fresh, and
\* is limited by its customer's approvals alone.
LEMMA CaseIsFresh ==
  ASSUME IInv, GatewayBooks, stage = "authorize"
  PROVE  /\ Gateway!Fresh(Expected(next))
         /\ Gateway!IsRateLimited(Expected(next)) <=> Cardinality(ApprovedBefore(next)) >= 9
         /\ Gateway!CustomerHistory(Expected(next)) = customerTimes[batch[next].customer]
<1> DEFINE s == Expected(next)
           cust == batch[next].customer
<1>1. /\ batch \in Batches /\ next \in DOMAIN batch /\ next \in Nat
      /\ DOMAIN results = 1 .. next - 1 /\ Len(results) < next /\ DOMAIN proposals = DOMAIN batch
  BY StageFacts
<1>2. Generated(batch[next])
  BY <1>1, PipelineAssumption
<1>3. Target(next) \in Gateway!Targets /\ cust \in Gateway!Customers
  BY <1>1, CaseIsKnown
<1>4. /\ s.proposal.id = DeriveProposalId(batch[next].kind, next)
      /\ s.proposal.kind = batch[next].kind /\ s.proposal.target = next
      /\ s.proposal.amount = batch[next].amount /\ s.proposal.currency = "INR"
      /\ s.proposal.current = TRUE
      /\ s.target.kind = batch[next].kind /\ s.target.id = next
      /\ s.target.amount = batch[next].amount /\ s.target.currency = "INR"
      /\ s.target.customer = cust
  BY DEF Expected, SubmissionOf, ContextOf
<1>5. Gateway!TargetKey(s) = Target(next)
  BY <1>4 DEF Gateway!TargetKey, Target, TargetOf
<1>6. primary[s.proposal.id] = Gateway!NoDecision
  BY <1>1, <1>4 DEF IInv, Rooted
<1>7. targetTimes[Target(next)] = {} /\ targetStore[Target(next)] = Gateway!NoEntry
  BY <1>1 DEF GatewayBooks
<1>8. Gateway!Authentic(s)
  BY <1>2, <1>4 DEF Generated, Gateway!Authentic, Gateway!SchemaAndVersion,
     Gateway!ProposalIdentity, Gateway!FinancialIntegrity, Gateway!DeriveExpectedProposalId,
     DeriveProposalId
<1>9. ~Gateway!Suspended /\ now = 0
  BY DEF IInv, Progress, Gateway!Suspended
<1> HIDE DEF s
<1>10. ~Gateway!Conflicting(s) /\ Gateway!ExistingDecision(s) = Gateway!NoDecision
  <2>1. Gateway!NoEntry.decision # "APPROVED"
    BY DEF Gateway!NoEntry, Gateway!NoDecision
  <2> QED
    BY <1>5, <1>6, <1>7, <2>1 DEF Gateway!Conflicting, Gateway!Altered,
       Gateway!CheckTargetConflict, Gateway!ExistingDecision
<1>11. Gateway!Fresh(s)
  BY <1>8, <1>9, <1>10 DEF Gateway!Fresh, Gateway!Admitted
<1>12. customerTimes[cust] = {[time |-> 0, evaluation |-> j] : j \in ApprovedOf(cust)}
  BY <1>3 DEF GatewayBooks
<1>13. ApprovedOf(cust) = ApprovedBefore(next)
  BY <1>1 DEF ApprovedOf, ApprovedBefore
<1>14. Cardinality(customerTimes[cust]) = Cardinality(ApprovedBefore(next))
  <2>1. next - 1 \in Nat /\ ApprovedOf(cust) \in SUBSET (1 .. next - 1)
    BY <1>1 DEF ApprovedOf
  <2> QED
    BY <1>12, <1>13, <2>1, StampsAreCounted
<1>15. Gateway!CustomerHistory(s) = customerTimes[cust]
  <2>1. \A a \in customerTimes[cust] : a.time = 0
    BY <1>12
  <2>2. s.target.customer = cust
    BY <1>4
  <2> QED
    BY <1>9, <2>1, <2>2 DEF Gateway!CustomerHistory, Gateway!Recent
<1>c. \A S : Gateway!Cardinality(S) = Cardinality(S)
  BY DEF Gateway!Cardinality, Cardinality
<1>16. ~Gateway!TargetLimited(s)
  <2>1. Gateway!TargetHistory(s) = {}
    BY <1>5, <1>7 DEF Gateway!TargetHistory, Gateway!Recent
  <2> QED
    BY <1>c, <2>1, FS_EmptySet DEF Gateway!TargetLimited
<1>17. Gateway!CustomerLimited(s) <=> Cardinality(ApprovedBefore(next)) >= 9
  <2>1. 3 * 3 = 9
    OBVIOUS
  <2> QED
    BY <1>c, <1>14, <1>15, <2>1 DEF Gateway!CustomerLimited
<1> QED
  BY <1>11, <1>15, <1>16, <1>17 DEF Gateway!IsRateLimited, s

\* The books change in the place of the case only, and count it if it is approved.
Booked(approved) ==
  LET cust == batch[next].customer IN
  /\ customerTimes' =
       IF approved
       THEN [customerTimes EXCEPT ![cust] = @ \cup {[time |-> 0, evaluation |-> next]}]
       ELSE customerTimes
  /\ DOMAIN targetTimes' = DOMAIN targetTimes /\ DOMAIN targetStore' = DOMAIN targetStore
  /\ \A k \in Gateway!Targets \ {Target(next)} :
       targetTimes'[k] = targetTimes[k] /\ targetStore'[k] = targetStore[k]

\* One evaluation: the answer is the one CheckersAgree demands.
LEMMA CaseIsAnswered ==
  ASSUME IInv, GatewayBooks, AuthorizeNext
  PROVE  \E d \in FirstAnswers :
           /\ results' = Append(results, Gateway!Result(Expected(next), d, d = "APPROVED", FALSE))
           /\ Booked(d = "APPROVED")
           /\ ReviewAgrees(next, d)
           /\ proposals[next].status = "PROPOSED" =>
                d = IF ExplainedAway(next) THEN "BLOCKED"
                    ELSE IF Cardinality(ApprovedBefore(next)) >= 9 THEN "RATE_LIMITED"
                    ELSE "APPROVED"
<1> DEFINE s == Expected(next)
           cust == batch[next].customer
           exhausted == Cardinality(ApprovedBefore(next)) >= 9
           Outcome(d) == results' = Append(results, Gateway!Result(s, d, d = "APPROVED", FALSE))
           Due(d) == /\ ReviewAgrees(next, d)
                     /\ proposals[next].status = "PROPOSED" =>
                          d = IF ExplainedAway(next) THEN "BLOCKED"
                              ELSE IF exhausted THEN "RATE_LIMITED" ELSE "APPROVED"
<1>1. stage = "authorize" /\ Gateway!EvaluateProposal(s)
  BY DEF AuthorizeNext, Expected
<1>2. /\ Gateway!Fresh(s) /\ (Gateway!IsRateLimited(s) <=> exhausted)
      /\ Gateway!CustomerHistory(s) = customerTimes[cust]
  BY <1>1, CaseIsFresh
<1>3. /\ batch \in Batches /\ next \in DOMAIN batch /\ next \in Nat /\ Len(results) = next - 1
      /\ next \in DOMAIN proposals
  BY <1>1, StageFacts
<1>4. Target(next) \in Gateway!Targets /\ cust \in Gateway!Customers
  BY <1>3, CaseIsKnown
<1>5. Gateway!TargetKey(s) = Target(next) /\ s.target.customer = cust
  BY DEF Expected, SubmissionOf, Gateway!TargetKey, Target, TargetOf, ContextOf
<1>6. DOMAIN targetTimes = Gateway!Targets /\ DOMAIN targetStore = Gateway!Targets
  BY DEF GatewayBooks
<1>7. proposals[next].status = "PROPOSED" =>
        ~Gateway!NeedsReview(s) /\ (Gateway!WithinPolicy(s) <=> ~ExplainedAway(next))
  BY <1>3, ProposalsPass
<1>8. now = 0
  BY DEF IInv, Progress
<1>9. Gateway!NeedsReview(s) <=> proposals[next].status = "REQUIRES_REVIEW"
  BY <1>3, ReviewsAreTheAgents
<1>10. Gateway!ThisAttempt = [time |-> 0, evaluation |-> next]
  BY <1>3, <1>8 DEF Gateway!ThisAttempt
<1> HIDE DEF s, exhausted, Outcome, Due
<1>11. ASSUME NEW d, Gateway!RecordDecision(s, d)
       PROVE  /\ DOMAIN targetStore' = DOMAIN targetStore
              /\ \A k \in Gateway!Targets \ {Target(next)} : targetStore'[k] = targetStore[k]
  BY <1>5, <1>6, <1>11 DEF Gateway!RecordDecision
<1>12. CASE Gateway!Block(s)
  <2>1. /\ ~Gateway!WithinPolicy(s) /\ ~Gateway!NeedsReview(s)
        /\ Gateway!RecordAudit(Gateway!Result(s, "BLOCKED", FALSE, FALSE))
        /\ Gateway!RecordDecision(s, "BLOCKED")
        /\ UNCHANGED <<targetTimes, customerTimes>>
    BY <1>12 DEF Gateway!Block, Gateway!limiter
  <2>2. ("BLOCKED" = "APPROVED") = FALSE
    OBVIOUS
  <2>3. Outcome("BLOCKED")
    BY <2>1, <2>2 DEF Gateway!RecordAudit, Outcome
  <2>4. Booked("BLOCKED" = "APPROVED")
    BY <1>11, <2>1, <2>2 DEF Booked
  <2>5. Due("BLOCKED")
    BY <1>7, <1>9, <2>1 DEF Due, ReviewAgrees
  <2> QED
    BY <2>3, <2>4, <2>5 DEF Outcome, Due, s, exhausted, FirstAnswers
<1>13. CASE Gateway!RequestReview(s)
  <2>1. /\ Gateway!NeedsReview(s)
        /\ Gateway!RecordAudit(Gateway!Result(s, "REQUIRES_REVIEW", FALSE, FALSE))
        /\ Gateway!RecordDecision(s, "REQUIRES_REVIEW")
        /\ UNCHANGED <<targetTimes, customerTimes>>
    BY <1>13 DEF Gateway!RequestReview, Gateway!limiter
  <2>2. ("REQUIRES_REVIEW" = "APPROVED") = FALSE
    OBVIOUS
  <2>3. Outcome("REQUIRES_REVIEW")
    BY <2>1, <2>2 DEF Gateway!RecordAudit, Outcome
  <2>4. Booked("REQUIRES_REVIEW" = "APPROVED")
    BY <1>11, <2>1, <2>2 DEF Booked
  <2>5. Due("REQUIRES_REVIEW")
    BY <1>7, <1>9, <2>1 DEF Due, ReviewAgrees
  <2> QED
    BY <2>3, <2>4, <2>5 DEF Outcome, Due, s, exhausted, FirstAnswers
<1>14. CASE Gateway!Throttle(s)
  <2>1. /\ Gateway!WithinPolicy(s) /\ ~Gateway!NeedsReview(s) /\ Gateway!IsRateLimited(s)
        /\ targetTimes' = [targetTimes EXCEPT ![Target(next)] = Gateway!TargetHistory(s)]
        /\ customerTimes' = IF Gateway!TargetLimited(s) THEN customerTimes
                            ELSE [customerTimes EXCEPT ![cust] = customerTimes[cust]]
        /\ Gateway!RecordAudit(Gateway!Result(s, "RATE_LIMITED", FALSE, FALSE))
        /\ UNCHANGED targetStore
    BY <1>2, <1>5, <1>14 DEF Gateway!Throttle, Gateway!Cleared, Gateway!store
  <2>2. ("RATE_LIMITED" = "APPROVED") = FALSE
    OBVIOUS
  <2>3. Outcome("RATE_LIMITED")
    BY <2>1, <2>2 DEF Gateway!RecordAudit, Outcome
  <2>4. Booked("RATE_LIMITED" = "APPROVED")
    <3>1. customerTimes' = customerTimes
      BY <2>1 DEF GatewayBooks
    <3> QED
      BY <1>6, <2>1, <2>2, <3>1 DEF Booked
  <2>5. Due("RATE_LIMITED")
    BY <1>2, <1>7, <1>9, <2>1 DEF Due, ReviewAgrees
  <2> QED
    BY <2>3, <2>4, <2>5 DEF Outcome, Due, s, exhausted, FirstAnswers
<1>15. CASE Gateway!Approve(s)
  <2>1. /\ Gateway!WithinPolicy(s) /\ ~Gateway!NeedsReview(s) /\ ~Gateway!IsRateLimited(s)
        /\ targetTimes' = [targetTimes EXCEPT ![Target(next)] =
                             Gateway!TargetHistory(s) \cup {Gateway!ThisAttempt}]
        /\ customerTimes' = [customerTimes EXCEPT ![cust] =
                               customerTimes[cust] \cup {Gateway!ThisAttempt}]
        /\ Gateway!RecordAudit(Gateway!Result(s, "APPROVED", TRUE, FALSE))
        /\ Gateway!RecordDecision(s, "APPROVED")
    BY <1>2, <1>5, <1>15 DEF Gateway!Approve, Gateway!Cleared
  <2>2. ("APPROVED" = "APPROVED") = TRUE
    OBVIOUS
  <2>3. Outcome("APPROVED")
    BY <2>1, <2>2 DEF Gateway!RecordAudit, Outcome
  <2>4. Booked("APPROVED" = "APPROVED")
    <3>1. customerTimes' = [customerTimes EXCEPT ![cust] =
                              @ \cup {[time |-> 0, evaluation |-> next]}]
      BY <1>10, <2>1
    <3>2. DOMAIN targetTimes' = DOMAIN targetTimes
      BY <2>1
    <3>3. \A k \in Gateway!Targets \ {Target(next)} : targetTimes'[k] = targetTimes[k]
      BY <1>6, <2>1
    <3> QED
      BY <1>11, <2>1, <2>2, <3>1, <3>2, <3>3 DEF Booked
  <2>5. Due("APPROVED")
    BY <1>2, <1>7, <1>9, <2>1 DEF Due, ReviewAgrees
  <2> QED
    BY <2>3, <2>4, <2>5 DEF Outcome, Due, s, exhausted, FirstAnswers
<1>16. /\ ~Gateway!Suspend(s) /\ ~Gateway!RejectInvalid(s) /\ ~Gateway!RejectConflict(s)
       /\ ~Gateway!ReplayDecision(s)
  BY <1>2 DEF Gateway!Fresh, Gateway!Admitted, Gateway!Suspend, Gateway!RejectInvalid,
     Gateway!RejectConflict, Gateway!ReplayDecision
<1> QED
  BY <1>1, <1>12, <1>13, <1>14, <1>15, <1>16 DEF Gateway!EvaluateProposal

LEMMA AuthorizeBooks ==
  ASSUME IInv, GatewayBooks, Answers, AuthorizeNext
  PROVE  GatewayBooks' /\ Answers'
<1>0. PICK n \in Nat : n = next
  <2>1. next \in 1 .. Len(batch) /\ Len(batch) \in Nat
    BY StageFacts
  <2>2. next \in Nat
    BY <2>1
  <2> QED
    BY <2>2
<1>1. /\ batch \in Batches /\ DOMAIN batch = 1 .. Len(batch) /\ n \in 1 .. Len(batch)
      /\ Len(batch) \in Nat /\ DOMAIN results = 1 .. n - 1 /\ results \in Seq(Outcomes)
      /\ Len(results) = n - 1
  BY <1>0, StageFacts DEF AuthorizeNext
<1>2. batch' = batch /\ proposals' = proposals
  BY DEF AuthorizeNext
<1>3. PICK d \in FirstAnswers :
        /\ results' = Append(results, Gateway!Result(Expected(n), d, d = "APPROVED", FALSE))
        /\ Booked(d = "APPROVED")
        /\ ReviewAgrees(n, d)
        /\ proposals[n].status = "PROPOSED" =>
             d = IF ExplainedAway(n) THEN "BLOCKED"
                 ELSE IF Cardinality(ApprovedBefore(n)) >= 9 THEN "RATE_LIMITED"
                 ELSE "APPROVED"
  BY <1>0, CaseIsAnswered
<1> DEFINE r == Gateway!Result(Expected(n), d, d = "APPROVED", FALSE)
           cust == batch[n].customer
<1>4. r.decision = d /\ r.eligible = (d = "APPROVED") /\ r.replay = FALSE
  BY DEF Gateway!Result
<1> HIDE DEF r, cust
<1>5. /\ DOMAIN results' = 1 .. n /\ Len(results') = n
      /\ \A i \in 1 .. n - 1 : results'[i] = results[i]
      /\ results'[n] = r
  <2>1. results' = Append(results, r)
    BY <1>3 DEF r
  <2>2. ASSUME NEW S, NEW t \in Seq(S), NEW x
        PROVE  /\ Len(Append(t, x)) = Len(t) + 1 /\ Append(t, x)[Len(t) + 1] = x
               /\ DOMAIN Append(t, x) = 1 .. Len(t) + 1
               /\ \A i \in 1 .. Len(t) : Append(t, x)[i] = t[i]
    OBVIOUS
  <2> QED
    BY <1>1, <2>1, <2>2
<1>6. /\ \A i \in 1 .. n - 1 : Approved(i)' <=> Approved(i)
      /\ Approved(n)' <=> d = "APPROVED"
  BY <1>4, <1>5 DEF Approved
<1>7. ASSUME NEW c
      PROVE  ApprovedOf(c)' = IF d = "APPROVED" /\ c = cust THEN ApprovedOf(c) \cup {n}
                                                            ELSE ApprovedOf(c)
  <2>1. 1 .. n = (1 .. n - 1) \cup {n} /\ n \notin 1 .. n - 1
    BY <1>1
  <2> QED
    BY <1>1, <1>2, <1>5, <1>6, <2>1 DEF ApprovedOf, cust
<1>8. customerTimes' = [c \in Gateway!Customers |->
                          {[time |-> 0, evaluation |-> j] : j \in ApprovedOf(c)'}]
  <2>1. cust \in Gateway!Customers
    BY <1>1, CaseIsKnown DEF cust
  <2>2. customerTimes = [c \in Gateway!Customers |->
                           {[time |-> 0, evaluation |-> j] : j \in ApprovedOf(c)}]
    BY DEF GatewayBooks
  <2>3. CASE d = "APPROVED"
    <3>1. customerTimes' = [customerTimes EXCEPT ![cust] =
                              @ \cup {[time |-> 0, evaluation |-> n]}]
      BY <1>0, <1>3, <2>3 DEF Booked, cust
    <3>2. \A c : ApprovedOf(c)' = IF c = cust THEN ApprovedOf(c) \cup {n} ELSE ApprovedOf(c)
      BY <1>7, <2>3
    <3> QED
      BY <2>1, <2>2, <3>1, <3>2
  <2>4. CASE d # "APPROVED"
    <3>1. customerTimes' = customerTimes
      BY <1>3, <2>4 DEF Booked
    <3>2. \A c : ApprovedOf(c)' = ApprovedOf(c)
      BY <1>7, <2>4
    <3> QED
      BY <2>2, <3>1, <3>2
  <2> QED
    BY <2>3, <2>4
<1>9. GatewayBooks'
  <2>1. DOMAIN targetTimes' = Gateway!Targets /\ DOMAIN targetStore' = Gateway!Targets
    BY <1>3 DEF Booked, GatewayBooks
  <2>2. ASSUME NEW i \in DOMAIN batch, n < i
        PROVE  targetTimes'[Target(i)] = {} /\ targetStore'[Target(i)] = Gateway!NoEntry
    <3>1. Target(i) \in Gateway!Targets
      BY <1>1, CaseIsKnown
    <3>2. i # n
      BY <1>1, <2>2
    <3>3. Target(i) # Target(n)
      BY <3>2, CasesAreDistinct
    <3>4. Len(results) < i
      BY <1>1, <2>2
    <3> QED
      BY <1>0, <1>3, <3>1, <3>3, <3>4 DEF Booked, GatewayBooks
  <2>3. \A i : Target(i)' = Target(i)
    BY <1>2 DEF Target
  <2> QED
    BY <1>2, <1>5, <1>8, <2>1, <2>2, <2>3 DEF GatewayBooks
<1>10. ASSUME NEW i \in DOMAIN results'
       PROVE  /\ AnswerAgrees(i)'
              /\ results'[i].decision \in FirstAnswers
              /\ ReviewAgrees(i, results[i].decision)'
              /\ ~results'[i].replay /\ (Approved(i)' => results'[i].eligible)
  <2>1. i \in 1 .. n /\ i \in Nat
    BY <1>1, <1>5
  <2>2. ApprovedBefore(i)' = ApprovedBefore(i)
    <3>1. \A j \in 1 .. i - 1 : j \in 1 .. n - 1
      BY <1>1, <2>1
    <3> QED
      BY <1>2, <1>6, <3>1 DEF ApprovedBefore
  <2>3. ExplainedAway(i)' = ExplainedAway(i)
    BY <1>2 DEF ExplainedAway
  <2>4. CASE i = n
    BY <1>2, <1>3, <1>4, <1>5, <1>6, <2>2, <2>3, <2>4 DEF AnswerAgrees, ReviewAgrees
  <2>5. CASE i # n
    <3>1. i \in 1 .. n - 1
      BY <1>1, <2>1, <2>5
    <3> QED
      BY <1>1, <1>2, <1>5, <1>6, <2>2, <2>3, <3>1 DEF Answers, AnswerAgrees, ReviewAgrees
  <2> QED
    BY <2>4, <2>5
<1> QED
  BY <1>9, <1>10 DEF Answers

\* Before its answers are in, and after, a step that is not the gateway's leaves its
\* books and answers alone.
LEMMA GatewayFrame ==
  ASSUME GatewayBooks, Answers, UNCHANGED <<batch, gatewayVars>>,
         proposals' = proposals \/ results = <<>>
  PROVE  GatewayBooks' /\ Answers'
<1>1. UNCHANGED <<results, customerTimes, targetTimes, targetStore>>
  BY DEF gatewayVars
<1>2. GatewayBooks'
  BY <1>1 DEF GatewayBooks, ApprovedOf, Approved, Target
<1>3. CASE proposals' = proposals
  <2>1. \A i : AnswerAgrees(i)' <=> AnswerAgrees(i)
    BY <1>1, <1>3 DEF AnswerAgrees, ExplainedAway, ApprovedBefore, Approved
  <2> QED
    BY <1>1, <1>2, <1>3, <2>1 DEF Answers, Approved, ReviewAgrees
<1>4. CASE results = <<>>
  BY <1>1, <1>2, <1>4 DEF Answers
<1> QED
  BY <1>3, <1>4

------------------------------------------------------------------------------
(* The execution of one case *)

\* The request the evaluator makes for an approved case is one the execution layer
\* accepts, under the key of the case.
LEMMA RequestIsAccepted ==
  ASSUME IInv, Answers, NEW i \in DOMAIN batch, i \in DOMAIN results, Approved(i)
  PROVE  /\ RequestFor(i) \in Requests
         /\ Execution!KeyOf(RequestFor(i)) = CaseKey(i) /\ CaseKey(i) \in Execution!Keys
         /\ Execution!RevalidateAuthorization(RequestFor(i))
         /\ RequestFor(i).target.amount = batch[i].amount
         /\ RequestFor(i).target.currency = "INR"
         /\ RequestFor(i).proposal.id = ExecutionId(DeriveProposalId(batch[i].kind, i))
         /\ RequestFor(i).proposal.action = proposals[i].action
<1> DEFINE r == RequestFor(i)
           e == Expected(i)
<1>1. batch \in Batches /\ ContextOf(batch[i]).attempts \in Nat /\ Generated(batch[i])
  BY CaseFacts, PipelineAssumption DEF IInv, Progress
<1>2. /\ results[i].input = e /\ Gateway!WithinPolicy(e)
      /\ results[i].decision = "APPROVED" /\ results[i].eligible /\ ~results[i].replay
  BY DEF IInv, Rooted, Answers, Approved
<1>3. proposals[i] \in Verdicts
  <2>1. i \in DOMAIN proposals
    BY ApprovedCases
  <2>2. proposals \in Seq(Verdicts)
    BY DEF IInv, Progress
  <2> QED
    BY <2>1, <2>2
<1>4. results[i].eligible = TRUE /\ results[i].replay = FALSE
  <2>1. results \in Seq(Outcomes)
    BY DEF IInv, Progress
  <2>2. results[i] \in Outcomes
    BY <2>1
  <2>3. results[i].eligible \in BOOLEAN /\ results[i].replay \in BOOLEAN
    BY <2>2 DEF Outcomes
  <2> QED
    BY <1>2, <2>3
<1>5. /\ e.proposal.id = DeriveProposalId(batch[i].kind, i)
      /\ e.proposal.action = proposals[i].action
      /\ e.proposal.amount = batch[i].amount /\ e.proposal.currency = "INR"
      /\ e.target.amount = batch[i].amount /\ e.target.currency = "INR"
      /\ e.target.attempts = ContextOf(batch[i]).attempts
  BY DEF Expected, SubmissionOf, ContextOf
<1>6. /\ r.proposal.id = ExecutionId(DeriveProposalId(batch[i].kind, i))
      /\ r.proposal.target = Target(i) /\ r.proposal.action = proposals[i].action
      /\ r.proposal.amount = batch[i].amount /\ r.proposal.currency = "INR"
      /\ r.proposal.current = TRUE
      /\ r.target.id = Target(i) /\ r.target.amount = batch[i].amount
      /\ r.target.currency = "INR" /\ r.target.attempts = ContextOf(batch[i]).attempts
      /\ r.gateway.decision = "APPROVED" /\ r.gateway.eligible = TRUE
      /\ r.gateway.reason = "APPROVED_FOR_EXECUTION_LAYER"
      /\ r.gateway.proposal = ExecutionId(DeriveProposalId(batch[i].kind, i))
      /\ r.gateway.target = Target(i) /\ r.gateway.current = TRUE
      /\ r.key = <<"none">>
  BY <1>2, <1>4, <1>5 DEF RequestFor, RequestOf, Expected, Target
<1>7. r \in Requests
  <2> DEFINE a == Approval(e)
  <2>1. /\ a.decision = results[i].decision /\ a.eligible = results[i].eligible
        /\ a.replay = results[i].replay /\ a.input = results[i].input
    BY <1>2, <1>4 DEF Approval
  <2> HIDE DEF a
  <2>2. RequestOf(i, batch[i], proposals[i], a) = r
    BY <2>1 DEF RequestOf, RequestFor
  <2>3. <<i, batch[i]>> \in Places
    BY <1>1 DEF Places
  <2>4. <<i, batch[i]>>[1] = i /\ <<i, batch[i]>>[2] = batch[i]
    OBVIOUS
  <2>5. a = Approval(SubmissionOf(i, batch[i], proposals[i]))
    BY DEF a, Expected
  <2> HIDE DEF r
  <2> QED
    BY <1>3, <2>2, <2>3, <2>4, <2>5 DEF Requests
<1> HIDE DEF r
<1>8. Execution!KeyOf(r) = CaseKey(i) /\ CaseKey(i) \in Execution!Keys
  <2>1. Execution!KeyOf(r) = CaseKey(i)
    BY <1>6 DEF Execution!KeyOf, Execution!NoKey, Execution!DeriveExecutionIdempotencyKey, CaseKey
  <2> QED
    BY <1>7, <2>1 DEF Execution!Keys
<1>9. ExecutionId(DeriveProposalId(batch[i].kind, i))
        = Execution!DeriveExpectedProposalId(Target(i))
  BY DEF ExecutionId, DeriveProposalId, Execution!DeriveExpectedProposalId, Target, TargetOf
<1>10. /\ r.proposal.action \in Execution!ExecutableActions /\ r.target.attempts <= 2
  <2>1. /\ proposals[i].action \in Gateway!ExecutableActions
        /\ ContextOf(batch[i]).attempts < 2 + 1
    BY <1>2, <1>5 DEF Gateway!WithinPolicy, Gateway!RetryAndChronic, Gateway!MaxTargetAttempts
  <2>2. ContextOf(batch[i]).attempts <= 2
    BY <1>1, <2>1
  <2> QED
    BY <1>6, <2>1, <2>2 DEF Gateway!ExecutableActions, Execution!ExecutableActions
<1>11. batch[i].amount > 0
  BY <1>1 DEF Generated
<1>12. Execution!RevalidateAuthorization(r)
  BY <1>6, <1>9, <1>10, <1>11 DEF Execution!RevalidateAuthorization
<1> QED
  BY <1>6, <1>7, <1>8, <1>12 DEF r

\* When a case has its turn its key is free: there is no record and nothing in flight.
LEMMA KeyIsFree ==
  ASSUME IInv, CallBooks, RecordBooks, stage = "execute", Approved(next),
         pc[CallOf(next)] = "idle", CaseKey(next) \in Execution!Keys
  PROVE  Execution!StartExecution(CaseKey(next))
<1>1. ~Executed(next)
  <2>1. next \in DOMAIN batch /\ next \in Positions
    BY StageFacts, SubmissionsAreDeclared DEF Verdicts
  <2> QED
    BY <2>1 DEF CallBooks
<1>2. records[CaseKey(next)] = NoRecord
  <2>1. \A i : CaseKey(next) = CaseKey(i) => i = next
    BY CasesAreDistinct
  <2> QED
    BY <1>1, <2>1 DEF RecordBooks, NoRecord
<1>3. CaseKey(next) \notin inFlight
  <2>1. \A i : CaseKey(next) = CaseKey(i) => i = next
    BY CasesAreDistinct
  <2> QED
    BY <2>1 DEF RecordBooks
<1> QED
  BY <1>2, <1>3 DEF Execution!StartExecution, Execution!Stored, NoRecord

\* Passing the turn on makes one more case done.
LEMMA TurnPasses ==
  ASSUME IInv, stage = "execute", Advance("index"), UNCHANGED <<batch, results>>
  PROVE  /\ ~Done(next)
         /\ \A i \in DOMAIN batch : Done(i)' <=> Done(i) \/ i = next
         /\ \A i : Approved(i)' <=> Approved(i)
<1>1. /\ DOMAIN batch = 1 .. Len(batch) /\ Len(batch) \in Nat /\ next \in 1 .. Len(batch)
  BY StageFacts
<1>2. \/ next = Len(batch) /\ stage' = "index" /\ next' = 1
      \/ next < Len(batch) /\ stage' = stage /\ next' = next + 1
  BY AdvanceFacts DEF IInv
<1>3. ~Done(next)
  BY <1>1 DEF Done
<1>4. ASSUME NEW i \in DOMAIN batch
      PROVE  Done(i)' <=> Done(i) \/ i = next
  <2>1. i \in Nat /\ next \in Nat /\ i <= Len(batch)
    BY <1>1
  <2>2. Done(i) <=> i < next
    BY DEF Done
  <2>3. CASE next = Len(batch) /\ stage' = "index"
    BY <1>1, <2>1, <2>2, <2>3 DEF Done
  <2>4. CASE stage' = stage /\ next' = next + 1
    <3>1. Done(i)' <=> i < next + 1
      BY <2>4 DEF Done
    <3> QED
      BY <2>1, <2>2, <3>1
  <2> QED
    BY <1>2, <2>3, <2>4
<1>5. \A i : Approved(i)' <=> Approved(i)
  BY DEF Approved
<1> QED
  BY <1>3, <1>4, <1>5

\* Every case is one of the positions a call is made for.
LEMMA CasesArePositions ==
  ASSUME IInv
  PROVE  DOMAIN batch \subseteq Positions /\ next \in DOMAIN batch /\ next \in Positions
BY StageFacts, SubmissionsAreDeclared DEF Verdicts

\* The case whose turn it is gets its record, and gives its key back.
LEMMA StoredCase ==
  ASSUME IInv, CallBooks, RecordBooks, stage = "execute", Approved(next), Advance("index"),
         UNCHANGED <<batch, proposals, results>>, CaseKey(next) \in Execution!Keys,
         pc' = [pc EXCEPT ![CallOf(next)] = "returned"],
         request'[CallOf(next)] = RequestFor(next),
         \A i \in Positions \ {next} : request'[CallOf(i)] = request[CallOf(i)],
         NEW record, OwnRecord(record, next),
         records' = [records EXCEPT ![CaseKey(next)] = record],
         inFlight' = inFlight \ {CaseKey(next)}
  PROVE  CallBooks' /\ RecordBooks'
<1>0. PICK n : n = next
  OBVIOUS
<1>1. /\ ~Done(n)
      /\ \A i \in DOMAIN batch : Done(i)' <=> Done(i) \/ i = n
      /\ \A i : Approved(i)' <=> Approved(i)
  BY <1>0, TurnPasses
<1>2. n \in DOMAIN batch /\ DOMAIN batch \subseteq Positions
  BY <1>0, CasesArePositions
<1>3. \A i \in DOMAIN batch : Executed(i)' <=> Executed(i) \/ i = n
  BY <1>0, <1>1 DEF Executed
<1>4. \A i : /\ RequestFor(i)' = RequestFor(i) /\ CaseKey(i)' = CaseKey(i)
             /\ \A r : OwnRecord(r, i)' <=> OwnRecord(r, i)
  BY DEF RequestFor, CaseKey, OwnRecord
<1>5. /\ pc' = [pc EXCEPT ![CallOf(n)] = "returned"]
      /\ request'[CallOf(n)] = RequestFor(n)
      /\ \A i \in Positions \ {n} : request'[CallOf(i)] = request[CallOf(i)]
      /\ records' = [records EXCEPT ![CaseKey(n)] = record]
      /\ inFlight' = inFlight \ {CaseKey(n)}
      /\ CaseKey(n) \in Execution!Keys /\ Approved(n) /\ OwnRecord(record, n)
  BY <1>0
<1>7. CallBooks'
  <2>1. DOMAIN pc' = {CallOf(i) : i \in Positions}
    BY <1>5 DEF CallBooks
  <2>2. ASSUME NEW i \in Positions
        PROVE  /\ pc'[CallOf(i)] \in {"idle", "returned"}
               /\ pc'[CallOf(i)] = "returned" <=> i \in DOMAIN batch /\ Executed(i)'
               /\ pc'[CallOf(i)] # "idle" => Approved(i)' /\ request'[CallOf(i)] = RequestFor(i)'
    <3>1. CASE i = n
      <4>1. pc'[CallOf(n)] = "returned" /\ request'[CallOf(n)] = RequestFor(n)
        BY <1>2, <1>5 DEF CallBooks
      <4> QED
        BY <1>1, <1>2, <1>3, <1>4, <1>5, <3>1, <4>1
    <3>2. CASE i # n
      <4>1. CallOf(i) # CallOf(n)
        BY <3>2, CasesAreDistinct
      <4>2. pc'[CallOf(i)] = pc[CallOf(i)] /\ request'[CallOf(i)] = request[CallOf(i)]
        BY <1>5, <3>2, <4>1 DEF CallBooks
      <4>3. pc[CallOf(i)] # "awaiting"
        BY <1>0, <3>2 DEF CallBooks
      <4> QED
        BY <1>1, <1>3, <1>4, <3>2, <4>2, <4>3 DEF CallBooks
    <3> QED
      BY <3>1, <3>2
  <2> QED
    BY <2>1, <2>2 DEF CallBooks
<1>8. RecordBooks'
  <2>1. \A i : i # n => CaseKey(i) # CaseKey(n)
    BY CasesAreDistinct
  <2>2. DOMAIN records' = Execution!Keys
    BY <1>5 DEF RecordBooks
  <2>3. ASSUME NEW k \in Execution!Keys, records'[k] # NoRecord
        PROVE  \E i \in DOMAIN batch : Executed(i)' /\ k = CaseKey(i)
    <3>1. CASE k = CaseKey(n)
      BY <1>2, <1>3, <3>1
    <3>2. CASE k # CaseKey(n)
      BY <1>3, <1>5, <2>3, <3>2 DEF RecordBooks
    <3> QED
      BY <3>1, <3>2
  <2>4. ASSUME NEW i \in DOMAIN batch, Executed(i)'
        PROVE  OwnRecord(records'[CaseKey(i)], i)
    <3>1. CASE i = n
      BY <1>5, <3>1 DEF RecordBooks
    <3>2. CASE i # n
      <4>1. records'[CaseKey(i)] = records[CaseKey(i)]
        BY <1>5, <2>1, <3>2
      <4> QED
        BY <1>3, <2>4, <3>2, <4>1 DEF RecordBooks
    <3> QED
      BY <3>1, <3>2
  <2>5. inFlight' = {}
    <3>1. \A k \in inFlight : k = CaseKey(n)
      BY <1>0, <1>2 DEF RecordBooks, CallBooks
    <3> QED
      BY <1>5, <3>1
  <2>6. \A k \in Execution!Keys : NoRecord' = NoRecord
    BY DEF NoRecord, Execution!NoRecord
  <2> QED
    BY <1>4, <2>2, <2>3, <2>4, <2>5, <2>6 DEF RecordBooks
<1> QED
  BY <1>7, <1>8

------------------------------------------------------------------------------
(* The steps *)

\* A step that executes nothing leaves the books of the execution layer true.
LEMMA ExecutionFrame ==
  ASSUME CallBooks, RecordBooks, UNCHANGED <<batch, executionVars>>,
         \A i \in DOMAIN batch : Executed(i)' <=> Executed(i),
         \A i \in Positions : pc[CallOf(i)] # "awaiting",
         DOMAIN batch \subseteq Positions,
         UNCHANGED <<proposals, results>> \/ \A i \in DOMAIN batch : ~Executed(i)
  PROVE  CallBooks' /\ RecordBooks'
<1>1. UNCHANGED <<pc, request, records, inFlight>>
  BY DEF executionVars
<1>2. ASSUME NEW i \in DOMAIN batch, Executed(i)
      PROVE  /\ Approved(i)' <=> Approved(i)
             /\ RequestFor(i)' = RequestFor(i)
  BY <1>2 DEF Approved, RequestFor
<1>4. CallBooks'
  <2> SUFFICES ASSUME NEW i \in Positions
               PROVE  /\ pc[CallOf(i)] \in {"idle", "returned"}
                      /\ pc[CallOf(i)] = "returned" <=> i \in DOMAIN batch /\ Executed(i)'
                      /\ pc[CallOf(i)] # "idle" =>
                           Approved(i)' /\ request[CallOf(i)] = RequestFor(i)'
    BY <1>1 DEF CallBooks
  <2>1. /\ pc[CallOf(i)] \in {"idle", "returned"}
        /\ pc[CallOf(i)] = "returned" <=> i \in DOMAIN batch /\ Executed(i)
    BY DEF CallBooks
  <2>2. CASE pc[CallOf(i)] = "returned"
    BY <1>2, <2>1, <2>2 DEF CallBooks
  <2>3. CASE pc[CallOf(i)] = "idle"
    BY <2>1, <2>3
  <2> QED
    BY <2>1, <2>2, <2>3
<1>5. RecordBooks'
  <2>1. inFlight = {} /\ NoRecord' = NoRecord
    BY DEF RecordBooks, NoRecord, Execution!NoRecord
  <2>2. CASE UNCHANGED <<proposals, results>>
    <3>1. \A i : /\ CaseKey(i)' = CaseKey(i)
                 /\ \A r : OwnRecord(r, i)' <=> OwnRecord(r, i)
      BY <2>2 DEF CaseKey, OwnRecord
    <3>2. \A i \in DOMAIN batch : Executed(i) => OwnRecord(records[CaseKey(i)], i)
      BY DEF RecordBooks
    <3> QED
      BY <1>1, <2>1, <3>1, <3>2 DEF RecordBooks
  <2>3. CASE \A i \in DOMAIN batch : ~Executed(i)
    BY <1>1, <2>1, <2>3 DEF RecordBooks
  <2> QED
    BY <2>2, <2>3
<1> QED
  BY <1>4, <1>5

\* Before the execution stage nothing is executed, nor by the step into it.
LEMMA EarlyBooks ==
  ASSUME IInv, CallBooks, RecordBooks, UNCHANGED <<batch, executionVars>>,
         stage \in {"diagnose", "decide", "authorize"},
         stage' \in {"diagnose", "decide", "authorize"} \/ (stage' = "execute" /\ next' = 1)
  PROVE  CallBooks' /\ RecordBooks'
<1>1. \A i \in DOMAIN batch : ~Executed(i)
  BY DEF Executed, Done
<1>2. \A i \in DOMAIN batch : ~Executed(i)'
  <2>1. DOMAIN batch = 1 .. Len(batch) /\ Len(batch) \in Nat
    BY StageFacts
  <2>2. \A i \in DOMAIN batch : ~(i < 1)
    BY <2>1
  <2> QED
    BY <2>2 DEF Executed, Done
<1>3. \A i \in Positions : pc[CallOf(i)] # "awaiting"
  BY DEF CallBooks
<1>4. DOMAIN batch \subseteq Positions
  BY CasesArePositions
<1> QED
  BY <1>1, <1>2, <1>3, <1>4, ExecutionFrame

LEMMA EarlyCases ==
  ASSUME CaseInvariant, DiagnoseNext \/ DecideAll \/ AuthorizeNext
  PROVE  CaseInvariant'
<1> USE DEF CaseInvariant
<1>1. IInv'
  BY DiagnoseStep, DecideStep, AuthorizeStep
<1>2. UNCHANGED <<batch, executionVars>>
  BY DEF DiagnoseNext, DecideAll, AuthorizeNext
<1>3. /\ stage \in {"diagnose", "decide", "authorize"}
      /\ stage' \in {"diagnose", "decide", "authorize"} \/ (stage' = "execute" /\ next' = 1)
  <2>1. CASE DiagnoseNext
    <3>1. stage = "diagnose" /\ Advance("decide") /\ batch' = batch
      BY <2>1 DEF DiagnoseNext
    <3> QED
      BY <3>1, AdvanceFacts DEF IInv
  <2>2. CASE DecideAll
    BY <2>2 DEF DecideAll
  <2>3. CASE AuthorizeNext
    <3>1. stage = "authorize" /\ Advance("execute") /\ batch' = batch
      BY <2>3 DEF AuthorizeNext
    <3> QED
      BY <3>1, AdvanceFacts DEF IInv
  <2> QED
    BY <2>1, <2>2, <2>3
<1>4. CallBooks' /\ RecordBooks'
  BY <1>2, <1>3, EarlyBooks
<1>5. GatewayBooks' /\ Answers'
  <2>1. CASE DiagnoseNext
    BY <2>1, GatewayFrame DEF DiagnoseNext
  <2>2. CASE DecideAll
    <3>1. UNCHANGED <<batch, gatewayVars>> /\ stage = "decide"
      BY <2>2 DEF DecideAll
    <3>2. results = <<>>
      BY <3>1, StageFacts
    <3> QED
      BY <3>1, <3>2, GatewayFrame
  <2>3. CASE AuthorizeNext
    BY <2>3, AuthorizeBooks
  <2> QED
    BY <2>1, <2>2, <2>3
<1>6. ItemsShown'
  BY <1>3 DEF ItemsShown
<1> QED
  BY <1>1, <1>4, <1>5, <1>6

LEMMA SkippedCase ==
  ASSUME CaseInvariant, SkipNext
  PROVE  CaseInvariant'
<1> USE DEF CaseInvariant
<1>1. IInv'
  BY SkipStep
<1>2. /\ stage = "execute" /\ ~Approved(next) /\ Advance("index")
      /\ UNCHANGED <<batch, proposals, results, gatewayVars, executionVars>>
  BY DEF SkipNext, IsAuthorized, Approved, gatewayVars
<1>3. GatewayBooks' /\ Answers'
  BY <1>2, GatewayFrame
<1>4. \A i \in DOMAIN batch : Executed(i)' <=> Executed(i)
  BY <1>2, TurnPasses DEF Executed
<1>5. \A i \in Positions : pc[CallOf(i)] # "awaiting"
  BY <1>2 DEF CallBooks
<1>6. CallBooks' /\ RecordBooks'
  BY <1>2, <1>4, <1>5, CasesArePositions, ExecutionFrame
<1>7. ItemsShown'
  BY <1>2, AdvanceFacts DEF ItemsShown, IInv
<1> QED
  BY <1>1, <1>3, <1>6, <1>7

\* What is shown of a case follows the records the calls returned.
LEMMA ItemsFollow ==
  ASSUME UNCHANGED <<batch, proposals, results>>,
         \A j : (Returned(j)' <=> Returned(j)) /\ RecordAt(j)' = RecordAt(j)
  PROVE  \A i : ItemOf(i)' = ItemOf(i)
<1>1. ASSUME NEW i PROVE RecordOf(i)' = RecordOf(i)
  <2> DEFINE key == ExecutionId(DeriveProposalId(batch[i].kind, i))
             mine == {j \in DOMAIN batch : Returned(j) /\ RecordAt(j).proposal = key}
  <2>1. mine' = mine
    OBVIOUS
  <2>2. RecordOf(i) = IF mine = {} THEN NoRecord ELSE RecordAt(Max(mine))
    BY DEF RecordOf
  <2>3. RecordOf(i)' = IF mine' = {} THEN NoRecord ELSE RecordAt(Max(mine))'
    BY DEF RecordOf, NoRecord, Execution!NoRecord
  <2> HIDE DEF mine
  <2> QED
    BY <2>1, <2>2, <2>3
<1> QED
  BY <1>1 DEF ItemOf

LEMMA IndexedCases ==
  ASSUME CaseInvariant, Index
  PROVE  CaseInvariant'
<1> USE DEF CaseInvariant
<1>1. IInv'
  BY IndexStep
<1>2. /\ stage = "index" /\ stage' = "ready"
      /\ items' = [i \in DOMAIN batch |-> ItemOf(i)]
      /\ UNCHANGED <<batch, proposals, results, gatewayVars, executionVars>>
  BY DEF Index, gatewayVars
<1>3. GatewayBooks' /\ Answers'
  BY <1>2, GatewayFrame
<1>4. \A i \in DOMAIN batch : Executed(i)' <=> Executed(i)
  BY <1>2 DEF Executed, Done, Approved
<1>5. \A i \in Positions : pc[CallOf(i)] # "awaiting"
  BY <1>2 DEF CallBooks
<1>6. CallBooks' /\ RecordBooks'
  BY <1>2, <1>4, <1>5, CasesArePositions, ExecutionFrame
<1>7. ItemsShown'
  <2>1. \A j : (Returned(j)' <=> Returned(j)) /\ RecordAt(j)' = RecordAt(j)
    BY <1>2 DEF executionVars, Returned, RecordAt, Execution!KeyOf, Execution!NoKey,
                Execution!DeriveExecutionIdempotencyKey
  <2>2. \A i : ItemOf(i)' = ItemOf(i)
    BY <1>2, <2>1, ItemsFollow
  <2> QED
    BY <1>2, <2>2 DEF ItemsShown
<1> QED
  BY <1>1, <1>3, <1>6, <1>7

\* An approved case is deferred at once, or handed to the provider.
LEMMA ExecutedCase ==
  ASSUME CaseInvariant, ExecuteNext
  PROVE  CaseInvariant'
<1> USE DEF CaseInvariant
<1> DEFINE c == CallOf(next)
           r == RequestFor(next)
           k == CaseKey(next)
<1>1. IInv'
  BY ExecuteStep
<1>2. /\ stage = "execute" /\ Approved(next) /\ Execution!ExecuteRecovery(c, r)
      /\ IF pc'[c] = "awaiting" THEN UNCHANGED <<stage, next>> ELSE Advance("index")
      /\ UNCHANGED <<batch, proposals, results, gatewayVars>>
  BY DEF ExecuteNext, IsAuthorized, Approved, RequestFor, gatewayVars
<1>3. /\ next \in DOMAIN batch /\ next \in Positions /\ DOMAIN batch \subseteq Positions
      /\ next \in DOMAIN results
  BY <1>2, CasesArePositions, StageFacts
<1>4. GatewayBooks' /\ Answers'
  BY <1>2, GatewayFrame
<1>5. ItemsShown'
  BY <1>2, AdvanceFacts DEF ItemsShown, IInv
<1>6. /\ Execution!KeyOf(r) = k /\ k \in Execution!Keys /\ Execution!RevalidateAuthorization(r)
      /\ r.target.amount = batch[next].amount /\ r.target.currency = "INR"
      /\ r.proposal.id = ExecutionId(DeriveProposalId(batch[next].kind, next))
      /\ r.proposal.action = proposals[next].action
  BY <1>2, <1>3, RequestIsAccepted
<1>7. /\ c \in DOMAIN pc /\ c \in DOMAIN request
      /\ \A i : i # next => CallOf(i) # c
      /\ \A i \in Positions : CallOf(i) \in DOMAIN request
  BY <1>3, CasesAreDistinct DEF CallBooks, IInv, Handed
<1> HIDE DEF c, r, k
<1>8. pc[c] = "idle"
  BY <1>2 DEF Execution!ExecuteRecovery, Execution!Refuse, Execution!Replay,
     Execution!Conflict, Execution!Defer, Execution!Dispatch, Execution!Enter
<1>9. Execution!StartExecution(k)
  BY <1>2, <1>6, <1>8, KeyIsFree DEF c, k
<1>10. CASE Execution!Defer(c, r)
  <2> DEFINE record == Execution!NewRecord(c, r, "DEFERRED", Execution!NoRef)
  <2>1. /\ pc' = [pc EXCEPT ![c] = "returned"] /\ request' = [request EXCEPT ![c] = r]
        /\ r.proposal.action = "RETRY_LATER"
        /\ records' = [records EXCEPT ![k] = record] /\ inFlight' = inFlight \ {k}
    BY <1>6, <1>10 DEF Execution!Defer, Execution!Enter, Execution!CompleteExecution
  <2>2. Advance("index")
    BY <1>2, <1>7, <2>1
  <2>3. OwnRecord(record, next)
    BY <1>6, <2>1 DEF OwnRecord, Execution!NewRecord, c
  <2> HIDE DEF record
  <2>4. /\ request'[c] = r
        /\ \A i \in Positions \ {next} : request'[CallOf(i)] = request[CallOf(i)]
    BY <1>7, <2>1
  <2>5. CallBooks' /\ RecordBooks'
    BY <1>2, <1>6, <2>1, <2>2, <2>3, <2>4, StoredCase DEF c, r, k
  <2> QED
    BY <1>1, <1>4, <1>5, <2>5
<1>11. CASE Execution!Dispatch(c, r)
  <2>1. /\ pc' = [pc EXCEPT ![c] = "awaiting"] /\ request' = [request EXCEPT ![c] = r]
        /\ r.proposal.action # "RETRY_LATER"
        /\ records' = records /\ inFlight' = inFlight \cup {k}
    BY <1>6, <1>11 DEF Execution!Dispatch, Execution!Enter
  <2>2. stage' = stage /\ next' = next
    BY <1>2, <1>7, <2>1
  <2>3. \A i : /\ Approved(i)' <=> Approved(i)
               /\ Executed(i)' <=> Executed(i)
               /\ RequestFor(i)' = RequestFor(i) /\ CaseKey(i)' = CaseKey(i)
               /\ \A x : OwnRecord(x, i)' <=> OwnRecord(x, i)
    BY <1>2, <2>2 DEF Approved, Executed, Done, RequestFor, CaseKey, OwnRecord
  <2>4. pc'[c] = "awaiting" /\ request'[c] = r
    BY <1>7, <2>1
  <2>5. \A i \in Positions \ {next} : /\ pc'[CallOf(i)] = pc[CallOf(i)]
                                      /\ request'[CallOf(i)] = request[CallOf(i)]
    BY <1>7, <2>1 DEF CallBooks
  <2>6. CallBooks'
    <3>1. DOMAIN pc' = {CallOf(i) : i \in Positions}
      BY <2>1 DEF CallBooks
    <3>2. ASSUME NEW i \in Positions
          PROVE  /\ pc'[CallOf(i)] \in {"idle", "awaiting", "returned"}
                 /\ pc'[CallOf(i)] = "returned" <=> i \in DOMAIN batch /\ Executed(i)
                 /\ pc'[CallOf(i)] = "awaiting" =>
                      i = next /\ proposals[i].action # "RETRY_LATER"
                 /\ pc'[CallOf(i)] # "idle" =>
                      Approved(i) /\ request'[CallOf(i)] = RequestFor(i)
      <4>1. CASE i = next
        <5>1. ~(i \in DOMAIN batch /\ Executed(i))
          BY <1>3, <1>8, <4>1 DEF CallBooks, c
        <5> QED
          BY <1>2, <1>6, <2>1, <2>4, <4>1, <5>1 DEF c, r
      <4>2. CASE i # next
        BY <2>5, <4>2 DEF CallBooks
      <4> QED
        BY <4>1, <4>2
    <3> QED
      BY <1>2, <2>2, <2>3, <3>1, <3>2 DEF CallBooks
  <2>7. RecordBooks'
    <3>1. \A x \in inFlight' : x = k
      <4>1. \A x \in inFlight : \E i \in DOMAIN batch : pc[CallOf(i)] = "awaiting"
        BY DEF RecordBooks
      <4>2. inFlight = {}
        BY <1>3, <1>8, <4>1 DEF CallBooks, c
      <4> QED
        BY <2>1, <4>2
    <3>2. NoRecord' = NoRecord
      BY DEF NoRecord, Execution!NoRecord
    <3>3. \A x \in inFlight' : \E i \in DOMAIN batch :
                                  pc'[CallOf(i)] = "awaiting" /\ x = CaseKey(i)
      BY <1>3, <2>4, <3>1 DEF c, k
    <3> QED
      BY <1>2, <2>1, <2>3, <3>2, <3>3 DEF RecordBooks
  <2> QED
    BY <1>1, <1>4, <1>5, <2>6, <2>7
<1>12. ~Execution!Refuse(c, r) /\ ~Execution!Replay(c, r) /\ ~Execution!Conflict(c, r)
  BY <1>6, <1>9 DEF Execution!Refuse, Execution!Replay, Execution!Conflict
<1> QED
  BY <1>2, <1>10, <1>11, <1>12 DEF Execution!ExecuteRecovery

\* The provider answers, or fails to, and the case has its record.
LEMMA AnsweredCase ==
  ASSUME CaseInvariant, AwaitNext
  PROVE  CaseInvariant'
<1> USE DEF CaseInvariant
<1> DEFINE c == CallOf(next)
           k == CaseKey(next)
<1>1. IInv'
  BY AwaitStep
<1>2. /\ stage = "execute" /\ Execution!Respond(c) /\ Advance("index")
      /\ UNCHANGED <<batch, proposals, results, gatewayVars>>
  BY DEF AwaitNext, gatewayVars
<1>3. next \in DOMAIN batch /\ next \in Positions /\ next \in DOMAIN results
  BY <1>2, CasesArePositions, StageFacts
<1>4. GatewayBooks' /\ Answers'
  BY <1>2, GatewayFrame
<1>5. ItemsShown'
  BY <1>2, AdvanceFacts DEF ItemsShown, IInv
<1>6. pc[c] = "awaiting"
  BY <1>2 DEF Execution!Respond
<1>7. /\ Approved(next) /\ request[c] = RequestFor(next)
      /\ proposals[next].action # "RETRY_LATER"
  BY <1>3, <1>6 DEF CallBooks
<1>8. /\ Execution!KeyOf(request[c]) = k /\ k \in Execution!Keys
      /\ request[c].target.amount = batch[next].amount /\ request[c].target.currency = "INR"
      /\ request[c].proposal.id = ExecutionId(DeriveProposalId(batch[next].kind, next))
  BY <1>3, <1>7, RequestIsAccepted
<1> HIDE DEF c, k
<1>9. PICK resp \in Execution!Responses(c) :
        LET status == Execution!StatusOfResponse(resp.normalized) IN
        /\ Execution!CanTransition("PROVIDER_REQUESTED", status)
        /\ Execution!CompleteExecution(Execution!KeyOfCall(c),
             Execution!NewRecord(c, request[c], status, resp.ref))
  BY <1>2 DEF Execution!Respond
<1> DEFINE status == Execution!StatusOfResponse(resp.normalized)
           record == Execution!NewRecord(c, request[c], status, resp.ref)
<1>10. status \in {"SUCCEEDED", "FAILED", "UNKNOWN_PROVIDER_STATE"}
  BY DEF Execution!StatusOfResponse
<1>11. OwnRecord(record, next)
  BY <1>7, <1>8, <1>10 DEF OwnRecord, Execution!NewRecord, c
<1>12. /\ pc' = [pc EXCEPT ![c] = "returned"] /\ request' = request
       /\ records' = [records EXCEPT ![k] = record] /\ inFlight' = inFlight \ {k}
  BY <1>2, <1>8, <1>9 DEF Execution!Respond, Execution!CompleteExecution, Execution!KeyOfCall
<1> HIDE DEF status, record
<1>13. CallBooks' /\ RecordBooks'
  BY <1>2, <1>7, <1>8, <1>11, <1>12, StoredCase DEF c, k
<1> QED
  BY <1>1, <1>4, <1>5, <1>13

LEMMA UnchangedCases ==
  ASSUME CaseInvariant, UNCHANGED vars
  PROVE  CaseInvariant'
<1> USE DEF CaseInvariant
<1>1. IInv'
  BY StutterStep
<1>2. /\ UNCHANGED <<batch, stage, next, proposals, results, items, gatewayVars>>
      /\ UNCHANGED <<pc, request, records, inFlight>>
  BY DEF vars, pipelineVars, executionVars, gatewayVars
<1>3. GatewayBooks' /\ Answers'
  BY <1>2, GatewayFrame
<1>4. \A i : /\ Approved(i)' <=> Approved(i)
             /\ Executed(i)' <=> Executed(i)
             /\ RequestFor(i)' = RequestFor(i) /\ CaseKey(i)' = CaseKey(i)
             /\ \A x : OwnRecord(x, i)' <=> OwnRecord(x, i)
  BY <1>2 DEF Approved, Executed, Done, RequestFor, CaseKey, OwnRecord
<1>5. CallBooks'
  BY <1>2, <1>4 DEF CallBooks
<1>6. RecordBooks'
  <2>1. NoRecord' = NoRecord
    BY DEF NoRecord, Execution!NoRecord
  <2> QED
    BY <1>2, <1>4, <2>1 DEF RecordBooks
<1>7. ItemsShown'
  <2>1. \A j : (Returned(j)' <=> Returned(j)) /\ RecordAt(j)' = RecordAt(j)
    BY <1>2 DEF Returned, RecordAt, Execution!KeyOf, Execution!NoKey,
                Execution!DeriveExecutionIdempotencyKey
  <2>2. \A i : ItemOf(i)' = ItemOf(i)
    BY <1>2, <2>1, ItemsFollow
  <2> QED
    BY <1>2, <2>2 DEF ItemsShown
<1> QED
  BY <1>1, <1>3, <1>5, <1>6, <1>7

LEMMA CasesStart == PipelineInit => CaseInvariant
<1> SUFFICES ASSUME PipelineInit PROVE CaseInvariant
  OBVIOUS
<1>1. IInv
  BY InitEstablishes
<1>2. /\ stage = "diagnose" /\ results = <<>> /\ DOMAIN results = {}
      /\ \A i \in DOMAIN batch : ~Executed(i)
  BY DEF PipelineInit, Gateway!Init, Executed, Done
<1>3. GatewayBooks
  <2>1. \A i \in DOMAIN batch : Target(i) \in Gateway!Targets
    BY <1>1, StageFacts, CaseIsKnown
  <2>2. \A c : ApprovedOf(c) = {}
    BY <1>2 DEF ApprovedOf
  <2>3. /\ targetStore = [k \in Gateway!Targets |-> Gateway!NoEntry]
        /\ targetTimes = [k \in Gateway!Targets |-> {}]
        /\ customerTimes = [c \in Gateway!Customers |-> {}]
    BY DEF PipelineInit, Gateway!Init
  <2> QED
    BY <2>1, <2>2, <2>3 DEF GatewayBooks
<1>4. Answers
  BY <1>2 DEF Answers
<1>5. /\ pc = [c \in {CallOf(i) : i \in Positions} |-> "idle"]
      /\ records = [k \in Execution!Keys |-> NoRecord] /\ inFlight = {}
  BY DEF PipelineInit, Execution!Init, NoRecord
<1>6. CallBooks
  BY <1>2, <1>5 DEF CallBooks
<1>7. RecordBooks
  BY <1>2, <1>5 DEF RecordBooks
<1>8. ItemsShown
  BY <1>2 DEF ItemsShown
<1> QED
  BY <1>1, <1>3, <1>4, <1>6, <1>7, <1>8 DEF CaseInvariant

------------------------------------------------------------------------------
(* The theorems *)

\* The books of gateway and execution layer hold what the cases so far put there, and
\* nothing of the cases to come.
THEOREM CaseInvariantHolds == PipelineSpec => []CaseInvariant
<1>1. PipelineInit => CaseInvariant
  BY CasesStart
<1>2. CaseInvariant /\ [PipelineNext]_vars => CaseInvariant'
  <2> SUFFICES ASSUME CaseInvariant, [PipelineNext]_vars PROVE CaseInvariant'
    OBVIOUS
  <2> QED
    BY EarlyCases, SkippedCase, ExecutedCase, AnsweredCase, IndexedCases, UnchangedCases
       DEF PipelineNext
<1> QED
  BY <1>1, <1>2, PTL DEF PipelineSpec

\* In any dataset and whatever the model replies: the gateway answers every proposal of
\* the decision agent exactly as the agent's own limits and the customer's approvals so
\* far say, and the execution layer refuses nothing the gateway approved.
THEOREM CheckersAlwaysAgree == PipelineSpec => []CheckersAgree
<1>1. CaseInvariant => CheckersAgree
  <2> SUFFICES ASSUME CaseInvariant PROVE CheckersAgree
    OBVIOUS
  <2>1. \A i \in DOMAIN results : AnswerAgrees(i)
    BY DEF CaseInvariant, Answers
  <2>2. \A i \in Positions : pc[CallOf(i)] \notin {"refused", "conflict", "replayed"}
    BY DEF CaseInvariant, CallBooks
  <2> QED
    BY <2>1, <2>2 DEF CheckersAgree, AnswerAgrees, ExplainedAway, Answered
<1> QED
  BY <1>1, CaseInvariantHolds, PTL

\* A case that was approved shows the record of its own call, and no other case shows one.
LEMMA ShownRecord ==
  ASSUME CaseInvariant, stage = "ready", NEW i \in DOMAIN batch
  PROVE  /\ items[i].record = IF Approved(i) THEN RecordAt(i) ELSE NoRecord
         /\ Approved(i) => OwnRecord(RecordAt(i), i) /\ RecordAt(i) # NoRecord
<1> USE DEF CaseInvariant
<1>1. items[i].record = RecordOf(i)
  <2>1. items[i] = ItemOf(i)
    BY DEF ItemsShown
  <2>2. PICK record : record = RecordOf(i)
    OBVIOUS
  <2>3. ItemOf(i).record = record
    BY <2>2 DEF ItemOf
  <2> QED
    BY <2>1, <2>2, <2>3
<1>2. DOMAIN batch \subseteq Positions /\ DOMAIN batch = DOMAIN results
      /\ DOMAIN batch = 1 .. Len(batch)
  BY CasesArePositions, StageFacts
<1>3. ASSUME NEW j \in DOMAIN batch
      PROVE  /\ Returned(j) <=> Approved(j)
             /\ Approved(j) => RecordAt(j) = records[CaseKey(j)] /\ OwnRecord(RecordAt(j), j)
  <2>1. pc[CallOf(j)] \in {"returned", "replayed"} <=> Executed(j)
    BY <1>2 DEF CallBooks
  <2>2. Executed(j) <=> Approved(j)
    BY DEF Executed, Done
  <2>3. Approved(j) => request[CallOf(j)] = RequestFor(j) /\ OwnRecord(records[CaseKey(j)], j)
    BY <1>2, <2>1, <2>2 DEF CallBooks, RecordBooks
  <2>4. Approved(j) => Execution!KeyOf(RequestFor(j)) = CaseKey(j)
    BY <1>2, RequestIsAccepted
  <2> QED
    BY <2>1, <2>2, <2>3, <2>4 DEF Returned, RecordAt
<1> DEFINE key == ExecutionId(DeriveProposalId(batch[i].kind, i))
           mine == {j \in DOMAIN batch : Returned(j) /\ RecordAt(j).proposal = key}
<1>4. RecordOf(i) = IF mine = {} THEN NoRecord ELSE RecordAt(Max(mine))
  BY DEF RecordOf
<1>5. mine = IF Approved(i) THEN {i} ELSE {}
  <2>1. \A j \in DOMAIN batch :
          Approved(j) => (RecordAt(j).proposal = key <=> j = i)
    BY <1>3, CasesAreDistinct DEF OwnRecord
  <2> QED
    BY <1>3, <2>1
<1> HIDE DEF mine
<1>6. Max({i}) = i
  <2>1. i \in Nat
    BY <1>2
  <2> QED
    BY <2>1 DEF Max
<1>7. Approved(i) => RecordOf(i) = RecordAt(i)
  BY <1>4, <1>5, <1>6
<1>8. ~Approved(i) => RecordOf(i) = NoRecord
  BY <1>4, <1>5
<1>9. NoRecord.status = "ABSENT"
  BY DEF NoRecord, Execution!NoRecord
<1>10. Approved(i) => RecordAt(i) # NoRecord
  BY <1>3, <1>9 DEF OwnRecord
<1> QED
  BY <1>1, <1>3, <1>7, <1>8, <1>10

\* In any dataset, when the list of cases is ready, each case shows the record of its own
\* execution, and shows one exactly if it was authorised.
THEOREM EveryCaseShowsItsOwnRecord == PipelineSpec => []EachCaseShowsItsOwnRecord
<1>1. CaseInvariant => EachCaseShowsItsOwnRecord
  BY ShownRecord DEF EachCaseShowsItsOwnRecord, Finished, OwnRecord
<1> QED
  BY <1>1, CaseInvariantHolds, PTL

\* The pipeline is a behaviour of both components: whatever batch it runs, it puts nothing
\* before the gateway or the execution layer, and does nothing to their state, that the
\* specification of either alone does not have. So what is proved of them holds here.
THEOREM PipelineRunsItsComponents == PipelineSpec => Gateway!Spec /\ Execution!Spec
<1>1. PipelineInit => Gateway!Init /\ Execution!Init
  BY DEF PipelineInit
<1>2. CaseInvariant /\ [PipelineNext]_vars => [Gateway!Next]_(Gateway!vars)
  <2> SUFFICES ASSUME CaseInvariant, [PipelineNext]_vars
               PROVE  Gateway!Next \/ UNCHANGED Gateway!vars
    OBVIOUS
  <2>1. CASE AuthorizeNext
    <3>1. stage = "authorize" /\ Gateway!EvaluateProposal(Expected(next))
      BY <2>1 DEF AuthorizeNext, Expected
    <3>2. next \in DOMAIN batch /\ batch \in Batches /\ next \in DOMAIN proposals
      BY <3>1, StageFacts DEF CaseInvariant
    <3>3. proposals[next] \in Verdicts
      BY <3>2, DecideGivesAVerdict DEF CaseInvariant, IInv, Proposed
    <3>4. Expected(next) \in Submissions
      BY <3>2, <3>3, SubmissionsAreDeclared DEF Expected
    <3> QED
      BY <3>1, <3>4 DEF Gateway!Next
  <2>2. CASE UNCHANGED gatewayVars
    BY <2>2 DEF gatewayVars, Gateway!vars, Gateway!killSwitch, Gateway!store, Gateway!limiter
  <2> QED
    BY <2>1, <2>2 DEF PipelineNext, DiagnoseNext, DecideAll, SkipNext, ExecuteNext, AwaitNext,
                      Index, vars
<1>3. CaseInvariant /\ [PipelineNext]_vars => [Execution!Next]_(Execution!vars)
  <2> SUFFICES ASSUME CaseInvariant, [PipelineNext]_vars
               PROVE  Execution!Next \/ UNCHANGED Execution!vars
    OBVIOUS
  <2> DEFINE calls == {CallOf(i) : i \in Positions}
  <2>1. ASSUME stage = "execute"
        PROVE  /\ next \in DOMAIN batch /\ next \in DOMAIN results /\ CallOf(next) \in calls
    BY <2>1, StageFacts, CasesArePositions DEF CaseInvariant
  <2>2. CASE ExecuteNext
    <3>1. Approved(next) /\ Execution!ExecuteRecovery(CallOf(next), RequestFor(next))
      BY <2>2 DEF ExecuteNext, IsAuthorized, Approved, RequestFor
    <3>2. RequestFor(next) \in Requests /\ CallOf(next) \in calls
      BY <2>1, <2>2, <3>1, RequestIsAccepted DEF ExecuteNext, CaseInvariant
    <3> QED
      BY <3>1, <3>2 DEF Execution!Next
  <2>3. CASE AwaitNext
    <3>1. Execution!Respond(CallOf(next)) /\ CallOf(next) \in calls
      BY <2>1, <2>3 DEF AwaitNext
    <3> QED
      BY <3>1 DEF Execution!Next
  <2>4. CASE UNCHANGED executionVars
    BY <2>4 DEF executionVars, Execution!vars, Execution!service, Execution!manager,
                Execution!gateway
  <2> QED
    BY <2>2, <2>3, <2>4 DEF PipelineNext, DiagnoseNext, DecideAll, AuthorizeNext, SkipNext,
                            Index, vars
<1> QED
  BY <1>1, <1>2, <1>3, CaseInvariantHolds, PTL DEF PipelineSpec, Gateway!Spec, Execution!Spec
==============================================================================
