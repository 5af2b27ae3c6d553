---------------------------- MODULE PipelineProofs -----------------------------
(***************************************************************************)
(* The pipeline, for any datasets and any replies of the language model:   *)
(* its types, that nothing critical is authorised, and that no unproven    *)
(* hard decline is charged again.                                          *)
(*                                                                         *)
(* The argument joins the components. What the gateway holds of a case is  *)
(* what the decision agent submitted for it (the gateway is asked once per *)
(* case, so no stored decision is replayed); what it approved passed its   *)
(* own policy checks; and what the execution layer dispatched is what the  *)
(* gateway approved.                                                       *)
(***************************************************************************)
EXTENDS PipelineProperties, DecisionProofs

------------------------------------------------------------------------------
(* Cases, submissions and verdicts *)

LEMMA BpsIsAnInteger ==
  ASSUME NEW part \in Int, NEW whole \in Nat
  PROVE  Bps(part, whole) \in Int
<1>1. CASE whole > 0
  BY <1>1, SMT DEF Bps
<1>2. CASE ~(whole > 0)
  BY <1>2 DEF Bps
<1> QED
  BY <1>1, <1>2

LEMMA CaseFacts ==
  ASSUME NEW b \in Batches, NEW i \in DOMAIN b
  PROVE  /\ ContextOf(b[i]).attempts \in Nat
         /\ ContextOf(b[i]).success \in Int
         /\ Len(b) \in Nat \ {0}
         /\ DOMAIN b = 1 .. Len(b)
<1>1. Generated(b[i]) /\ b \in Seq({b[j] : j \in DOMAIN b}) /\ Len(b) > 0
  BY PipelineAssumption
<1>2. Len(b) \in Nat \ {0} /\ DOMAIN b = 1 .. Len(b)
  BY <1>1
<1>3. Len(b[i].codes) \in Nat
  <2>1. CASE b[i].codes = <<>>
    BY <2>1
  <2>2. CASE Len(b[i].codes) \in 1 .. 3
    BY <2>2
  <2> QED
    BY <1>1, <2>1, <2>2 DEF Generated
<1>4. Bps(b[i].captured, b[i].prior) \in Int
  <2>1. b[i].prior \in Nat /\ b[i].captured \in Int
    BY <1>1 DEF Generated
  <2> QED
    BY <2>1, BpsIsAnInteger
<1> QED
  BY <1>2, <1>3, <1>4 DEF ContextOf

LEMMA DecideGivesAVerdict ==
  ASSUME NEW x, NEW d
  PROVE  Decide(x, d) \in Verdicts
BY DEF Decide, Route, Verdicts

LEMMA SubmissionsAreDeclared ==
  ASSUME NEW b \in Batches, NEW i \in DOMAIN b, NEW v \in Verdicts
  PROVE  /\ SubmissionOf(i, b[i], v) \in Submissions
         /\ DeriveProposalId(b[i].kind, i) \in Gateway!ProposalIds
         /\ i \in Positions
<1>1. <<i, b[i]>> \in Places
  BY DEF Places
<1>2. i \in Positions
  <2>1. <<i, b[i]>>[1] = i
    OBVIOUS
  <2> QED
    BY <1>1, <2>1 DEF Positions
<1>3. SubmissionOf(i, b[i], v) \in Submissions
  <2>1. SubmissionOf(<<i, b[i]>>[1], <<i, b[i]>>[2], v) \in Submissions
    BY <1>1 DEF Submissions
  <2> QED
    BY <2>1
<1>4. SubmissionOf(i, b[i], v).proposal.id = DeriveProposalId(b[i].kind, i)
  BY DEF SubmissionOf
<1> QED
  BY <1>2, <1>3, <1>4 DEF Gateway!ProposalIds

LEMMA RepliesAreKnown ==
  ASSUME NEW c, NEW reply \in Replies(c)
  PROVE  Diagnose(reply) \in Diagnoses
<1>1. CASE Provider = "mock"
  <2>1. reply = [http |-> 200, payload |-> MockPayload(InputOf(c))]
    BY <1>1 DEF Replies, MockReply
  <2>2. MockPayload(InputOf(c)) \in Payloads
    BY DEF MockPayload, Payloads, Categories
  <2>3. reply \in HTTPReplies
    BY <2>1, <2>2 DEF HTTPReplies
  <2> QED
    BY <2>3, EveryReplyIsADiagnosis
<1>2. CASE Provider # "mock"
  <2>1. reply \in HTTPReplies
    BY <1>2, PipelineAssumption DEF Replies
  <2> QED
    BY <2>1, EveryReplyIsADiagnosis
<1> QED
  BY <1>1, <1>2

------------------------------------------------------------------------------
(* The gateway, asked about a proposal it has not decided *)

\* It appends one result, for what was submitted; it approves only within its policy;
\* and it decides for no proposal but this one.
LEMMA FirstEvaluation ==
  ASSUME NEW s, Gateway!EvaluateProposal(s),
         DOMAIN primary = Gateway!ProposalIds, s.proposal.id \in Gateway!ProposalIds,
         primary[s.proposal.id] = Gateway!NoDecision
  PROVE  /\ \E d \in Gateway!Decisions, e \in BOOLEAN :
              /\ results' = Append(results, Gateway!Result(s, d, e, FALSE))
              /\ d = "APPROVED" => Gateway!WithinPolicy(s)
         /\ DOMAIN primary' = Gateway!ProposalIds
         /\ \A p \in Gateway!ProposalIds : p # s.proposal.id => primary'[p] = primary[p]
         /\ UNCHANGED <<active, corrupted, now>>
<1> DEFINE Outcome(d, e) == results' = Append(results, Gateway!Result(s, d, e, FALSE))
           Kept == /\ DOMAIN primary' = Gateway!ProposalIds
                   /\ \A p \in Gateway!ProposalIds :
                        p # s.proposal.id => primary'[p] = primary[p]
           Approves(d) == d = "APPROVED" => Gateway!WithinPolicy(s)
           Goal == /\ \E d \in Gateway!Decisions, e \in BOOLEAN : Outcome(d, e) /\ Approves(d)
                   /\ Kept
                   /\ UNCHANGED <<active, corrupted, now>>
<1> SUFFICES Goal
  OBVIOUS
<1> HIDE DEF Outcome
<1>d. {"APPROVED", "BLOCKED", "REQUIRES_REVIEW", "KILL_SWITCH_ACTIVE", "RATE_LIMITED",
       "INVALID_PROPOSAL"} \subseteq Gateway!Decisions
  BY DEF Gateway!Decisions, Gateway!StoredDecisions
<1>1. ~Gateway!ReplayDecision(s)
  BY DEF Gateway!ReplayDecision, Gateway!ExistingDecision
<1>2. CASE Gateway!Suspend(s)
  <2>1. Outcome("KILL_SWITCH_ACTIVE", FALSE) /\ UNCHANGED <<active, corrupted, now, primary>>
    BY <1>2 DEF Outcome, Gateway!Suspend, Gateway!RecordAudit, Gateway!killSwitch, Gateway!store
  <2> QED
    BY <2>1, <1>d
<1>3. CASE Gateway!RejectInvalid(s)
  <2>1. Outcome("INVALID_PROPOSAL", FALSE) /\ UNCHANGED <<active, corrupted, now, primary>>
    BY <1>3 DEF Outcome, Gateway!RejectInvalid, Gateway!RecordAudit,
                Gateway!killSwitch, Gateway!store
  <2> QED
    BY <2>1, <1>d
<1>4. CASE Gateway!RejectConflict(s)
  <2>1. Outcome("BLOCKED", FALSE) /\ UNCHANGED <<active, corrupted, now, primary>>
    BY <1>4 DEF Outcome, Gateway!RejectConflict, Gateway!RecordAudit,
                Gateway!killSwitch, Gateway!store
  <2> QED
    BY <2>1, <1>d
<1>5. CASE Gateway!Throttle(s)
  <2>1. Outcome("RATE_LIMITED", FALSE) /\ UNCHANGED <<active, corrupted, now, primary>>
    BY <1>5 DEF Outcome, Gateway!Throttle, Gateway!RecordAudit, Gateway!killSwitch, Gateway!store
  <2> QED
    BY <2>1, <1>d
<1>6. ASSUME NEW d, Gateway!RecordDecision(s, d)
      PROVE  Kept
  BY <1>6 DEF Gateway!RecordDecision
<1>7. CASE Gateway!Block(s)
  <2>1. /\ Outcome("BLOCKED", FALSE) /\ UNCHANGED <<active, corrupted, now>>
        /\ Gateway!RecordDecision(s, "BLOCKED")
    BY <1>7 DEF Outcome, Gateway!Block, Gateway!RecordAudit, Gateway!killSwitch
  <2> QED
    BY <2>1, <1>6, <1>d
<1>8. CASE Gateway!RequestReview(s)
  <2>1. /\ Outcome("REQUIRES_REVIEW", FALSE) /\ UNCHANGED <<active, corrupted, now>>
        /\ Gateway!RecordDecision(s, "REQUIRES_REVIEW")
    BY <1>8 DEF Outcome, Gateway!RequestReview, Gateway!RecordAudit, Gateway!killSwitch
  <2> QED
    BY <2>1, <1>6, <1>d
<1>9. CASE Gateway!Approve(s)
  <2>1. /\ Outcome("APPROVED", TRUE) /\ UNCHANGED <<active, corrupted, now>>
        /\ Gateway!RecordDecision(s, "APPROVED")
        /\ Gateway!WithinPolicy(s)
    BY <1>9 DEF Outcome, Gateway!Approve, Gateway!Cleared, Gateway!RecordAudit, Gateway!killSwitch
  <2> QED
    BY <2>1, <1>6, <1>d
<1> QED
  BY <1>1, <1>2, <1>3, <1>4, <1>5, <1>7, <1>8, <1>9 DEF Gateway!EvaluateProposal

------------------------------------------------------------------------------
(* The inductive invariant *)

Stages == {"diagnose", "decide", "authorize", "execute", "index", "ready"}

Outcomes ==
  [input : Submissions, time : {0}, decision : Gateway!Decisions, eligible : BOOLEAN,
   replay : BOOLEAN]

\* Types, and what each stage has done.
Progress ==
  /\ batch \in Batches /\ stage \in Stages /\ next \in DOMAIN batch
  /\ diagnoses \in Seq(Diagnoses) /\ proposals \in Seq(Verdicts) /\ results \in Seq(Outcomes)
  /\ Len(diagnoses) = IF stage = "diagnose" THEN next - 1 ELSE Len(batch)
  /\ Len(proposals) = IF stage \in {"diagnose", "decide"} THEN 0 ELSE Len(batch)
  /\ Len(results) = IF stage \in {"diagnose", "decide"} THEN 0
                    ELSE IF stage = "authorize" THEN next - 1 ELSE Len(batch)
  /\ stage = "decide" => next = 1
  /\ Len(items) = IF stage = "ready" THEN Len(batch) ELSE 0
  /\ ~active /\ ~corrupted /\ now = 0

\* What is proposed is what the agent decides on the diagnosis.
Proposed == \A i \in DOMAIN proposals : proposals[i] = Decide(ContextOf(batch[i]), diagnoses[i])

Expected(i) == SubmissionOf(i, batch[i], proposals[i])

\* The gateway answered what was submitted, approved within its policy, and has decided
\* nothing of the cases still to come.
Rooted ==
  /\ DOMAIN primary = Gateway!ProposalIds
  /\ \A i \in DOMAIN batch :
       Len(results) < i => primary[DeriveProposalId(batch[i].kind, i)] = Gateway!NoDecision
  /\ \A i \in DOMAIN results :
       /\ results[i].input = Expected(i)
       /\ Approved(i) => Gateway!WithinPolicy(Expected(i))

\* What was dispatched is what the gateway approved, case by case.
Handed ==
  /\ dispatched # {} => stage \in {"execute", "index", "ready"}
  /\ DOMAIN request = {CallOf(i) : i \in Positions}
  /\ \A d \in dispatched :
       \E i \in DOMAIN batch :
         /\ d.call = CallOf(i) /\ Approved(i)
         /\ request[d.call] = RequestOf(i, batch[i], proposals[i], results[i])

IInv == Progress /\ Proposed /\ Rooted /\ Handed

LEMMA InitEstablishes == PipelineInit => IInv
<1> SUFFICES ASSUME PipelineInit PROVE IInv
  OBVIOUS
<1>1. batch \in Batches /\ Len(batch) \in Nat \ {0} /\ DOMAIN batch = 1 .. Len(batch)
  <2>1. batch \in Batches
    BY DEF PipelineInit
  <2>2. batch \in Seq({batch[j] : j \in DOMAIN batch}) /\ Len(batch) > 0
    BY <2>1, PipelineAssumption
  <2> QED
    BY <2>1, <2>2
<1>2. Progress
  BY <1>1 DEF PipelineInit, Progress, Stages, Gateway!Init
<1>3. Proposed
  BY DEF PipelineInit, Proposed
<1>4. Rooted
  <2>1. primary = [p \in Gateway!ProposalIds |-> Gateway!NoDecision]
    BY DEF PipelineInit, Gateway!Init
  <2>2. \A i \in DOMAIN batch : DeriveProposalId(batch[i].kind, i) \in Gateway!ProposalIds
    BY <1>1, SubmissionsAreDeclared DEF Verdicts
  <2>3. results = <<>>
    BY DEF PipelineInit, Gateway!Init
  <2> QED
    BY <2>1, <2>2, <2>3 DEF Rooted
<1>5. Handed
  BY DEF PipelineInit, Handed, Execution!Init
<1> QED
  BY <1>2, <1>3, <1>4, <1>5 DEF IInv

------------------------------------------------------------------------------
(* The steps *)

LEMMA BatchFacts ==
  ASSUME batch \in Batches
  PROVE  Len(batch) \in Nat \ {0} /\ DOMAIN batch = 1 .. Len(batch)
<1>1. batch \in Seq({batch[j] : j \in DOMAIN batch}) /\ Len(batch) > 0
  BY PipelineAssumption
<1> QED
  BY <1>1

\* Advance stays within the batch, and changes the stage only at its end.
LEMMA AdvanceFacts ==
  ASSUME Progress, NEW to, Advance(to), batch' = batch
  PROVE  /\ next' \in DOMAIN batch
         /\ \/ next = Len(batch) /\ stage' = to /\ next' = 1
            \/ next < Len(batch) /\ stage' = stage /\ next' = next + 1
<1>1. /\ Len(batch) \in Nat \ {0} /\ DOMAIN batch = 1 .. Len(batch)
      /\ next \in 1 .. Len(batch)
  BY BatchFacts DEF Progress
<1>2. CASE next = Len(batch)
  BY <1>1, <1>2 DEF Advance
<1>3. CASE next # Len(batch)
  <2>1. next' = next + 1 /\ stage' = stage
    BY <1>3 DEF Advance
  <2>2. next \in Int /\ 1 <= next /\ next <= Len(batch) /\ Len(batch) \in Int
    BY <1>1
  <2>3. next < Len(batch) /\ next + 1 \in 1 .. Len(batch)
    BY <2>2, <1>3
  <2>4. next + 1 \in DOMAIN batch
    BY <1>1, <2>3
  <2> QED
    BY <2>1, <2>3, <2>4
<1> QED
  BY <1>2, <1>3

LEMMA DiagnoseStep ==
  ASSUME IInv, DiagnoseNext
  PROVE  IInv'
<1> USE DEF IInv
<1>1. batch \in Batches /\ Len(batch) \in Nat \ {0} /\ DOMAIN batch = 1 .. Len(batch)
        /\ next \in 1 .. Len(batch)
  BY BatchFacts DEF Progress
<1>2. PICK reply \in Replies(batch[next]) : diagnoses' = Append(diagnoses, Diagnose(reply))
  BY DEF DiagnoseNext
<1>3. /\ stage = "diagnose" /\ Advance("decide")
      /\ UNCHANGED <<batch, proposals, items, results, active, corrupted, now, primary, request,
                     dispatched>>
  BY DEF DiagnoseNext, gatewayVars, executionVars
<1>4. diagnoses' \in Seq(Diagnoses) /\ Len(diagnoses') = next
  BY <1>1, <1>2, <1>3, RepliesAreKnown DEF Progress
<1>5. /\ next' \in DOMAIN batch
      /\ \/ next = Len(batch) /\ stage' = "decide" /\ next' = 1
         \/ next < Len(batch) /\ stage' = "diagnose" /\ next' = next + 1
  BY <1>3, AdvanceFacts
<1>6. Progress'
  BY <1>1, <1>3, <1>4, <1>5 DEF Progress, Stages
<1>7. proposals = <<>> /\ results = <<>>
  BY <1>3 DEF Progress
<1>8. Proposed'
  BY <1>3, <1>7 DEF Proposed
<1>9. Rooted'
  BY <1>3, <1>7 DEF Rooted
<1>10. Handed'
  BY <1>3 DEF Handed
<1> QED
  BY <1>6, <1>8, <1>9, <1>10

LEMMA DecideStep ==
  ASSUME IInv, DecideAll
  PROVE  IInv'
<1> USE DEF IInv
<1>1. batch \in Batches /\ Len(batch) \in Nat \ {0} /\ DOMAIN batch = 1 .. Len(batch)
  BY BatchFacts DEF Progress
<1>2. /\ stage = "decide" /\ stage' = "authorize"
      /\ proposals' = [i \in DOMAIN batch |-> Decide(ContextOf(batch[i]), diagnoses[i])]
      /\ UNCHANGED <<batch, next, diagnoses, items, results, active, corrupted, now, primary,
                     request, dispatched>>
  BY DEF DecideAll, gatewayVars, executionVars
<1>3. proposals' \in Seq(Verdicts) /\ Len(proposals') = Len(batch)
  <2> DEFINE V(i) == Decide(ContextOf(batch[i]), diagnoses[i])
  <2>1. \A i \in DOMAIN batch : V(i) \in Verdicts
    BY DecideGivesAVerdict
  <2>2. proposals' = [i \in 1 .. Len(batch) |-> V(i)]
    BY <1>1, <1>2
  <2> HIDE DEF V
  <2> QED
    BY <1>1, <2>1, <2>2
<1>4. Progress'
  BY <1>1, <1>2, <1>3 DEF Progress, Stages
<1>5. results = <<>>
  BY <1>2 DEF Progress
<1>6. Proposed'
  BY <1>2 DEF Proposed
<1>7. Rooted'
  BY <1>2, <1>5 DEF Rooted
<1>8. Handed'
  BY <1>2 DEF Handed
<1> QED
  BY <1>4, <1>6, <1>7, <1>8

LEMMA AuthorizeStep ==
  ASSUME IInv, AuthorizeNext
  PROVE  IInv'
<1> USE DEF IInv
<1> DEFINE s == Expected(next)
<1>1. batch \in Batches /\ Len(batch) \in Nat \ {0} /\ DOMAIN batch = 1 .. Len(batch)
        /\ next \in 1 .. Len(batch)
  BY BatchFacts DEF Progress
<1>2. /\ stage = "authorize" /\ Advance("execute") /\ Gateway!EvaluateProposal(s)
      /\ UNCHANGED <<batch, diagnoses, proposals, items, request, dispatched>>
  BY DEF AuthorizeNext, executionVars, Expected
<1>3. /\ proposals \in Seq(Verdicts) /\ Len(proposals) = Len(batch)
      /\ results \in Seq(Outcomes) /\ Len(results) = next - 1
  BY <1>2 DEF Progress
<1>4. proposals[next] \in Verdicts
  BY <1>1, <1>3
<1>5. /\ s \in Submissions /\ s.proposal.id \in Gateway!ProposalIds
      /\ s.proposal.id = DeriveProposalId(batch[next].kind, next)
  BY <1>1, <1>4, SubmissionsAreDeclared DEF Expected, SubmissionOf
<1>6. primary[s.proposal.id] = Gateway!NoDecision /\ DOMAIN primary = Gateway!ProposalIds
  BY <1>1, <1>3, <1>5 DEF Rooted
<1> HIDE DEF s
<1>7. PICK d \in Gateway!Decisions, e \in BOOLEAN :
        /\ results' = Append(results, Gateway!Result(s, d, e, FALSE))
        /\ d = "APPROVED" => Gateway!WithinPolicy(s)
  BY <1>2, <1>5, <1>6, FirstEvaluation
<1>8. /\ DOMAIN primary' = Gateway!ProposalIds
      /\ \A p \in Gateway!ProposalIds : p # s.proposal.id => primary'[p] = primary[p]
      /\ UNCHANGED <<active, corrupted, now>>
  BY <1>2, <1>5, <1>6, FirstEvaluation
<1>9. Gateway!Result(s, d, e, FALSE) \in Outcomes
  <2>1. now = 0
    BY DEF Progress
  <2> QED
    BY <1>5, <1>7, <2>1 DEF Outcomes, Gateway!Result
<1>10. /\ Gateway!Result(s, d, e, FALSE).input = s
       /\ Gateway!Result(s, d, e, FALSE).decision = d
  BY DEF Gateway!Result
<1> DEFINE r == Gateway!Result(s, d, e, FALSE)
<1> HIDE DEF r
<1>11. /\ results' \in Seq(Outcomes) /\ Len(results') = next
       /\ \A i \in 1 .. next - 1 : results'[i] = results[i]
       /\ results'[next] = r
  <2>1. results' = Append(results, r) /\ r \in Outcomes
    BY <1>7, <1>9 DEF r
  <2> QED
    BY <1>1, <1>3, <2>1
<1>12. Progress'
  <2>1. /\ next' \in DOMAIN batch
        /\ \/ next = Len(batch) /\ stage' = "execute" /\ next' = 1
           \/ next < Len(batch) /\ stage' = "authorize" /\ next' = next + 1
    BY <1>2, AdvanceFacts
  <2>2. /\ batch' = batch /\ diagnoses' = diagnoses /\ proposals' = proposals /\ items' = items
        /\ active' = active /\ corrupted' = corrupted /\ now' = now
    BY <1>2, <1>8
  <2>3. CASE next = Len(batch)
    BY <1>1, <1>2, <1>11, <2>1, <2>2, <2>3 DEF Progress, Stages
  <2>4. CASE next < Len(batch)
    BY <1>1, <1>2, <1>11, <2>1, <2>2, <2>4 DEF Progress, Stages
  <2> QED
    BY <2>1, <2>3, <2>4
<1>13. Proposed'
  BY <1>2 DEF Proposed
<1>14. Rooted'
  <2>1. ASSUME NEW i \in DOMAIN batch, next < i
        PROVE  primary'[DeriveProposalId(batch[i].kind, i)] = Gateway!NoDecision
    <3>1. DeriveProposalId(batch[i].kind, i) \in Gateway!ProposalIds
      BY <1>1, SubmissionsAreDeclared DEF Verdicts
    <3>2. i # next
      BY <1>1, <2>1
    <3>3. DeriveProposalId(batch[i].kind, i) # DeriveProposalId(batch[next].kind, next)
      BY <3>2 DEF DeriveProposalId
    <3>4. Len(results) < i
      BY <1>1, <1>3, <2>1
    <3>5. primary[DeriveProposalId(batch[i].kind, i)] = Gateway!NoDecision
      BY <3>4 DEF Rooted
    <3> QED
      BY <1>5, <1>8, <3>1, <3>3, <3>5
  <2>2. \A i \in DOMAIN batch : Expected(i)' = Expected(i)
    BY <1>2 DEF Expected
  <2>3. ASSUME NEW i \in DOMAIN results'
        PROVE  /\ results'[i].input = Expected(i)
               /\ results'[i].decision = "APPROVED" => Gateway!WithinPolicy(Expected(i))
    <3>1. i \in 1 .. next
      BY <1>11
    <3>2. CASE i = next
      BY <1>7, <1>10, <1>11, <3>2 DEF r, s
    <3>3. CASE i # next
      <4>1. i \in 1 .. next - 1
        BY <1>1, <3>1, <3>3
      <4>2. results'[i] = results[i] /\ i \in DOMAIN results
        BY <1>3, <1>11, <4>1
      <4> QED
        BY <4>2 DEF Rooted, Approved
    <3> QED
      BY <3>2, <3>3
  <2>4. DOMAIN results' \subseteq DOMAIN batch
    BY <1>1, <1>11
  <2>5. \A i \in DOMAIN results' :
          /\ results'[i].input = Expected(i)'
          /\ Approved(i)' => Gateway!WithinPolicy(Expected(i))'
    <3> SUFFICES ASSUME NEW i \in DOMAIN results'
                 PROVE  /\ results'[i].input = Expected(i)'
                        /\ Approved(i)' => Gateway!WithinPolicy(Expected(i))'
      OBVIOUS
    <3>1. Expected(i)' = Expected(i)
      BY <2>2, <2>4
    <3>2. Gateway!WithinPolicy(Expected(i))' <=> Gateway!WithinPolicy(Expected(i))
      BY <1>2 DEF Gateway!WithinPolicy, Gateway!RetryAndChronic,
                  Gateway!FailureCategorySafe, Expected
    <3> QED
      BY <2>3, <3>1, <3>2 DEF Approved
  <2>6. batch' = batch /\ Len(results') = next
    BY <1>2, <1>11
  <2> QED
    BY <1>8, <2>1, <2>5, <2>6 DEF Rooted
<1>15. Handed'
  BY <1>2 DEF Handed
<1> QED
  BY <1>12, <1>13, <1>14, <1>15

\* Once every case has its answer, the later stages leave what the gateway holds alone.
LEMMA LaterStages ==
  ASSUME IInv, stage \in {"execute", "index"}, stage' \in {"execute", "index", "ready"},
         next' \in DOMAIN batch, Len(items') = (IF stage' = "ready" THEN Len(batch) ELSE 0),
         UNCHANGED <<batch, diagnoses, proposals, results, active, corrupted, now, primary>>
  PROVE  Progress' /\ Proposed' /\ Rooted'
<1> USE DEF IInv
<1>1. Progress'
  BY DEF Progress, Stages
<1>2. Proposed'
  BY DEF Proposed
<1>3. Rooted'
  <2>1. \A i \in DOMAIN results :
          /\ results'[i].input = Expected(i)'
          /\ Approved(i)' => Gateway!WithinPolicy(Expected(i))'
    <3> SUFFICES ASSUME NEW i \in DOMAIN results
                 PROVE  /\ results'[i].input = Expected(i)'
                        /\ Approved(i)' => Gateway!WithinPolicy(Expected(i))'
      OBVIOUS
    <3>1. Expected(i)' = Expected(i) /\ (Approved(i)' <=> Approved(i))
      BY DEF Expected, Approved
    <3>2. Gateway!WithinPolicy(Expected(i))' <=> Gateway!WithinPolicy(Expected(i))
      BY DEF Gateway!WithinPolicy, Gateway!RetryAndChronic, Gateway!FailureCategorySafe,
             Expected
    <3> QED
      BY <3>1, <3>2 DEF Rooted
  <2> QED
    BY <2>1 DEF Rooted
<1> QED
  BY <1>1, <1>2, <1>3

LEMMA SkipStep ==
  ASSUME IInv, SkipNext
  PROVE  IInv'
<1>1. /\ stage = "execute" /\ Advance("index")
      /\ UNCHANGED <<batch, diagnoses, proposals, items, results, active, corrupted, now,
                     primary, request, dispatched>>
  BY DEF SkipNext, gatewayVars, executionVars
<1>2. next' \in DOMAIN batch /\ stage' \in {"execute", "index"}
  BY <1>1, AdvanceFacts DEF IInv
<1>3. Len(items') = 0
  BY <1>1 DEF IInv, Progress
<1>4. Progress' /\ Proposed' /\ Rooted'
  BY <1>1, <1>2, <1>3, LaterStages
<1>5. Handed'
  BY <1>1, <1>2 DEF IInv, Handed, Approved
<1> QED
  BY <1>4, <1>5 DEF IInv

LEMMA IndexStep ==
  ASSUME IInv, Index
  PROVE  IInv'
<1>1. /\ stage = "index" /\ stage' = "ready"
      /\ items' = [i \in DOMAIN batch |-> ItemOf(i)]
      /\ UNCHANGED <<batch, next, diagnoses, proposals, results, active, corrupted, now,
                     primary, request, dispatched>>
  BY DEF Index, gatewayVars, executionVars
<1>2. Len(batch) \in Nat \ {0} /\ DOMAIN batch = 1 .. Len(batch) /\ next \in DOMAIN batch
  BY BatchFacts DEF IInv, Progress
<1>3. Len(items') = Len(batch)
  BY <1>1, <1>2
<1>4. Progress' /\ Proposed' /\ Rooted'
  BY <1>1, <1>2, <1>3, LaterStages
<1>5. Handed'
  BY <1>1 DEF IInv, Handed, Approved
<1> QED
  BY <1>4, <1>5 DEF IInv

LEMMA ExecuteStep ==
  ASSUME IInv, ExecuteNext
  PROVE  IInv'
<1> DEFINE c == CallOf(next)
           r == RequestOf(next, batch[next], proposals[next], results[next])
<1>1. /\ stage = "execute" /\ IsAuthorized(next) /\ Execution!ExecuteRecovery(c, r)
      /\ UNCHANGED <<stage, next>> \/ Advance("index")
      /\ UNCHANGED <<batch, diagnoses, proposals, items, results, active, corrupted, now,
                     primary>>
  BY DEF ExecuteNext, gatewayVars
<1>2. next \in DOMAIN batch
  BY DEF IInv, Progress
<1>3. next' \in DOMAIN batch /\ stage' \in {"execute", "index"}
  BY <1>1, <1>2, AdvanceFacts DEF IInv
<1>4. Len(items') = 0
  BY <1>1 DEF IInv, Progress
<1>5. Progress' /\ Proposed' /\ Rooted'
  BY <1>1, <1>3, <1>4, LaterStages
<1>6. /\ request' = [request EXCEPT ![c] = r]
      /\ \A d \in dispatched' : d \in dispatched \/ d.call = c
  <2> HIDE DEF c, r
  <2> DEFINE new == [call |-> c, key |-> Execution!KeyOf(r), life |-> life]
  <2>1. /\ request' = [request EXCEPT ![c] = r]
        /\ dispatched' = dispatched \/ dispatched' = dispatched \cup {new}
    BY <1>1 DEF Execution!ExecuteRecovery, Execution!Refuse, Execution!Replay,
                Execution!Conflict, Execution!Defer, Execution!Dispatch, Execution!Enter
  <2>2. new.call = c
    OBVIOUS
  <2> QED
    BY <2>1, <2>2
<1>7. Handed'
  <2>1. c \in DOMAIN request /\ DOMAIN request' = {CallOf(i) : i \in Positions}
    <3>1. next \in Positions
      BY <1>2, SubmissionsAreDeclared DEF IInv, Progress, Verdicts
    <3> QED
      BY <1>6, <3>1 DEF IInv, Handed
  <2>2. ASSUME NEW d \in dispatched'
        PROVE  \E i \in DOMAIN batch :
                 /\ d.call = CallOf(i) /\ Approved(i)
                 /\ request'[d.call] = RequestOf(i, batch[i], proposals[i], results[i])
    <3>1. CASE d.call = c
      <4>1. request'[d.call] = r
        BY <1>6, <2>1, <3>1
      <4>2. Approved(next)
        BY <1>1 DEF IsAuthorized, Approved
      <4> QED
        BY <1>2, <3>1, <4>1, <4>2
    <3>2. CASE d.call # c
      <4>1. d \in dispatched
        BY <1>6, <3>2
      <4>2. PICK i \in DOMAIN batch :
              /\ d.call = CallOf(i) /\ Approved(i)
              /\ request[d.call] = RequestOf(i, batch[i], proposals[i], results[i])
        BY <4>1 DEF IInv, Handed
      <4>3. d.call \in DOMAIN request
        <5>1. i \in Positions
          BY SubmissionsAreDeclared DEF IInv, Progress, Verdicts
        <5> QED
          BY <4>2, <5>1 DEF IInv, Handed
      <4>4. request'[d.call] = request[d.call]
        BY <1>6, <3>2, <4>3
      <4> QED
        BY <4>2, <4>4
    <3> QED
      BY <3>1, <3>2
  <2> QED
    BY <1>1, <1>3, <2>1, <2>2 DEF Handed, Approved
<1> QED
  BY <1>5, <1>7 DEF IInv

LEMMA AwaitStep ==
  ASSUME IInv, AwaitNext
  PROVE  IInv'
<1>1. /\ stage = "execute" /\ Advance("index")
      /\ UNCHANGED <<batch, diagnoses, proposals, items, results, active, corrupted, now,
                     primary, request, dispatched>>
  BY DEF AwaitNext, gatewayVars, Execution!Respond
<1>2. next' \in DOMAIN batch /\ stage' \in {"execute", "index"}
  BY <1>1, AdvanceFacts DEF IInv
<1>3. Len(items') = 0
  BY <1>1 DEF IInv, Progress
<1>4. Progress' /\ Proposed' /\ Rooted'
  BY <1>1, <1>2, <1>3, LaterStages
<1>5. Handed'
  BY <1>1, <1>2 DEF IInv, Handed, Approved
<1> QED
  BY <1>4, <1>5 DEF IInv

LEMMA StutterStep ==
  ASSUME IInv, UNCHANGED vars
  PROVE  IInv'
<1>1. UNCHANGED <<batch, stage, next, diagnoses, proposals, items, results, active, corrupted,
                  now, primary, request, dispatched>>
  BY DEF vars, pipelineVars, gatewayVars, executionVars
<1>2. Progress' /\ Proposed' /\ Handed'
  BY <1>1 DEF IInv, Progress, Proposed, Handed, Approved
<1>3. \A i \in DOMAIN results :
        /\ Expected(i)' = Expected(i) /\ (Approved(i)' <=> Approved(i))
        /\ Gateway!WithinPolicy(Expected(i))' <=> Gateway!WithinPolicy(Expected(i))
  BY <1>1 DEF Expected, Approved, Gateway!WithinPolicy, Gateway!RetryAndChronic,
              Gateway!FailureCategorySafe
<1>4. Rooted'
  BY <1>1, <1>3 DEF IInv, Rooted
<1> QED
  BY <1>2, <1>4 DEF IInv

\* The inductive invariant: what is proposed is what was decided, what the gateway holds
\* is what was submitted, and what was dispatched is what the gateway approved.
THEOREM PipelineInvariantHolds == PipelineSpec => []IInv
<1>1. PipelineInit => IInv
  BY InitEstablishes
<1>2. IInv /\ [PipelineNext]_vars => IInv'
  <2> SUFFICES ASSUME IInv, [PipelineNext]_vars PROVE IInv'
    OBVIOUS
  <2> QED
    BY DiagnoseStep, DecideStep, AuthorizeStep, SkipStep, ExecuteStep, AwaitStep, IndexStep,
       StutterStep DEF PipelineNext
<1> QED
  BY <1>1, <1>2, PTL DEF PipelineSpec

------------------------------------------------------------------------------
(* What follows from it *)

\* Every run of the pipeline keeps its types and does each stage for the whole batch.
THEOREM PipelineTypeCorrect == PipelineSpec => []PipelineTypeOK
<1>1. IInv => PipelineTypeOK
  <2> SUFFICES ASSUME IInv PROVE PipelineTypeOK
    OBVIOUS
  <2>1. Progress
    BY DEF IInv
  <2>2. \A i \in DOMAIN diagnoses : diagnoses[i] \in Diagnoses
    BY <2>1 DEF Progress
  <2>3. \A i \in DOMAIN proposals : proposals[i] \in Verdicts
    BY <2>1 DEF Progress
  <2> QED
    BY <2>1, <2>2, <2>3 DEF Progress, PipelineTypeOK, Stages, Decided, Finished
<1> QED
  BY <1>1, PipelineInvariantHolds, PTL

\* Only what the agent proposed is ever executable.
LEMMA OnlyProposedIsExecutable ==
  ASSUME NEW x, NEW d, Decide(x, d).action \in Gateway!ExecutableActions
  PROVE  Decide(x, d).status = "PROPOSED"
BY DEF Decide, Route, Block, Escalate, Propose, Pass, Verdict, Gateway!ExecutableActions

\* What the gateway approved, in terms of the case.
LEMMA ApprovedCases ==
  ASSUME IInv, NEW i \in DOMAIN batch, i \in DOMAIN results
  PROVE  /\ i \in DOMAIN proposals
         /\ proposals[i] = Decide(ContextOf(batch[i]), diagnoses[i])
         /\ Approved(i) => /\ proposals[i].action \in Gateway!ExecutableActions
                           /\ Gateway!FailureCategorySafe(Expected(i).proposal,
                                                          Expected(i).target)
<1>1. i \in DOMAIN proposals
  <2>1. Len(proposals) = Len(batch) \/ Len(results) = 0
    BY DEF IInv, Progress
  <2>2. results \in Seq(Outcomes) /\ proposals \in Seq(Verdicts)
          /\ Len(batch) \in Nat /\ DOMAIN batch = 1 .. Len(batch)
    BY BatchFacts DEF IInv, Progress
  <2>3. Len(results) # 0
    BY <2>2
  <2> QED
    BY <2>1, <2>2, <2>3
<1>2. Expected(i).proposal.action = proposals[i].action
  BY DEF Expected, SubmissionOf
<1>3. Approved(i) => Gateway!WithinPolicy(Expected(i))
  BY DEF IInv, Rooted
<1> QED
  BY <1>1, <1>2, <1>3 DEF IInv, Proposed, Gateway!WithinPolicy

\* In any dataset and whatever the model replies: what the risk engine calls critical is
\* not authorised, and its limits and the gateway's are the same.
THEOREM CriticalCasesAreSafe == PipelineSpec => []CriticalIsNeverAuthorised
<1>1. IInv => CriticalIsNeverAuthorised
  <2> SUFFICES ASSUME IInv, NEW i \in DOMAIN results
               PROVE  LET x == ContextOf(batch[i]) IN
                      /\ NegativeInvariant(x) => proposals[i].status = "BLOCKED"
                      /\ NegativeInvariant(x)
                           <=> ~Gateway!RetryAndChronic(results[i].input.target)
                      /\ RiskLevel(x) = "CRITICAL" => ~Approved(i)
    BY DEF CriticalIsNeverAuthorised, Answered
  <2> DEFINE x == ContextOf(batch[i])
  <2>1. i \in DOMAIN batch
    <3>1. /\ Len(results) <= Len(batch) /\ results \in Seq(Outcomes)
          /\ Len(batch) \in Nat /\ DOMAIN batch = 1 .. Len(batch)
      BY BatchFacts DEF IInv, Progress
    <3> QED
      BY <3>1
  <2>2. x.attempts \in Nat
    BY <2>1, CaseFacts DEF IInv, Progress
  <2>3. proposals[i] = Decide(x, diagnoses[i])
    BY <2>1, ApprovedCases
  <2>4. NegativeInvariant(x) => proposals[i].status = "BLOCKED"
    <3>1. Block.status = "BLOCKED"
      BY DEF Block, Verdict
    <3> HIDE DEF x
    <3> QED
      BY <2>2, <2>3, <3>1, LimitsPrevail
  <2>5. NegativeInvariant(x) <=> ~Gateway!RetryAndChronic(results[i].input.target)
    <3>1. results[i].input = Expected(i)
      BY DEF IInv, Rooted
    <3>2. /\ results[i].input.target.attempts = x.attempts
          /\ results[i].input.target.history = x.history
          /\ results[i].input.target.success = x.success
          /\ results[i].input.target.code = x.code
      BY <3>1 DEF Expected, SubmissionOf
    <3> HIDE DEF x
    <3>3. ExhaustedAttempts(x) <=> ~(results[i].input.target.attempts < 3)
      BY <2>2, <3>2 DEF ExhaustedAttempts
    <3> QED
      BY <3>2, <3>3 DEF NegativeInvariant, ChronicDecline, Gateway!RetryAndChronic,
                        Gateway!MaxTargetAttempts, Gateway!BlockedDeclineCodes
  <2>6. RiskLevel(x) = "CRITICAL" => ~Approved(i)
    <3> HIDE DEF x
    <3>1. SUFFICES ASSUME RiskLevel(x) = "CRITICAL", Approved(i) PROVE FALSE
      OBVIOUS
    <3>2. proposals[i].action \in Gateway!ExecutableActions
      BY <2>1, <3>1, ApprovedCases
    <3> QED
      BY <2>2, <2>3, <3>1, <3>2, OnlyProposedIsExecutable, CriticalIsNeverProposed
  <2> QED
    BY <2>4, <2>5, <2>6
<1> QED
  BY <1>1, PipelineInvariantHolds, PTL

\* In any dataset and whatever the model replies: a hard decline is charged again at once
\* only for a customer whose history is proven.
THEOREM HardDeclinesAreNotRetried == PipelineSpec => []RetriedDeclinesAreProven
<1>1. IInv => RetriedDeclinesAreProven
  <2> SUFFICES ASSUME IInv, NEW d \in dispatched,
                      request[d.call].proposal.action = "RETRY_PAYMENT",
                      ContextOf(batch[request[d.call].target.id[2]]).code
                        \in BlockedDeclineCodes
               PROVE  LET x == ContextOf(batch[request[d.call].target.id[2]])
                      IN  x.code = "generic_decline" /\ x.success >= 7500
    BY DEF RetriedDeclinesAreProven
  <2>1. PICK i \in DOMAIN batch :
          /\ d.call = CallOf(i) /\ Approved(i)
          /\ request[d.call] = RequestOf(i, batch[i], proposals[i], results[i])
    BY DEF IInv, Handed
  <2>2. /\ request[d.call].target.id[2] = i
        /\ request[d.call].proposal.action = proposals[i].action
    BY <2>1 DEF RequestOf, TargetOf
  <2> DEFINE x == ContextOf(batch[i])
  <2>3. x.code \in BlockedDeclineCodes /\ proposals[i].action = "RETRY_PAYMENT"
    BY <2>2
  <2>4. i \in DOMAIN results
    <3>1. /\ stage \in {"execute", "index", "ready"} /\ results \in Seq(Outcomes)
          /\ Len(batch) \in Nat /\ DOMAIN batch = 1 .. Len(batch)
      BY BatchFacts DEF IInv, Handed, Progress
    <3>2. Len(results) = Len(batch)
      BY <3>1 DEF IInv, Progress
    <3> QED
      BY <3>1, <3>2
  <2>5. /\ proposals[i] = Decide(x, diagnoses[i])
        /\ Gateway!FailureCategorySafe(Expected(i).proposal, Expected(i).target)
    BY <2>1, <2>4, ApprovedCases
  <2>6. x.code # "unknown_failure"
    <3> HIDE DEF x
    <3>1. SUFFICES ASSUME x.code = "unknown_failure" PROVE FALSE
      OBVIOUS
    <3>2. proposals[i] \in {Block, Escalate}
      BY <2>5, <3>1 DEF Decide, Escalates
    <3> QED
      BY <2>3, <3>2 DEF Block, Escalate, Verdict
  <2>7. x.success >= 7500
    <3>1. /\ Expected(i).proposal.action = "RETRY_PAYMENT"
          /\ Expected(i).target.code = x.code /\ Expected(i).target.success = x.success
      BY <2>3 DEF Expected, SubmissionOf
    <3>2. x.success \in Int
      BY CaseFacts DEF IInv, Progress
    <3> HIDE DEF x
    <3>3. ~(x.success < 7500)
      BY <2>3, <2>5, <3>1 DEF Gateway!FailureCategorySafe, Gateway!BlockedDeclineCodes,
                              BlockedDeclineCodes
    <3> QED
      BY <3>2, <3>3
  <2> QED
    BY <2>2, <2>3, <2>6, <2>7 DEF BlockedDeclineCodes
<1> QED
  BY <1>1, PipelineInvariantHolds, PTL
==============================================================================
