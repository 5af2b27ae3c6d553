-------------------------- MODULE PipelineProperties ---------------------------
(***************************************************************************)
(* What the pipeline owes to those who read its results: the limits that   *)
(* several components each have a copy of agree, whatever the language     *)
(* model answers; every case shows its own outcome; the reports add up.    *)
(***************************************************************************)
EXTENDS PipelineReports

Decided == DOMAIN proposals
Answered == DOMAIN results
Finished == stage = "ready"

Approved(i) == results[i].decision = "APPROVED"

\* The pipeline's variables have their types, and each stage has done what the next
\* one reads, for as many cases as it was asked to.
PipelineTypeOK ==
  /\ batch \in Batches
  /\ stage \in {"diagnose", "decide", "authorize", "execute", "index", "ready"}
  /\ next \in DOMAIN batch
  /\ \A i \in DOMAIN diagnoses : diagnoses[i] \in Diagnoses
  /\ \A i \in Decided : proposals[i] \in Verdicts
  /\ Len(diagnoses) = IF stage = "diagnose" THEN next - 1 ELSE Len(batch)
  /\ Len(proposals) = IF stage \in {"diagnose", "decide"} THEN 0 ELSE Len(batch)
  /\ Len(results) = IF stage \in {"diagnose", "decide"} THEN 0
                    ELSE IF stage = "authorize" THEN next - 1 ELSE Len(batch)
  /\ Len(items) = IF Finished THEN Len(batch) ELSE 0
  /\ ~active /\ ~corrupted

------------------------------------------------------------------------------
(* Limits with several copies *)

\* Risk engine, decision agent and gateway each compute the attempt limit and the
\* chronic decline for themselves. They agree on every case, and what the risk engine
\* calls critical is never authorised, whatever the model answered.
CriticalIsNeverAuthorised ==
  \A i \in Answered :
    LET x == ContextOf(batch[i]) IN
    /\ NegativeInvariant(x) => proposals[i].status = "BLOCKED"
    /\ NegativeInvariant(x) <=> ~Gateway!RetryAndChronic(results[i].input.target)
    /\ RiskLevel(x) = "CRITICAL" => ~Approved(i)

\* The approvals a customer has had before case i.
ApprovedBefore(i) ==
  {j \in 1 .. i - 1 : batch[j].customer = batch[i].customer /\ Approved(j)}

\* The gateway, with its own copy of the policy, refuses no proposal of the decision
\* agent but one: the immediate retry of a decline the model explained away for a
\* customer not proven. It throttles exactly from the customer's tenth approval on,
\* and the execution layer's recheck accepts what it approved.
CheckersAgree ==
  /\ \A i \in Answered :
       LET x == ContextOf(batch[i])
           explainedAway == /\ proposals[i].action = "RETRY_PAYMENT"
                            /\ x.code = "generic_decline" /\ x.success < 7500
           exhausted == Cardinality(ApprovedBefore(i)) >= 9
       IN proposals[i].status = "PROPOSED" =>
            results[i].decision = IF explainedAway THEN "BLOCKED"
                                  ELSE IF exhausted THEN "RATE_LIMITED" ELSE "APPROVED"
  /\ \A i \in Positions : pc[CallOf(i)] \notin {"refused", "conflict", "replayed"}

\* The category the model gives may outrank a decline code in the decision agent.
\* Even so no payment whose last decline was hard is charged again at once, unless
\* the customer's history is proven.
RetriedDeclinesAreProven ==
  \A d \in dispatched :
    LET r == request[d.call]
        x == ContextOf(batch[r.target.id[2]])
    IN r.proposal.action = "RETRY_PAYMENT" /\ x.code \in BlockedDeclineCodes
         => x.code = "generic_decline" /\ x.success >= 7500

\* The documented rule: the model cannot override a hard decline block. A case whose
\* last decline was hard, for a customer not proven, is not authorised for anything.
HardDeclinesAreBlocked ==
  \A i \in Answered :
    LET x == ContextOf(batch[i]) IN
    x.code = "generic_decline" /\ x.success < 7500 => ~Approved(i)

------------------------------------------------------------------------------
(* What is shown of a run *)

\* Records reach the case list through a map by proposal, because cases that were not
\* authorised have none. Each case shows its own record, exactly if it was authorised.
EachCaseShowsItsOwnRecord ==
  Finished =>
    \A i \in DOMAIN batch :
      LET record == items[i].record IN
      /\ Approved(i) <=> record # NoRecord
      /\ Approved(i) =>
           /\ record.execution = CallOf(i)
           /\ record.amount = batch[i].amount
           /\ record.status = "DEFERRED" <=> proposals[i].action = "RETRY_LATER"

\* Decision, gateway and execution reports are computed from different objects. They
\* tell one story: nothing gets lost between two stages, counted or in money, except for
\* the money of throttled cases, for which no report has a line; and no report's own
\* audit finds a broken rule.
FunnelAddsUp ==
  Finished =>
    LET decision == DecisionReport(batch, proposals)
        gate == GatewayReport
        run == ExecutionReport
        throttled == AmountOf(batch, {i \in Answered : results[i].decision = "RATE_LIMITED"})
    IN /\ decision.atRisk = gate.atRisk /\ gate.atRisk = run.atRisk
       /\ decision.atRisk = decision.proposed + decision.review + decision.blocked
                              + decision.noAction
       /\ gate.amounts["REQUIRES_REVIEW"] = decision.review
       /\ gate.amounts["APPROVED"] + gate.amounts["BLOCKED"] + decision.review + throttled
            = gate.atRisk
       /\ gate.counts["APPROVED"] = run.authorized
       /\ gate.amounts["APPROVED"] = run.authorizedAmount
       /\ run.authorized = run.attempted + run.deferred
       /\ run.attempted = run.succeeded + run.failed + run.unknown
       /\ run.recoveredAmount + run.failedAmount <= run.attemptedAmount
       /\ gate.unsafe = 0 /\ decision.unsafe = 0 /\ gate.replays = 0
       /\ gate.wrongMoney = 0 /\ run.wrongMoneyRate = 0

Between(n, a, b) == (a <= n /\ n <= b) \/ (b <= n /\ n <= a)

\* Precision, recall and f1 are floored integers with guarded denominators. In every
\* batch of up to 10000 cases (beyond, a rate may floor to zero) f1 lies between the
\* two and is zero exactly without a true positive. Full capture is reported exactly if
\* no recoverable money was missed or left unassessed; a failed diagnosis counts
\* neither way.
ScoreIsSound(score, assessed) ==
  LET recoverable == {i \in DOMAIN batch : batch[i].recoverable}
      amount == AmountOf(batch, recoverable)
  IN /\ score.tp + score.fp + score.tn + score.fn = Cardinality(assessed)
     /\ score.captured + score.missed + AmountOf(batch, recoverable \ assessed) = amount
     /\ Between(score.f1, score.precision, score.recall)
     /\ score.f1 = 0 <=> score.tp = 0
     /\ amount > 0 => (score.capture = 10000 <=> score.captured = amount)

\* Both calculations of the scores are sound.
ScoresAreSound ==
  Len(diagnoses) = Len(batch) =>
    LET report == DiagnosisReport(batch, diagnoses)
        assessed == {i \in DOMAIN batch : diagnoses[i].status = "SUCCESS"}
    IN /\ ScoreIsSound(BaselineScore(batch), DOMAIN batch)
       /\ ScoreIsSound(report.score, assessed)
       /\ report.successful = Cardinality(assessed)

\* What a caller of list_cases asks for: a case with this action, this decision and, if it
\* was executed, this status of its own record; each of them may be any.
Asked(i, action, decision, status) ==
  /\ action \in {NoFilter, proposals[i].action}
  /\ decision \in {NoFilter, results[i].decision}
  /\ status = NoFilter \/ (Approved(i) /\ RecordAt(i).status = status)

\* The pages of a filter, put one after the other, are the cases asked for: the k-th of
\* them, in the order of the batch, is the k-th shown, and there are no more. This is
\* SelectSeq by its places.
PagesShow(action, decision, status, size) ==
  LET asked == {i \in DOMAIN batch : Asked(i, action, decision, status)}
      Place(i) == Cardinality({j \in asked : j <= i})
      pages == 1 .. Len(batch) \div size + 1
      answers == [p \in pages |-> ListCases(action, decision, status, p, size)]
      shown == FlattenSeq([p \in pages |-> answers[p].items])
  IN /\ Len(shown) = Cardinality(asked)
     /\ \A i \in asked : shown[Place(i)] = items[i]
     /\ \A p \in pages : answers[p].total = Cardinality(asked)

\* Whatever the list is filtered by, alone or together, and whatever the size of a page,
\* the pages show exactly the cases asked for, in their order: nothing twice or left out at
\* the boundary of a page, and pages past the end are empty. The test is for what decision
\* agent, gateway and execution layer have of a case, not for what the list has of it.
PagesCoverTheList ==
  Finished =>
    \A action \in {NoFilter} \cup {v.action : v \in Verdicts},
       decision \in {NoFilter} \cup Gateway!Decisions,
       status \in {NoFilter} \cup Execution!ExecutionStatus,
       size \in 1 .. Len(batch) : PagesShow(action, decision, status, size)

------------------------------------------------------------------------------

\* A provider that fails, times out or answers nonsense costs its own case a review
\* and no other case anything: the list is ready in the end.
EventuallyReady == <>Finished
==============================================================================
