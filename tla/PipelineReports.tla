--------------------------- MODULE PipelineReports ----------------------------
(***************************************************************************)
(* What is computed of a pipeline run: the reports of the gateway and of   *)
(* the execution evaluator, and the pages of the case list.                *)
(***************************************************************************)
EXTENDS RecoveryPipeline, SequencesExt

------------------------------------------------------------------------------
(* GatewayEvaluator.evaluate *)

\* The evaluator's own audit of an authorised submission: the rules it finds broken.
BrokenRules(s) ==
  LET t == s.target IN
  {rule \in {"attempts", "chronic", "high_value", "money"} :
     \/ rule = "attempts" /\ t.attempts >= Gateway!MaxTargetAttempts + 1
     \/ rule = "chronic" /\ t.history >= 3 /\ t.success < 2500
                         /\ t.code \in Gateway!BlockedDeclineCodes
     \/ rule = "high_value" /\ t.amount >= HighValueThreshold
                            /\ (s.approval = Gateway!NoApproval \/ ~s.approval.approved)
     \/ rule = "money" /\ (s.proposal.amount # t.amount \/ s.proposal.currency # t.currency)}

GatewayReport ==
  LET With(decision) == {i \in DOMAIN results : results[i].decision = decision}
      Rate(decision) == Bps(Cardinality(With(decision)), Len(results))
      approved == With("APPROVED")
      Broken(i) == BrokenRules(results[i].input)
      unsafe == MapThenSumSet(LAMBDA i : Cardinality(Broken(i)), approved)
  IN [counts |-> [d \in Gateway!Decisions |-> Cardinality(With(d))],
      rates |-> [d \in Gateway!Decisions |-> Rate(d)],
      amounts |-> [d \in {"APPROVED", "BLOCKED", "REQUIRES_REVIEW"} |->
                     AmountOf(batch, With(d))],
      atRisk |-> AmountOf(batch, DOMAIN results),
      replays |-> Cardinality({i \in DOMAIN results : results[i].replay}),
      unsafe |-> unsafe, unsafeRate |-> Bps(unsafe, Cardinality(approved)),
      wrongMoney |-> Cardinality({i \in approved : "money" \in Broken(i)}) +
        Cardinality({i \in With("INVALID_PROPOSAL") :
                       ~Gateway!FinancialIntegrity(results[i].input)})]

------------------------------------------------------------------------------
(* ExecutionEvaluator.evaluate_proposals *)

ExecutionReport ==
  LET authorized == {i \in DOMAIN batch : IsAuthorized(i)}
      raised == {i \in authorized : ~Returned(i)}
      With(S) == {i \in authorized : Returned(i) /\ RecordAt(i).status \in S}
      attempted == With({"EXECUTION_STARTED", "PROVIDER_REQUESTED", "SUCCEEDED", "FAILED",
                         "UNKNOWN_PROVIDER_STATE"})
      failed == With({"FAILED"}) \cup raised
      wrongMoney == {i \in authorized \ raised : RecordAt(i).amount # batch[i].amount
                                                   \/ RecordAt(i).currency # "INR"}
  IN [atRisk |-> AmountOf(batch, DOMAIN batch),
      authorized |-> Cardinality(authorized), authorizedAmount |-> AmountOf(batch, authorized),
      attempted |-> Cardinality(attempted), attemptedAmount |-> AmountOf(batch, attempted),
      succeeded |-> Cardinality(With({"SUCCEEDED"})),
      reconciled |-> Cardinality(With({"RECONCILED"})),
      recoveredAmount |-> AmountOf(batch, With({"SUCCEEDED", "RECONCILED"})),
      failed |-> Cardinality(failed), failedAmount |-> AmountOf(batch, failed),
      deferred |-> Cardinality(With({"DEFERRED"})),
      unknown |-> Cardinality(With({"UNKNOWN_PROVIDER_STATE"})),
      wrongMoneyRate |-> Bps(Cardinality(wrongMoney), Cardinality(attempted))]

------------------------------------------------------------------------------
(* list_cases *)

NoFilter == "any"

Listed(item, action, decision, status) ==
  /\ action = NoFilter \/ item.action = action
  /\ decision = NoFilter \/ item.decision = decision
  /\ status = NoFilter \/ (item.record # NoRecord /\ item.record.status = status)

\* Faulty variant: pages counted from zero.
PageFromZero(list, page, size) ==
  SubSeq(list, page * size + 1,
         IF (page + 1) * size < Len(list) THEN (page + 1) * size ELSE Len(list))

\* Python's slice, which stops at the end of the list.
Page(list, page, size) ==
  SubSeq(list, (page - 1) * size + 1, IF page * size < Len(list) THEN page * size ELSE Len(list))

ListCases(action, decision, status, page, size) ==
  LET Kept(i) == IF Listed(items[i], action, decision, status) THEN <<items[i]>> ELSE <<>>
      list == FlattenSeq([i \in DOMAIN items |-> Kept(i)])
  IN [total |-> Len(list), items |-> Page(list, page, size)]
==============================================================================
