--------------------------- MODULE RecoveryPipeline ----------------------------
(***************************************************************************)
(* The whole pipeline over a batch of recovery cases, as the API's data    *)
(* service runs it once: every case is diagnosed, decided, put before the  *)
(* safety gateway and, when authorised, executed; then the results are     *)
(* joined into the list of cases the API serves.                           *)
(*                                                                         *)
(* Gateway and execution layer are the modules SafetyGateway and           *)
(* ExecutionLayer, each with its own state. The stages run one after the   *)
(* other over the whole batch, and nothing else runs beside them.          *)
(***************************************************************************)
EXTENDS DecisionPolicy

CONSTANTS
  Batches,       (* sequences of cases a dataset may hold                      *)
  Provider,      (* the diagnosis provider: "mock", or "http" for a live model *)
  ModelReplies   (* what the live model may reply                              *)

ASSUME PipelineAssumption ==
  /\ \A b \in Batches : /\ b \in Seq({b[i] : i \in DOMAIN b}) /\ Len(b) > 0
                        /\ \A i \in DOMAIN b : Generated(b[i])
  /\ Provider \in {"mock", "http"} /\ ModelReplies \subseteq HTTPReplies

VARIABLES
  batch,         (* the recovery cases of the dataset                *)
  stage,         (* what initialize is doing                         *)
  next,          (* the case it does this for                        *)
  diagnoses,     (* ai_diagnoses                                     *)
  proposals,     (* proposals                                        *)
  items,         (* self.cases                                       *)
  \* The gateway; its audit log holds the results in order.
  active, corrupted, now, primary, targetStore, targetTimes, customerTimes, results,
  \* The execution layer.
  pc, request, records, inFlight, processed, executionLog, life, orders, events,
  replies, dispatched, confirmations

gatewayVars == <<active, corrupted, now, primary, targetStore, targetTimes, customerTimes,
                 results>>
executionVars == <<pc, request, records, inFlight, processed, executionLog, life, orders,
                   events, replies, dispatched, confirmations>>
pipelineVars == <<batch, stage, next, diagnoses, proposals, items>>
vars == <<pipelineVars, gatewayVars, executionVars>>

------------------------------------------------------------------------------
(* What one component hands to the next *)

\* A target is named by its kind and its place in the dataset.
TargetOf(i, c) == <<c.kind, i>>

\* GatewayTargetContext and proposal, from the same context; nobody approved anything.
SubmissionOf(i, c, verdict) ==
  LET x == ContextOf(c) IN
  [proposal |-> [id |-> DeriveProposalId(c.kind, i), kind |-> c.kind, target |-> i,
                 action |-> verdict.action, amount |-> x.amount, currency |-> "INR",
                 current |-> TRUE, escalated |-> verdict.approval],
   target   |-> [kind |-> c.kind, id |-> i, customer |-> c.customer, amount |-> x.amount,
                 currency |-> "INR", attempts |-> x.attempts, history |-> x.history,
                 success |-> x.success, code |-> x.code],
   approval |-> <<>>]

\* The execution layer names a target by kind and id in one.
ExecutionId(id) == <<id[1], <<id[2], id[3]>>>>

\* Proposal, target and the gateway's result, as the execution evaluator submits them.
RequestOf(i, c, verdict, result) ==
  LET s == SubmissionOf(i, c, verdict) IN
  [proposal |-> [id |-> ExecutionId(s.proposal.id), target |-> TargetOf(i, c),
                 action |-> verdict.action, amount |-> s.proposal.amount,
                 currency |-> s.proposal.currency, current |-> TRUE],
   target   |-> [id |-> TargetOf(i, c), amount |-> s.target.amount,
                 currency |-> s.target.currency, attempts |-> s.target.attempts],
   gateway  |-> [decision |-> result.decision, eligible |-> result.eligible,
                 reason |-> IF result.replay THEN "IDEMPOTENT_REPLAY_APPROVED"
                            ELSE "APPROVED_FOR_EXECUTION_LAYER",
                 proposal |-> ExecutionId(result.input.proposal.id),
                 target |-> TargetOf(i, c), current |-> TRUE],
   key      |-> <<"none">>]

Verdicts ==
  {Block, Escalate, Pass} \cup
  {Propose(a) : a \in {"RETRY_PAYMENT", "RETRY_LATER", "REQUEST_PAYMENT_METHOD_UPDATE",
                       "SUBSCRIPTION_RECOVERY_WORKFLOW"}}

\* Everything that may be submitted to either component.
Places == UNION {{<<i, b[i]>> : i \in DOMAIN b} : b \in Batches}
Positions == {p[1] : p \in Places}
Submissions == {SubmissionOf(p[1], p[2], v) : p \in Places, v \in Verdicts}
Approval(s) == [input |-> s, decision |-> "APPROVED", eligible |-> TRUE, replay |-> FALSE]
Requests ==
  {RequestOf(p[1], p[2], v, Approval(SubmissionOf(p[1], p[2], v))) :
     p \in Places, v \in Verdicts}
CallOf(i) == <<"call", i>>

Gateway == INSTANCE SafetyGateway WITH
  HighValue <- HighValueThreshold, RateLimit <- 3, Window <- 3600, MaxTime <- 0,
  MaxEvaluations <- Cardinality(Positions), audit <- results

Execution == INSTANCE ExecutionLayer WITH
  Calls <- {CallOf(i) : i \in Positions}, Handlers <- {}, Adapter <- "mock",
  EventShapes <- {}, MaxAttempts <- 2, MaxEvents <- 0, MaxRestarts <- 0, MaxCancels <- 0,
  audit <- executionLog

------------------------------------------------------------------------------
(* The stages *)

\* Faulty variant: the next stage goes on where this one ended.
AdvanceWithoutRewind(to) ==
  /\ stage' = IF next = Len(batch) THEN to ELSE stage
  /\ next' = next + 1

\* On to the next case, or to the first one of the next stage.
Advance(to) ==
  IF next = Len(batch) THEN stage' = to /\ next' = 1
                       ELSE next' = next + 1 /\ UNCHANGED stage

Replies(c) == IF Provider = "mock" THEN {MockReply(InputOf(c))} ELSE ModelReplies

\* Faulty variant: a provider that fails takes the batch with it.
DiagnoseNextOrFail ==
  /\ stage = "diagnose"
  /\ \E reply \in Replies(batch[next]) :
       IF reply.http = 200
       THEN diagnoses' = Append(diagnoses, Diagnose(reply)) /\ Advance("decide")
       ELSE stage' = "failed" /\ UNCHANGED <<next, diagnoses>>
  /\ UNCHANGED <<batch, proposals, items, gatewayVars, executionVars>>

\* diagnose_batch
DiagnoseNext ==
  /\ stage = "diagnose"
  /\ \E reply \in Replies(batch[next]) : diagnoses' = Append(diagnoses, Diagnose(reply))
  /\ Advance("decide")
  /\ UNCHANGED <<batch, proposals, items, gatewayVars, executionVars>>

\* evaluate_batch
DecideAll ==
  /\ stage = "decide"
  /\ proposals' = [i \in DOMAIN batch |-> Decide(ContextOf(batch[i]), diagnoses[i])]
  /\ stage' = "authorize"
  /\ UNCHANGED <<batch, next, diagnoses, items, gatewayVars, executionVars>>

\* GatewayEvaluator.evaluate
AuthorizeNext ==
  /\ stage = "authorize"
  /\ Gateway!EvaluateProposal(SubmissionOf(next, batch[next], proposals[next]))
  /\ Advance("execute")
  /\ UNCHANGED <<batch, diagnoses, proposals, items, executionVars>>

\* Faulty variant: what is neither blocked nor under review is executed.
IsAuthorizedUnlessRefused(i) == results[i].decision \notin {"BLOCKED", "REQUIRES_REVIEW"}

IsAuthorized(i) == results[i].decision = "APPROVED"

\* ExecutionEvaluator.evaluate_proposals: what is not authorised is not even tried.
SkipNext ==
  /\ stage = "execute" /\ ~IsAuthorized(next)
  /\ Advance("index")
  /\ UNCHANGED <<batch, diagnoses, proposals, items, gatewayVars, executionVars>>

\* execute_recovery, up to the await on the provider if it gets there ...
ExecuteNext ==
  /\ stage = "execute" /\ IsAuthorized(next)
  /\ Execution!ExecuteRecovery(CallOf(next),
       RequestOf(next, batch[next], proposals[next], results[next]))
  /\ IF pc'[CallOf(next)] = "awaiting" THEN UNCHANGED <<stage, next>> ELSE Advance("index")
  /\ UNCHANGED <<batch, diagnoses, proposals, items, gatewayVars>>

\* ... and after it.
AwaitNext ==
  /\ stage = "execute"
  /\ Execution!Respond(CallOf(next))
  /\ Advance("index")
  /\ UNCHANGED <<batch, diagnoses, proposals, items, gatewayVars>>

------------------------------------------------------------------------------
(* The list of cases *)

NoRecord == Execution!NoRecord

\* The records the execution evaluator returned, in the order of the batch.
Returned(i) == pc[CallOf(i)] \in {"returned", "replayed"}
RecordAt(i) == records[Execution!KeyOf(request[CallOf(i)])]

\* Faulty variant: records are joined to cases by position, but skipped cases have none.
RecordOfByPosition(i) ==
  LET Before(j) == Cardinality({k \in DOMAIN batch : k < j /\ Returned(k)})
      at == {j \in DOMAIN batch : Returned(j) /\ Before(j) = i - 1}
  IN IF at = {} THEN NoRecord ELSE RecordAt(CHOOSE j \in at : TRUE)

\* exec_map.get(proposal_id): records and cases are joined by the proposal.
RecordOf(i) ==
  LET mine == {j \in DOMAIN batch : Returned(j) /\
                 RecordAt(j).proposal = ExecutionId(DeriveProposalId(batch[i].kind, i))}
  IN IF mine = {} THEN NoRecord ELSE RecordAt(Max(mine))

\* What the API shows of a case; severity and prediction are this module's own and
\* not the risk engine's.
ItemOf(i) ==
  LET x == ContextOf(batch[i]) IN
  [case |-> i, amount |-> x.amount, action |-> proposals[i].action,
   decision |-> results[i].decision, record |-> RecordOf(i),
   level |-> IF x.amount >= 5000 THEN "HIGH" ELSE "MEDIUM",
   recoverable |-> x.success >= 5000 /\ x.attempts < 3]

Index ==
  /\ stage = "index"
  /\ items' = [i \in DOMAIN batch |-> ItemOf(i)]
  /\ stage' = "ready"
  /\ UNCHANGED <<batch, next, diagnoses, proposals, gatewayVars, executionVars>>

------------------------------------------------------------------------------

PipelineInit ==
  /\ batch \in Batches
  /\ stage = "diagnose" /\ next = 1
  /\ diagnoses = <<>> /\ proposals = <<>> /\ items = <<>>
  /\ Gateway!Init /\ active = FALSE
  /\ Execution!Init

PipelineNext ==
  DiagnoseNext \/ DecideAll \/ AuthorizeNext \/ SkipNext \/ ExecuteNext \/ AwaitNext \/ Index

PipelineSpec == PipelineInit /\ [][PipelineNext]_vars

\* initialize is one coroutine, every provider answers or times out, and nothing
\* holds it up in between.
FairPipelineSpec == PipelineSpec /\ WF_vars(PipelineNext)
==============================================================================
