# RecoverAI: a TLA+ verification project

RecoverAI finds failed payments, diagnoses them, proposes a recovery action, has a
deterministic gateway authorise it, executes it through a payment provider and
reconciles the outcome with the provider's webhooks. This directory models that
path from the recovery case to the reconciled payment and the list the API serves,
checks the models with TLC and proves the main results with TLAPS.

## 1. Inventory

Pipeline: synthetic data -> risk engine -> diagnosis agent -> decision agent ->
safety gateway -> execution service -> provider -> webhook handler. All of it
runs in one process; the FastAPI application exposes it.

| component | source | state | operations | interaction |
|---|---|---|---|---|
| execution service | `services/execution/service.py` | none of its own; the local record of each running call | `execute_recovery`, `_revalidate_authorization` | gets proposal, target and gateway result; asks the idempotency manager; awaits the provider; writes the audit log |
| idempotency manager | `idempotency.py` | `_records`, `_in_flight` | `start_execution`, `complete_execution`, `check_existing`; `release_lock` is never called | shared by the service and every webhook handler |
| state machine | `state_machine.py` | none | `can_transition`, `validate_transition` | used by service and handler |
| webhook handler | `webhook_handler.py` | `_processed_events` | `handle_webhook` | reads and writes the manager's records; two instances exist (`service.py:69` and `apps/api/main.py:77`) |
| audit logger | `audit.py` | `_events` | `record_event` | appended to by service and handlers |
| provider adapters | `mock_provider.py`, `razorpay_provider.py` | credentials, client, recorded requests | `execute_recovery`; `query_recovery_status` has no caller in the system | the external gateway |
| safety gateway | `agents/gateway/*` | kill switch flags, decision store, rate limiter history, audit log | `evaluate_proposal` (12 stages), `evaluate_batch` | its results are the execution service's authorisation |
| decision agent | `agents/decision/*` | none | `evaluate_proposal` (priority chain) | proposals for the gateway |
| diagnosis agent | `agents/diagnosis/*` | none (providers: HTTP client) | `diagnose`, `diagnose_batch`, fallback | asks an untrusted model; categories for the decision agent |
| risk engine | `services/risk_engine/*` | none | feature extraction, rules, metrics | its contexts feed decision agent and gateway; its predictions are an offline baseline the diagnosis evaluator compares with |
| HTTP API | `apps/api/main.py` | shared service and handler instances | webhook endpoint, demo endpoint, read endpoints | HTTP 400 makes the gateway retry |
| API data service | `apps/api/data_service.py` | singleton, cases | `get_instance`, `initialize`, `list_cases` | runs the whole pipeline once |
| benchmarks | `*/evaluator.py`, `*/cli.py` | counters | sequential accounting | drive the components |
| database models, synthetic data, frontend | `data/*`, `apps/web/*` | declarations, generated data, rendered answers | - | no running component writes the tables |

What is hard here: calls with the same idempotency key that overlap at the provider
await; a process restart that forgets everything the gateway remembers; provider
answers that are lost or ambiguous; webhooks that are repeated, reordered, arrive
before the record exists, carry another amount or come to the other handler; gateway
stores with a lock each, shared by threads; limits that four components have a copy of;
a language model whose answer steers the decision and whose provider fails in the middle
of a batch.
What makes the components correct is listed with each module below, and every
hazard is recorded at its line in `PROJECT.json`.

## 2. Plan

1. **Execution layer** (done): `ExecutionStates`, `ExecutionLayer`,
   `ExecutionProperties`, `RecoveryPromise`, `MCExecution`, `ExecutionProofs`,
   `HistoryProofs`.
2. **Safety gateway** (done): `SafetyGateway`, `GatewayProperties`,
   `AuthorizationLedger`, `MCGateway`, `GatewayProofs`; the same gateway with its locks
   taken one by one by several threads, `GatewayThreads`, `MCThreads`, `ThreadsProofs`.
3. **Agents** (done): `RiskEngine`, `DiagnosisAgent`, `DecisionPolicy`, `DecisionProofs`.
4. **Pipeline** (done): `RecoveryPipeline` composes the agents with the two state
   machines, `PipelineReports`, `PipelineProperties`, `MCPipeline`, `PipelineProofs`,
   `CaseProofs`, `ReportProofs`.
5. Left: every invariant and action property of a passing run is proved, so what is left
   lies outside the models: a driver of the gateway that does use threads, should the code
   get one; an adapter that queries the status of an unknown call; and the text search of
   the case list (section 7). Liveness stays with TLC.

How the modules depend on each other:

    ExecutionStates <- ExecutionLayer <- ExecutionProperties <- MCExecution, ExecutionProofs
                                         (INSTANCE RecoveryPromise)
    ExecutionProofs <- HistoryProofs
    SafetyGateway <- GatewayProperties <- MCGateway, GatewayProofs
                     (INSTANCE AuthorizationLedger)
    SafetyGateway <- GatewayThreads <- MCThreads
    GatewayThreads, GatewayProofs <- ThreadsProofs
    RiskEngine <- DiagnosisAgent <- DecisionPolicy <- RecoveryPipeline, DecisionProofs
    RecoveryPipeline (INSTANCE SafetyGateway, INSTANCE ExecutionLayer)
      <- PipelineReports <- PipelineProperties <- MCPipeline
    PipelineProperties, DecisionProofs <- PipelineProofs <- CaseProofs <- ReportProofs

## 3. The execution layer

### Modules

| module | content |
|---|---|
| `ExecutionStates` | statuses, the transition table, the mapping of provider answers |
| `ExecutionLayer` | the state machine of service, manager, handlers and gateway |
| `ExecutionProperties` | invariants, action and liveness properties, the claims of the documents that do not hold, the refinement mapping |
| `RecoveryPromise` | the abstract specification: each key charged once, settled, credited once |
| `MCExecution` | requests and event shapes of the TLC instances |
| `ExecutionProofs` | the TLAPS proofs of the layer's invariants |
| `HistoryProofs` | the proofs about the audit trail and of the refinement |

### State

| variable | code |
|---|---|
| `pc`, `request` | where a call of `execute_recovery` is, and its argument; a call is named by the `execution_id` it mints |
| `records`, `inFlight` | `ExecutionIdempotencyManager._records`, `._in_flight` |
| `processed` | `WebhookHandler._processed_events` of each handler |
| `audit` | entries of the audit loggers, gathered per execution; each entry names its logger |
| `life` | number of restarts; it only counts, to tell what belongs to which life |
| `orders`, `events` | the payment gateway: orders opened, events emitted |
| `replies` | what the webhook endpoint has answered |
| `dispatched`, `confirmations` | history: provider requests, and reconciliations that report revenue |

### Actions

`Refuse`, `Replay`, `Conflict`, `Defer` and `Dispatch` are the five ways
`execute_recovery` runs from its start to its return or its await. `Respond` is the
rest after the await: the answer becomes a status, the record is stored, the key is
released and the trail extended in one step. `Cancel` is a call that leaves the await
with `CancelledError`, which `except Exception` does not catch. `Deliver` is one call
of `handle_webhook`: `RejectUnverified`, `ReplayEvent`, `NoMatch`, `LeaveRecord`,
`Reconcile` are its exits. `Restart` empties what is in memory. `OpenOrder` and `Emit`
are the payment gateway.

Granularity. The process is one asyncio event loop and the await on the provider is
its only suspension point, so the code between two awaits runs without interleaving
and is one action. The two adapters in the repository answer without suspending (the
Razorpay SDK call blocks the loop); the interface they implement
(`BasePaymentProvider`) is asynchronous, and the model allows an adapter that
suspends. With the adapters as they are every behaviour is one of the model's in
which a call's dispatch and answer are adjacent; `Conflict` and `Cancel` are then
never taken.

### Abstractions

* Ids are structured values: a proposal id, an idempotency key or a derived
  reference is a tuple of what it is derived from, since uuid5 is taken to be
  injective on the inputs that occur.
* `current` in a request stands for the equality of the decision, policy and gateway
  versions with the configured ones.
* An event carries the set of references the handler would extract, an amount and a
  currency that are right, absent or different, and a flaw: a signature that does not
  verify or a body that is not JSON. A body that is JSON but not an object, or whose
  `payload` is not one, raises `AttributeError` in the handler and is not modelled.
* The check of `payment_mode` cannot fail, as the enumeration has only the permitted
  values. The amount and currency checks inside the adapters cannot fail after the
  recheck and are left out.
* Error texts, timestamps and receipts are left out.

### Runs

Bounds: `MaxEvents` events, `MaxRestarts` restarts, `MaxCancels` cancelled calls, and as
many calls as `Calls` has. `MaxAttempts` is the configured ceiling, not a bound.

| run | instance | what it shows |
|---|---|---|
| `execution_core` | 2 calls, 3 requests (two targets, a deferral), 7 event shapes (paid, failed, wrong amount, wrong currency, neither of them given, naming no order, of a type the handler ignores), 2 events of which one at most is odd (`OneOddEvent`), 2 handlers, Razorpay answers | type correctness; revenue is reported once and only for paid and approved money; the audit trail of an execution is a legal walk that ends in its status; failed and reconciled are final; every step is one `RecoveryPromise` allows |
| `execution_crash` | 3 calls, one proposal under a derived and a supplied key, five requests refused for different reasons, 1 event, 1 restart, 1 cancellation, mock answers | one dispatch per key and life; the in-flight set is exact; a record belongs to the call it was made for |
| `execution_promise` | 2 calls of one proposal, 2 events of which any may have a bad signature or a bad body, 2 handlers, mock answers, no restart or cancellation, fair | the layer implements `RecoveryPromise`; redelivery of every good event ends |
| `duplicate_across_restart` | 2 calls, 1 restart | violation: the same key is dispatched again after a restart |
| `unknown_never_reconciled` | 1 call, fair | violation: a timed-out call stays ambiguous although its order was paid |
| `replay_of_unprocessed` | 1 call | violation: an event refused for want of a record is dismissed when it is retried |

The bounds suffice for the cases that matter: a key is contended by two calls, and a
third sees what they leave behind; a record is changed by one event and met by a
second, at the same or the other handler; an event can precede the answer to the
dispatch, as orders open as soon as the request is out; of two events one is ordinary,
so an odd one is met before and after every regular change of its record; a restart can fall between any
two steps. Deadlock is not checked, because the system may stop: every call has been
made and no event is left.

Fairness. `FairSpec` assumes weak fairness of `Respond` for each call (an await ends:
the adapters turn a timeout of the HTTP client into an answer) and of the delivery of
an event that has not been acknowledged (the gateway retries until HTTP 200, as its
webhooks do). Nothing else is fair: calls need not be made, orders need not be opened
or paid.

### What the code does not do

The three violation runs above state a sentence of the repository's documents each, and
TLC shows a behaviour of the code that contradicts it. They are listed with quotations
under "findings" in `PROJECT.json`. Two smaller differences need no run:

* `docs/PHASES/PHASE_7.md:44` has RECONCILED as the only successor of SUCCEEDED; the
  table also allows FAILED and REQUIRES_REVIEW, and a `payment.failed` event takes the
  first.
* `schemas.py:28` calls REQUIRES_REVIEW the state of a mismatch; on a mismatch the
  handler answers AMOUNT_MISMATCH, the record stays SUCCEEDED, and no code ever sets
  REQUIRES_REVIEW.

## 4. The safety gateway

### Modules

| module | content |
|---|---|
| `SafetyGateway` | the state machine: one action per exit of `evaluate_proposal`, the kill switch, the clock |
| `GatewayProperties` | invariants, the action property, a claim that does not hold, the refinement mapping |
| `AuthorizationLedger` | the abstract specification: a target is cleared once, for one action and amount, and all that is acted on is what was cleared |
| `MCGateway` | submissions of the TLC instances |
| `GatewayProofs` | the TLAPS proofs |
| `GatewayThreads` | the same gateway, one step for each locked section, several threads |
| `MCThreads` | the payments and the two scenarios of the threads' instance |
| `ThreadsProofs` | the TLAPS proofs about threads |

### State and actions

| variable | code |
|---|---|
| `active`, `corrupted` | `GatewayKillSwitch._is_active`, `._is_corrupted` |
| `now` | the clock: `time.time()`, or the `now_epoch` a caller passes |
| `primary`, `targetStore` | `InMemoryIdempotencyStore._primary_store`, `._target_store` |
| `targetTimes`, `customerTimes` | `InMemoryRateLimiter._target_timestamps`, `._customer_timestamps` |
| `audit` | `GatewayAuditLogger._records` |

`Suspend` is stage 1, `RejectInvalid` stages 2 to 4, `RejectConflict` and
`ReplayDecision` stage 5, `Block` and `RequestReview` stages 6 to 9, `Throttle` stage 10,
`Approve` stages 11 and 12. Only `Block`, `RequestReview` and `Approve` store a decision;
all of them write the audit log. `Activate`, `Deactivate`, `SetCorrupted` are the kill
switch's methods and `Tick` lets time pass.

Granularity. In `SafetyGateway` an evaluation is one step: the gateway's callers (its
evaluator and command line) evaluate one proposal after the other, and an operator may
work the kill switch between any two. The gateway's parts nevertheless have a lock each
(`threading.Lock` in kill switch, store, limiter and log) and call themselves thread-safe.
`GatewayThreads` is what that gives: `Begin` reads the clock, `ReadSwitch`, `Lookup`,
`ReadEntry`, `CheckConflict`, `CheckLimit`, `RecordAttempt`, `Log` and `Store` are the
locked sections in the order `evaluate_proposal` takes them, with the thread's local
variables in `work`, and threads, operator and clock interleave between them. The checks,
the stores and the kill switch are those of `SafetyGateway`.

Abstractions. Only the observables the checks read are kept of proposal, target and
approval. `current` stands for the version comparisons and `signed` for a non-blank
`approved_by`. A list of timestamps is a set of attempts, each with the number of its
evaluation, since its order is never read and equal times must count twice. Reason codes
and messages are left out. The clock does not run backwards; `time.time()` may, and a
caller may pass any `now_epoch`. The handler of unexpected exceptions at the end of
`evaluate_proposal` is not reached by the inputs the schemas admit. The configured
versions are the ones the gateway requires.

### Runs

Bounds: `MaxTime` and `MaxEvaluations`. `HighValue`, `RateLimit` and `Window` are the
configuration, scaled down.

| run | instance | what it shows |
|---|---|---|
| `gateway_decisions` | two targets, submissions with every action, amount, condition and approval the policy tells apart, an amount at the threshold, a proposal under another target's id, kill switch | types; the gateway implements `AuthorizationLedger`: one fresh authorisation of a target at most, and later ones on its terms; high-value money needs a human's approval of this proposal; the two stores agree and are rooted in the log; nothing is authorised while suspended |
| `gateway_limits` | 4 interchangeable targets of one customer and one of another, limit 1 (3 per customer), window 1, times 0 to 2, 5 evaluations | the limits are exact in every closed window |
| `gateway_threads` | 2 interchangeable threads, two payments approved before, limit 1 (3 per customer), times 0 and 1, kill switch; in the constraint `Scenarios` either three evaluations of a contested target (two actions, and one submission the policy refuses) and of an approved one (replays) while the clock stands, or four of three payments that rush at the customer's last approval; these are alike, so they are taken in one order | the stores agree after every interleaving; a customer's limit is overshot by at most two approvals per other thread; after the switch was pulled no more authorisations come out than there are threads; a target has no more fresh approvals than there are threads |
| `approval_not_honoured` | a high-value proposal without and with approval | violation: a review is never ended by the approval it asked for |

The bounds suffice: a target is decided by the first admitted submission, so three
evaluations see the decision, a conflict, a replay or an interruption in every order;
five evaluations exhaust a customer's quota, meet the refusal at the window's edge and
the approval after it.

One consequence of the ledger is worth knowing: the limit of a target is never what
throttles, as a target is approved at most once and replays are not counted. Only the
customer's quota is effective, and `check_target_conflict` never finds a conflict, because
ids are a function of the target.

What the ledger does not promise. It is about targets that were authorised. Of one that was
refused or sent to review it says nothing, because there the code and what is written about
it disagree:

* A blocked target stays blocked. `idempotency.py:67` lists as legitimate that a "prior
  proposal for the target was BLOCKED, allowing an updated or revised proposal", but a revised
  proposal has the id of the one before it, so `service.py:212-219` finds a recorded decision
  with another action or amount and refuses it as conflicting before `check_target_conflict`
  is asked. (`docs/safety-gateway.md:121` has a rule of its own for that, a second conflicting
  action for the same unresolved target, which would refuse it.)
* A reviewed target stays in review, with a valid approval too, against
  `docs/safety-gateway.md:103`: the run `approval_not_honoured` shows it.

Should the code come to admit either, the ledger still holds. `SuspensionHolds` takes the side
of `docs/safety-gateway.md:83`, where the kill switch ends every evaluation, replays
included, as the code does; line 134 of it speaks of "non-replayed requests" only.

Under threads the ledger itself does not hold: two threads that both find no decision may
authorise one target for two actions, and a thread that found APPROVED before another
overwrote the entry with BLOCKED still replays the approval. `idempotency.py:14-17` claims
race safety; no caller in the repository uses threads, so this is a note and
`FreshDecisionsAreBounded` says how far it can go. A thread may exceed the limit twice over:
once because it looked before the others recorded, and once more because what it records has
the time at which it began, which may have left the window by the time of the next check.

## 5. Agents and pipeline

### Modules

| module | content |
|---|---|
| `RiskEngine` | a recovery case, its observable context, the rules of Baseline v1 with their levels, the scores against the hidden truth |
| `DiagnosisAgent` | what the model is told, what providers answer, validation and fallback, the diagnosis report |
| `DecisionPolicy` | the priority chain as an operator `Decide`, the decision report |
| `RecoveryPipeline` | the state machine of `RecoverAIDataService.initialize`, with gateway and execution layer as instances |
| `PipelineReports` | the reports of gateway and execution evaluator, `list_cases` |
| `PipelineProperties` | invariants and the liveness property |
| `MCPipeline` | the datasets and the model's answers of the TLC instances |
| `DecisionProofs`, `PipelineProofs` | the TLAPS proofs of agents and pipeline |
| `CaseProofs` | the proofs that follow one case through gateway, execution and listing, and that the pipeline is a behaviour of both components |
| `ReportProofs` | the proofs about what is shown of a run: reports, scores, pages |

### State and actions

| variable | code |
|---|---|
| `batch` | the recovery cases of the dataset, with their hidden truth |
| `stage`, `next` | where `initialize` is, and the case its loop has reached |
| `diagnoses`, `proposals`, `items` | `ai_diagnoses`, `proposals`, `self.cases` |
| `results` | `gw_results`: the audit log of the gateway instance, which has one entry per case in order |
| the rest | the variables of `SafetyGateway` and `ExecutionLayer` |

`DiagnoseNext` is one `diagnose` of `diagnose_batch`, the only await that may really
suspend; `DecideAll` is `evaluate_batch`; `AuthorizeNext` is the gateway evaluator's
loop body and takes the gateway's own `EvaluateProposal`; `SkipNext`, `ExecuteNext` and
`AwaitNext` are the execution evaluator's, on the execution layer's `ExecuteRecovery` and
`Respond`; `Index` joins the results. Each component has its own names for a target and a
proposal; `SubmissionOf` and `RequestOf` are the conversions the code makes between them.

Abstractions. Amounts are in rupees (TLC's integers have 32 bits; thresholds and
arithmetic are the code's, divided by 100). Prompts, summaries, explanations, timelines
and the firing counts of rules are left out. A model's answer is an HTTP status and a
category with an assessment, or nothing usable. The mock provider is modelled with what
the prompt template lets it see: it looks for `attempts: 3`, which the template never
writes, so its branch for repeated failure is never taken. The live provider is a library
class no code wires to the data service; the pipeline is checked with it because its
answers include the mock's and every fault. `Generated` describes the cases the generator
writes; how it samples them is left out, so every combination is tried. The gateway's clock
stands still during a batch: the loop over a dataset is done long before the hour of the
rate limit has passed, so a customer's limit counts the whole batch. The generator writes five
payments per customer and does not reach it; the batches of `Crowd` do.

### Runs

| run | instance | what it shows |
|---|---|---|
| `pipeline` | every single case of 5 histories (at and beside 25% and 75%), 9 sequences of decline codes, amounts beside and at the threshold, and two subscriptions; every ordered pair of 5 cases that end differently; one triple; batches of `Crowd` with more cases of one customer than its limit and an odd one (a stranger's, a blocked one, a subscription) at either edge or in the middle; a live model with 6 answers and 3 kinds of failure; of three cases and more at most one execution does not succeed, and the cases of a crowd have one diagnosis (`OneSetback`); fair | the copies of the limits agree; a hard decline is charged again only for a proven customer; each case shows its own record; the three reports add up; the scores are sound; under every filter by action, decision and status, alone or together, and for every page size, the pages show exactly the cases asked for, in their order; the list is ready in the end |
| `ai_overrides_hard_decline` | one dataset of three cases, the mock provider | violation: a hard decline of a customer not proven is authorised for a later retry, as the category outranks it |

The bounds suffice: thresholds are checked at, below and above; the pairs have every
combination of authorised and not, so that records and cases are at different positions;
two verdicts by two truths with a failed diagnosis fill the confusion matrix.

`CheckersAgree` determines the gateway's answer to every proposal of the decision agent.
It tells where the copies of the policy differ on purpose: the gateway refuses the immediate
retry of a `generic_decline` that the model explained away, unless the customer is proven. It
has no such check for `RETRY_LATER`, which is the finding. Otherwise it approves, up to the
customer's ninth approval in the batch, and throttles from the tenth on.

Fairness. `FairPipelineSpec` assumes weak fairness of the pipeline's step: `initialize` is
one coroutine, every provider answers or times out (30 seconds for the model), and nothing
else holds it up.

Deadlock is not checked, because the pipeline runs once and stops.

What a reader of the code's reports should know:

* the benchmark counts SUCCEEDED as recovered, although an order was only created and
  no webhook has confirmed it (`evaluator.py:79`);
* its duplicate and unauthorised counters are never incremented;
* risk level and prediction of the case list are the data service's own
  (`data_service.py:263-265`) and not the risk engine's;
* `get_overview`, the safeguards and the analytics endpoint return constants, and the demo
  endpoint answers RECONCILED whatever happened;
* the `min_reliable_*` fields of the recovery policy are never read: a transient code is
  retried for any customer, although the comment at `decision/service.py:149` names
  proven or new ones.

## 6. What is proved

### The execution layer

`ExecutionProofs` holds for every set of calls, requests, handlers and event shapes,
both adapters, and any bounds. It rests on two assumptions of `ExecutionLayer`:
`BoundsAssumption` (the bounds are natural numbers) and `PlaceholderAssumption` (the
placeholder `<<>>` is neither a request nor a call).

| theorem | statement |
|---|---|
| `TypeCorrect` | `Spec => []TypeOK` |
| `DispatchedAtMostOnce` | `Spec => []AtMostOneDispatchPerKey` |
| `LocksAreAccountedFor` | `Spec => []LockLedger` |
| `FinalStatusHolds` | `Spec => FinalStatusIsKept` |
| `ExecutionInvariantHolds` | `Spec => []ExecutionInvariant` |
| `RecordsBelong` | `Spec => []RecordBelongsToItsExecution` |
| `RevenueReportedOnce` | `Spec => []ConfirmedAtMostOnce` |
| `RevenueIsJustified` | `Spec => []ConfirmedMoneyWasPaidAndApproved` |

The argument. `AtMostOneDispatchPerKey` is not inductive: a second dispatch is
prevented by what the first left behind. `DispatchLedger` says what that is, a held
key or a record, and `LockLedger` that a held key is in the in-flight set and has no
record, so `start_execution` refuses it. These with `TypeOK` are `DispatchInvariant`,
inductive with one lemma per action. `RecordSteps` then describes everything a step
can do to one record (appear deferred, appear answered, be reconciled, be lost), and
the remaining invariants are proved from it: a record belongs to its call because only
the holder of a key stores one; reported revenue is unique because a reported key
shows RECONCILED, which is final; it is justified because `ReferenceLedger` ties a
record's reference to its key's own order.

`HistoryProofs` rests on these.

| theorem | statement |
|---|---|
| `AuditTrailsAreLegalWalks` | `Spec => []AuditIsALegalWalk` |
| `PromiseIsNeverBroken` | `MaxRestarts = 0` proves `Spec => NeverBreaksPromise`, the refinement without its fairness |

The audit trail. An entry and the status it records are written in one step, but by
different actors, so `TrailInvariant` says of every call where its trail is: empty before
the call is dispatched or deferred, ending in PROVIDER_REQUESTED while the provider has it, and
ending in the record's status once it has returned. A walk is continued only by a status the
table allows, since every change of a record is validated against it.

The refinement. `MaxRestarts = 0` is needed: a restart forgets records, and the run
`duplicate_across_restart` shows the key charged again. With one life `DispatchLedger` says
that a key neither held nor stored was never charged, and `ConfirmationLedger` that one not
RECONCILED was never credited, so `Defer`, `Dispatch`, `Respond` and `Reconcile` map to
`Park`, `Charge`, `Settle` and `Credit` or `Close` of their key, and all other steps to
nothing. The invariant adds that records only have statuses an answer, a deferral or a
webhook gives them. Cancellations are allowed: a cancelled key stays pending for ever, which only the
fairness of `KeepsPromise` excludes.

### The safety gateway

`GatewayProofs` holds for every set of submissions and all bounds, under
`GatewayAssumption` (the configured numbers and the bounds are natural numbers). All
properties of the passing gateway runs are proved.

| theorem | statement |
|---|---|
| `GatewayTypeCorrect` | `Spec => []GatewayTypeOK` |
| `StoredDecisionsAreRooted` | `Spec => []DecisionsAreRooted` |
| `GatewayKeepsLedger` | `Spec => KeepsLedger`, the refinement |
| `HighValueNeedsAHuman` | `Spec => []HighValueWasApproved` |
| `RateLimitHolds` | `Spec => []RateLimitIsExact` |
| `SuspensionIsKept` | `Spec => SuspensionHolds` |

The argument. A voucher of the ledger is a fresh approval in the log. The refinement needs that
a proposal without a decision has a target without one, hence without a voucher
(`UndecidedHasNoVoucher`), and that a replayed approval repeats terms already honoured. Both
follow from `StoreInvariant`: the stores agree because an admitted proposal's id is derived from its
target and distinct targets have distinct ids (`DecisionsAreRooted`), and eligible
results carry the stored terms (`GrantedIsStored`). A replay of a high-value approval then
inherits the voucher of the evaluation its decision is rooted in. The rate limit rests on
`LimiterLedger`: within the window a history is exactly the approvals the log has, however
it was trimmed; counting them is counting the log, as stamps and evaluations are in
bijection.

`ThreadsProofs` holds for every set of threads, submissions and earlier approvals and all
bounds, under `ThreadsAssumption` (there is a thread, and their set is finite) and `EarlierAssumption`
(the earlier approvals are authentic submissions within the policy, of different targets and
no more than the limit of one customer admits).

| theorem | statement |
|---|---|
| `ThreadsTypeCorrect` | `ThreadsSpec => []ThreadsTypeOK` |
| `StoresAlwaysAgree` | `ThreadsSpec => []StoresAgree` |
| `LateApprovalsStayBounded` | `ThreadsSpec => []LateApprovalsAreBounded` |
| `FreshDecisionsStayBounded` | `ThreadsSpec => []FreshDecisionsAreBounded` |
| `OvershootStaysBounded` | `ThreadsSpec => []OvershootIsBounded` |

The argument. `TypeInvariant` has what a thread knows at each of its steps. The stores agree
because both are written in one locked section. Each bound is a sum that no step can raise
beyond it: what has come out plus what the threads can still bring out. While the switch is
pulled (`LateInvariant`), the authorisations since then plus the threads that had passed it
are at most the threads, since a thread that begins again finds the switch. For a target
(`FreshInvariant`), as long as it has no entry every fresh approval belongs to a thread that
is about to store it; once it has one, the fresh approvals plus the threads that found none
are at most the threads. For the limit, `LimitInvariant` bounds every window of every
customer (`CustomerBound`): either all its approvals are still held by the limiter, and a
check that passes leaves room only for the other threads that passed before; or the window is
over and trimmed, and only the threads that began in it can add to it. Its part `Numbered`
tells attempts of one instant apart, so that counting the history counts the approvals.

### The decision agent

`DecisionProofs` is about every context and every diagnosis; only `attempts \in Nat` is
assumed.

| theorem | statement |
|---|---|
| `CopiesOfTheLimitsAgree` | the risk engine's negative invariant is the decision agent's hard block |
| `LimitsPrevail` | whatever the diagnosis, a case beyond the limits is blocked, and any other high-value case is reviewed |
| `CriticalIsNeverProposed` | no diagnosis makes a critical case proposed |
| `ModelDecidesWithinLimitsOnly` | diagnoses make a difference only within all limits |
| `FailedDiagnosisIsReviewed` | a failed diagnosis is blocked or reviewed |
| `EveryReplyIsADiagnosis` | a reply on the schema becomes the successful diagnosis it states; any other becomes a fallback that assesses nothing, and no case is acted on for it |

### The pipeline

`PipelineProofs` holds for every set of datasets of generated cases, either provider and
any replies, under `PipelineAssumption`.

| theorem | statement |
|---|---|
| `PipelineInvariantHolds` | `PipelineSpec => []IInv` |
| `PipelineTypeCorrect` | `PipelineSpec => []PipelineTypeOK` |
| `CriticalCasesAreSafe` | `PipelineSpec => []CriticalIsNeverAuthorised` |
| `HardDeclinesAreNotRetried` | `PipelineSpec => []RetriedDeclinesAreProven` |
| `CaseInvariantHolds` | `PipelineSpec => []CaseInvariant` (`CaseProofs`) |
| `CheckersAlwaysAgree` | `PipelineSpec => []CheckersAgree` (`CaseProofs`) |
| `EveryCaseShowsItsOwnRecord` | `PipelineSpec => []EachCaseShowsItsOwnRecord` (`CaseProofs`) |
| `PipelineRunsItsComponents` | `PipelineSpec => Gateway!Spec /\ Execution!Spec` (`CaseProofs`) |
| `TheFunnelAddsUp` | `PipelineSpec => []FunnelAddsUp` (`ReportProofs`) |
| `TheScoresAreSound` | batches of at most 10000 cases prove `PipelineSpec => []ScoresAreSound` (`ReportProofs`) |
| `ThePagesCoverTheList` | `PipelineSpec => []PagesCoverTheList` (`ReportProofs`) |

The argument. The properties speak of gateway results and dispatches, which by themselves
say nothing of the case they came from; `IInv` carries it along. `Progress` is the type
invariant with the lengths of what each stage has produced; `Proposed` that a proposal is
`Decide` of its own context and diagnosis; `Rooted` that the result of a case is for its own
submission and that an approved one passed the gateway's policy, which needs that every
evaluation is the first of its target (`FirstEvaluation`), so none is a replay; `Handed` that
a call executes the request of its own case and only on an approved result. The safety
theorems then follow from the gateway's checks and from `DecisionProofs`.

`CaseInvariant` says what the books of gateway and execution layer hold: the limiter exactly
the approvals so far, customer by customer, and of a case still to come nothing, neither a
stored decision nor an attempt, a record nor a held key. That needs that targets, keys and
calls belong to one case each (`CasesAreDistinct`). So every evaluation is fresh, its customer's
attempts are counted by the approvals before it (`StampsAreCounted`), and the answer is determined
(`CaseIsAnswered`); the request of an approved case passes the execution layer's recheck
(`RequestIsAccepted`) under a free key (`KeyIsFree`), so it is deferred or dispatched; and
the join by proposal finds the record of this case and no other.

`PipelineRunsItsComponents` says that the pipeline does nothing to the gateway or the
execution layer that their own specifications do not have: every evaluation is of an authentic
submission and every call is for a request the component admits (both by `CaseInvariant`). So
the theorems about `Gateway!Spec` and `Execution!Spec` hold inside the pipeline as well. No
run checks this one, since TLC would enumerate every submission and request the components
admit at each step.

Reports. The reports of three evaluators are sums over sets of cases, computed by a fold from
different objects. The fold is a sum that grows by any element (`SumTakesAnyElement`), and
amounts of disjoint sets add (`AmountOfParts`); that a property holds of every subset of a finite
set, or of every number, is shown for the set of those that have it, to which nothing minimal
can be missing, so that no induction over an operator is needed. `ProposalsDivide` and
`ApprovedIsSafe` say what each evaluator's sets have in common, `ApprovedHaveReturned` that in
the end each approved case has its record. The rates of `ScoresAreSound` are then bounded as
quotients. The hypothesis on the size of a batch is needed and not an artefact: with more than
10000 cases a floored rate can be zero although its class is not. The pages of a list are the
list because a sequence cut at multiples of the page size and joined again is itself, when the
pages have room for it (`PagesJoin`, `PagesFit`). A filtered list is described by places: an
element that passes stands where the number of those that pass, up to it, says (`FilteredList`,
by induction from `SiftedGrows`); so the list has the cases asked for, each once, in their
order, and no others. This is what `SelectSeq` is defined to yield; it is said by places
because `SelectSeq` is a recursion the prover does not expand. `ListedIsAsked` ties the
filter's test of an item to proposal, gateway result and record of the case.

### Only model-checked

`KeepsPromise`, `EventsAreAcknowledged` and `EventuallyReady`: liveness and fairness are out
of the prover's reach. The safety part of the first is `PromiseIsNeverBroken`. Every invariant
and every action property of the passing runs is proved.

## 7. What is not modelled

Everything under "not_modelled" in `PROJECT.json`, with its reason: command lines, database
declarations (nothing writes the tables at run time) and the frontend. Of the execution
layer: `query_recovery_status` and `release_lock`, which nothing calls; `clear`, which
serves tests; the credential checks of the Razorpay adapter's constructor. Of the data
service: the text search of `list_cases` and the constant reports. Of the synthetic data:
sampling, statistics, validation and the seeder, which keep no state the recovery depends
on. Of the diagnosis report: taxonomy agreement and evidence grounding, plain counters.
A second first request to `get_instance` during `initialize` could run it twice; with the
mock provider the data service wires, no await in it suspends, so this cannot happen and
is not modelled.
