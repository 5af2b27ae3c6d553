---------------------------- MODULE ExecutionLayer ----------------------------
(***************************************************************************)
(* The execution layer: concurrent calls of execute_recovery sharing one   *)
(* idempotency manager, the webhook handlers that reconcile the records it *)
(* stores, and, as their environment, the payment gateway that opens       *)
(* orders and delivers events at least once and in any order.              *)
(*                                                                         *)
(* Everything runs on one asyncio event loop, whose only suspension point  *)
(* is the await on the provider: a call is one step up to the await and    *)
(* one step after it, and handling a webhook is one step. The adapters in  *)
(* the repository answer without suspending; the interface they implement  *)
(* is asynchronous, and the model allows an adapter that suspends.         *)
(***************************************************************************)
EXTENDS Integers, Sequences, FiniteSets, ExecutionStates

CONSTANTS
  Calls,        (* invocations of execute_recovery; each mints one execution_id *)
  Requests,     (* the ExecutionRequests callers may submit                     *)
  Handlers,     (* WebhookHandler instances; all share the records              *)
  Adapter,      (* which provider adapter is configured: "mock" or "razorpay"   *)
  EventShapes,  (* the shapes of webhook the gateway may send for an order      *)
  MaxAttempts,  (* ExecutionConfig.max_execution_attempts                       *)
  MaxEvents,    (* bound: events the gateway emits                              *)
  MaxRestarts,  (* bound: process restarts                                      *)
  MaxCancels    (* bound: calls cancelled while they await the provider         *)

ASSUME BoundsAssumption ==
  MaxAttempts \in Nat /\ MaxEvents \in Nat /\ MaxRestarts \in Nat /\ MaxCancels \in Nat

\* The placeholder of a call not made yet is neither a request nor an execution id.
ASSUME PlaceholderAssumption == <<>> \notin Requests /\ <<>> \notin Calls

VARIABLES
  pc,            (* call -> where it is                                         *)
  request,       (* call -> the request it was invoked with                     *)
  records,       (* manager._records: key -> record                             *)
  inFlight,      (* manager._in_flight                                          *)
  processed,     (* handler -> its _processed_events                            *)
  audit,         (* execution -> audited [logger, status] entries, in order     *)
  life,          (* number of restarts so far                                   *)
  orders,        (* gateway: calls whose order it has opened                    *)
  events,        (* gateway: events emitted; any may be delivered again         *)
  replies,       (* <<event id, code>> pairs the endpoint has answered          *)
  dispatched,    (* history: requests handed to the provider                    *)
  confirmations  (* history: revenue reported as recovered                      *)

service  == <<pc, request>>
manager  == <<records, inFlight>>
gateway  == <<orders, events>>
vars == <<service, manager, processed, audit, life, gateway, replies,
          dispatched, confirmations>>

------------------------------------------------------------------------------
(* Names and data *)

NoKey     == <<"none">>
NoRef     == <<"none">>
NoAmount  == -1
NoCurrency == "absent"
NoRequest == <<>>

\* A uuid5 over the versions, target type and target id: injective in the target.
DeriveExpectedProposalId(target) == <<"proposal", target>>

\* A uuid5 over proposal, versions and action; the amount is not part of it.
DeriveExecutionIdempotencyKey(r) == <<"derived", r.proposal.id, r.proposal.action>>

\* The key a call uses: the caller's if it supplied one.
KeyOf(r) == IF r.key # NoKey THEN r.key ELSE DeriveExecutionIdempotencyKey(r)

Keys == {KeyOf(r) : r \in Requests}

\* References: the gateway's order id, or the one an adapter derives from the key.
OrderRef(c) == <<"order", c>>
LocalRef(k) == <<"local", k>>

NoRecord == [status |-> "ABSENT", execution |-> NoRequest, proposal |-> NoKey,
             amount |-> 0, currency |-> NoCurrency, ref |-> NoRef]

NewRecord(c, r, status, ref) ==
  [status |-> status, execution |-> c, proposal |-> r.proposal.id,
   amount |-> r.target.amount, currency |-> r.target.currency, ref |-> ref]

Stored(k) == records[k] # NoRecord

PaidTypes == {"payment.captured", "order.paid", "payment_link.paid"}

------------------------------------------------------------------------------
(* execute_recovery, up to the await *)

ExecutableActions ==
  {"RETRY_PAYMENT", "RETRY_LATER", "REQUEST_PAYMENT_METHOD_UPDATE",
   "SUBSCRIPTION_RECOVERY_WORKFLOW"}

\* Faulty variant: the proposal's amount is not compared with the target's.
RevalidateWithoutAmount(r) ==
  /\ r.gateway.decision = "APPROVED" /\ r.gateway.eligible
  /\ r.gateway.proposal = DeriveExpectedProposalId(r.proposal.target)
  /\ r.proposal.target = r.target.id /\ r.gateway.target = r.proposal.target
  /\ r.proposal.action \in ExecutableActions /\ r.target.attempts <= MaxAttempts

\* The authorization recheck. "current" abstracts the version comparisons.
RevalidateAuthorization(r) ==
  /\ r.gateway.decision = "APPROVED"
  /\ r.gateway.eligible
  /\ r.gateway.reason \in {"APPROVED_FOR_EXECUTION_LAYER", "IDEMPOTENT_REPLAY_APPROVED"}
  /\ r.proposal.current /\ r.gateway.current
  /\ r.proposal.id = DeriveExpectedProposalId(r.proposal.target)
  /\ r.gateway.proposal = DeriveExpectedProposalId(r.proposal.target)
  /\ r.proposal.target = r.target.id /\ r.gateway.target = r.proposal.target
  /\ r.proposal.amount = r.target.amount /\ r.proposal.amount > 0
  /\ r.proposal.currency = r.target.currency /\ r.proposal.currency = "INR"
  /\ r.proposal.action \in ExecutableActions
  /\ r.target.attempts <= MaxAttempts

\* Faulty variants: one of the two checks is missing.
StartIgnoringInFlight(k) == ~Stored(k)
StartIgnoringRecords(k) == k \notin inFlight

\* start_execution grants the key: it has no record and nobody holds it.
StartExecution(k) == ~Stored(k) /\ k \notin inFlight

\* Faulty variant: the key is not released.
CompleteWithoutRelease(k, record) ==
  /\ records' = [records EXCEPT ![k] = record]
  /\ inFlight' = inFlight

\* complete_execution
CompleteExecution(k, record) ==
  /\ records' = [records EXCEPT ![k] = record]
  /\ inFlight' = inFlight \ {k}

\* Faulty variant: entries alias the record and all show its last status.
AuditByReference(log, x, statuses) ==
  audit' = [audit EXCEPT ![x] = @ \o [i \in DOMAIN statuses |->
                                        [logger |-> log, status |-> statuses[Len(statuses)]]]]

\* Each entry is a copy of the record's status when it is written.
Audit(log, x, statuses) ==
  audit' = [audit EXCEPT ![x] = @ \o [i \in DOMAIN statuses |->
                                        [logger |-> log, status |-> statuses[i]]]]

Enter(c, r, to) ==
  /\ pc[c] = "idle"
  /\ pc' = [pc EXCEPT ![c] = to]
  /\ request' = [request EXCEPT ![c] = r]

\* ExecutionAuthorizationError
Refuse(c, r) ==
  /\ Enter(c, r, "refused")
  /\ ~RevalidateAuthorization(r)
  /\ UNCHANGED <<manager, processed, audit, life, gateway, replies, dispatched, confirmations>>

\* The key already has a record, which is returned as it is.
Replay(c, r) ==
  /\ Enter(c, r, "replayed")
  /\ RevalidateAuthorization(r)
  /\ ~StartExecution(KeyOf(r)) /\ Stored(KeyOf(r))
  /\ UNCHANGED <<manager, processed, audit, life, gateway, replies, dispatched, confirmations>>

\* ConcurrencyConflictError
Conflict(c, r) ==
  /\ Enter(c, r, "conflict")
  /\ RevalidateAuthorization(r)
  /\ ~StartExecution(KeyOf(r)) /\ ~Stored(KeyOf(r))
  /\ UNCHANGED <<manager, processed, audit, life, gateway, replies, dispatched, confirmations>>

\* RETRY_LATER: the key is taken and completed with a DEFERRED record in one step.
Defer(c, r) ==
  /\ Enter(c, r, "returned")
  /\ RevalidateAuthorization(r)
  /\ StartExecution(KeyOf(r))
  /\ r.proposal.action = "RETRY_LATER"
  /\ CompleteExecution(KeyOf(r), NewRecord(c, r, "DEFERRED", NoRef))
  /\ Audit("service", c, <<"DEFERRED">>)
  /\ UNCHANGED <<processed, life, gateway, replies, dispatched, confirmations>>

\* Any other action: the provider gets the request and the call suspends.
Dispatch(c, r) ==
  /\ Enter(c, r, "awaiting")
  /\ RevalidateAuthorization(r)
  /\ StartExecution(KeyOf(r))
  /\ r.proposal.action # "RETRY_LATER"
  /\ CanTransition("EXECUTION_STARTED", "PROVIDER_REQUESTED")
  /\ inFlight' = inFlight \cup {KeyOf(r)}
  /\ Audit("service", c, <<"EXECUTION_STARTED", "PROVIDER_REQUESTED">>)
  /\ dispatched' = dispatched \cup {[call |-> c, key |-> KeyOf(r), life |-> life]}
  /\ UNCHANGED <<records, processed, life, gateway, replies, confirmations>>

\* A call, up to its answer or to the await.
ExecuteRecovery(c, r) ==
  Refuse(c, r) \/ Replay(c, r) \/ Conflict(c, r) \/ Defer(c, r) \/ Dispatch(c, r)

------------------------------------------------------------------------------
(* The provider, and execute_recovery after the await *)

KeyOfCall(c) == KeyOf(request[c])

\* The reference the gateway knows an order by. The mock is its own gateway.
GatewayRef(c) == IF Adapter = "mock" THEN LocalRef(KeyOfCall(c)) ELSE OrderRef(c)

MockResponses(c) ==
  [normalized: {"TIMEOUT", "NETWORK_ERROR"}, ref: {NoRef}]
  \cup [normalized: ProviderNormalizedStatus \ {"TIMEOUT", "NETWORK_ERROR"},
        ref: {LocalRef(KeyOfCall(c))}]

\* The order's own id comes back only when order.create succeeded; a timeout, an
\* API error and the simulated success of rejected credentials carry the derived one.
RazorpayResponses(c) ==
  [normalized: {"SUCCESS", "TIMEOUT", "DECLINED"}, ref: {LocalRef(KeyOfCall(c))}]
  \cup [normalized: IF c \in orders THEN {"SUCCESS"} ELSE {}, ref: {OrderRef(c)}]

\* except Exception around the await
TransportException == [normalized |-> "UNKNOWN_PROVIDER_STATE", ref |-> NoRef]

Responses(c) ==
  {TransportException} \cup
  (IF Adapter = "mock" THEN MockResponses(c) ELSE RazorpayResponses(c))

\* The call resumes: the answer becomes the record's status, and the record is
\* stored and the key released in the same step.
Respond(c) ==
  /\ pc[c] = "awaiting"
  /\ pc' = [pc EXCEPT ![c] = "returned"]
  /\ \E resp \in Responses(c) :
       LET status == StatusOfResponse(resp.normalized)
       IN /\ CanTransition("PROVIDER_REQUESTED", status)
          /\ CompleteExecution(KeyOfCall(c), NewRecord(c, request[c], status, resp.ref))
          /\ Audit("service", c, <<status>>)
  /\ UNCHANGED <<request, processed, life, gateway, replies, dispatched, confirmations>>

\* A call cancelled at the await leaves with CancelledError, which
\* "except Exception" does not catch: the key stays in flight.
Cancel(c) ==
  /\ pc[c] = "awaiting"
  /\ Cardinality({d \in Calls : pc[d] = "cancelled"}) < MaxCancels
  /\ pc' = [pc EXCEPT ![c] = "cancelled"]
  /\ UNCHANGED <<request, manager, processed, audit, life, gateway, replies,
                 dispatched, confirmations>>

\* The process restarts. Records, locks, processed ids and audit log are in memory.
Restart ==
  /\ life < MaxRestarts
  /\ life' = life + 1
  /\ pc' = [c \in Calls |-> IF pc[c] \in {"awaiting", "cancelled"} THEN "lost" ELSE pc[c]]
  /\ records' = [k \in Keys |-> NoRecord]
  /\ inFlight' = {}
  /\ processed' = [h \in Handlers |-> {}]
  /\ audit' = [c \in Calls |-> <<>>]
  /\ UNCHANGED <<request, gateway, replies, dispatched, confirmations>>

------------------------------------------------------------------------------
(* The payment gateway (environment) *)

\* The gateway opens the order of a request it received, perhaps after the
\* caller has given up on the answer.
OpenOrder(c) ==
  /\ c \notin orders
  /\ \E d \in dispatched : d.call = c
  /\ orders' = orders \cup {c}
  /\ UNCHANGED <<service, manager, processed, audit, life, events, replies,
                 dispatched, confirmations>>

EventAmount(c, kind) ==
  CASE kind = "exact"  -> request[c].target.amount
    [] kind = "absent" -> NoAmount
    [] kind = "other"  -> request[c].target.amount + 1

EventCurrency(c, kind) ==
  CASE kind = "exact"  -> request[c].target.currency
    [] kind = "absent" -> NoCurrency
    [] kind = "other"  -> "USD"

EventFor(i, c, shape) ==
  [id |-> i, order |-> c, type |-> shape.type, flaw |-> shape.flaw,
   refs |-> IF shape.named THEN {GatewayRef(c)} ELSE {},
   amount |-> EventAmount(c, shape.amount),
   currency |-> EventCurrency(c, shape.currency)]

\* An order is paid, fails or changes otherwise, and the gateway records an event.
\* "flaw" is a signature that does not verify, or a body that is not JSON.
Emit(c, shape) ==
  /\ c \in orders
  /\ Cardinality(events) < MaxEvents
  /\ events' = events \cup {EventFor(Cardinality(events) + 1, c, shape)}
  /\ UNCHANGED <<service, manager, processed, audit, life, orders, replies,
                 dispatched, confirmations>>

------------------------------------------------------------------------------
(* handle_webhook: one delivery of event e to handler h *)

Answer(e, code) == replies' = replies \cup {<<e.id, code>>}

Refusal(e) == IF e.flaw = "json" THEN "MALFORMED_JSON_PAYLOAD" ELSE "INVALID_SIGNATURE"

\* Before deduplication: nothing is remembered of the delivery.
RejectUnverified(h, e) ==
  /\ e.flaw # "none"
  /\ Answer(e, Refusal(e))
  /\ UNCHANGED <<service, manager, processed, audit, life, gateway, dispatched, confirmations>>

ReplayEvent(h, e) ==
  /\ e.flaw = "none"
  /\ e.id \in processed[h]
  /\ Answer(e, "IDEMPOTENT_REPLAY")
  /\ UNCHANGED <<service, manager, processed, audit, life, gateway, dispatched, confirmations>>

\* Keys of the records the scan over manager._records can stop at.
Matches(e) == {k \in Keys : Stored(k) /\ records[k].ref \in e.refs}

\* Faulty variant: only an event whose record was found is remembered.
RememberMatched(h, e) ==
  /\ e.flaw = "none"
  /\ e.id \notin processed[h]
  /\ processed' = IF Matches(e) = {} THEN processed
                                    ELSE [processed EXCEPT ![h] = @ \cup {e.id}]

\* The id is remembered first, whatever becomes of the event afterwards.
Remember(h, e) ==
  /\ e.flaw = "none"
  /\ e.id \notin processed[h]
  /\ processed' = [processed EXCEPT ![h] = @ \cup {e.id}]

NoMatch(h, e) ==
  /\ Remember(h, e)
  /\ Matches(e) = {}
  /\ Answer(e, IF e.refs = {} THEN "MISSING_PROVIDER_REFERENCE"
                              ELSE "UNKNOWN_EXECUTION_REFERENCE")
  /\ UNCHANGED <<service, manager, audit, life, gateway, dispatched, confirmations>>

AlreadyReconciled(e, k) == records[k].status = "RECONCILED" /\ e.type \in PaidTypes

\* Faulty variant: only the currency is compared.
CurrencyMatches(e, k) == e.currency # NoCurrency => e.currency = records[k].currency

MoneyMatches(e, k) ==
  /\ e.amount # NoAmount => e.amount = records[k].amount
  /\ e.currency # NoCurrency => e.currency = records[k].currency

StatusOfEvent(type) ==
  CASE type \in PaidTypes -> "RECONCILED"
    [] type = "payment.failed" -> "FAILED"
    [] OTHER -> "IGNORED"

\* ALREADY_RECONCILED, a money mismatch, a type that reconciles nothing or an illegal
\* transition: an answer, and no other effect.
AnswerWithoutEffect(e, k) ==
  IF AlreadyReconciled(e, k) THEN "ALREADY_RECONCILED"
  ELSE IF e.amount \notin {NoAmount, records[k].amount} THEN "AMOUNT_MISMATCH"
  ELSE IF ~MoneyMatches(e, k) THEN "CURRENCY_MISMATCH"
  ELSE IF StatusOfEvent(e.type) = "IGNORED" THEN "IGNORED_EVENT_TYPE"
  ELSE "INVALID_STATE_TRANSITION"

Reconciles(e, k) ==
  /\ ~AlreadyReconciled(e, k)
  /\ MoneyMatches(e, k)
  /\ StatusOfEvent(e.type) # "IGNORED"
  /\ CanTransition(records[k].status, StatusOfEvent(e.type))

LeaveRecord(h, e, k) ==
  /\ Remember(h, e)
  /\ k \in Matches(e)
  /\ ~Reconciles(e, k)
  /\ Answer(e, AnswerWithoutEffect(e, k))
  /\ UNCHANGED <<service, manager, audit, life, gateway, dispatched, confirmations>>

\* Faulty variants: the update is forgotten; the gateway's own word is stored.
SetNothing(k, status) == records' = records
SetGatewayStatus(k, status) == records' = [records EXCEPT ![k].status = "paid"]

SetStatus(k, status) == records' = [records EXCEPT ![k].status = status]

Confirm(h, e, k, status) ==
  confirmations' =
    IF status = "RECONCILED"
      THEN confirmations \cup {[key |-> k, event |-> e.id, handler |-> h, life |-> life,
                                execution |-> records[k].execution,
                                amount |-> records[k].amount]}
      ELSE confirmations

Reconcile(h, e, k) ==
  LET status == StatusOfEvent(e.type)
  IN /\ Remember(h, e)
     /\ k \in Matches(e)
     /\ Reconciles(e, k)
     /\ SetStatus(k, status)
     /\ Audit(h, records[k].execution, <<status>>)
     /\ Answer(e, "RECONCILED_SUCCESSFULLY")
     /\ Confirm(h, e, k, status)
     /\ UNCHANGED <<service, inFlight, life, gateway, dispatched>>

Deliver(h, e) ==
  \/ RejectUnverified(h, e)
  \/ ReplayEvent(h, e)
  \/ NoMatch(h, e)
  \/ \E k \in Keys : LeaveRecord(h, e, k)
  \/ \E k \in Keys : Reconcile(h, e, k)

\* The endpoint turns these into HTTP 200; any other answer is a 400, which the
\* gateway retries.
OkCodes == {"IDEMPOTENT_REPLAY", "ALREADY_RECONCILED", "IGNORED_EVENT_TYPE",
            "RECONCILED_SUCCESSFULLY"}

Acknowledged(i) == \E code \in OkCodes : <<i, code>> \in replies

------------------------------------------------------------------------------

Init ==
  /\ pc = [c \in Calls |-> "idle"]
  /\ request = [c \in Calls |-> NoRequest]
  /\ records = [k \in Keys |-> NoRecord]
  /\ inFlight = {}
  /\ processed = [h \in Handlers |-> {}]
  /\ audit = [c \in Calls |-> <<>>]
  /\ life = 0
  /\ orders = {} /\ events = {} /\ replies = {}
  /\ dispatched = {} /\ confirmations = {}

Next ==
  \/ \E c \in Calls, r \in Requests : ExecuteRecovery(c, r)
  \/ \E c \in Calls :
       \/ Respond(c)
       \/ Cancel(c)
       \/ OpenOrder(c)
       \/ \E shape \in EventShapes : Emit(c, shape)
  \/ Restart
  \/ \E h \in Handlers, e \in events : Deliver(h, e)

Spec == Init /\ [][Next]_vars
==============================================================================
