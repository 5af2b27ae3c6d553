------------------------- MODULE ExecutionProperties -------------------------
(***************************************************************************)
(* What makes the execution layer correct, and the abstract promise it     *)
(* implements.                                                             *)
(***************************************************************************)
EXTENDS ExecutionLayer

Locations == {"idle", "refused", "replayed", "conflict", "returned", "awaiting",
              "cancelled", "lost"}

\* A call whose key the manager still counts as in flight.
Holding(c) == pc[c] \in {"awaiting", "cancelled"}

Records ==
  [status : ExecutionStatus, execution : Calls,
   proposal : {r.proposal.id : r \in Requests},
   amount : {r.target.amount : r \in Requests},
   currency : {r.target.currency : r \in Requests},
   ref : {NoRef} \cup {OrderRef(c) : c \in Calls} \cup {LocalRef(k) : k \in Keys}]

Loggers == {"service"} \cup Handlers

\* Every variable has the shape the code gives it.
TypeOK ==
  /\ pc \in [Calls -> Locations]
  /\ request \in [Calls -> Requests \cup {NoRequest}]
  /\ \A c \in Calls : (pc[c] = "idle") <=> (request[c] = NoRequest)
  /\ records \in [Keys -> Records \cup {NoRecord}]
  /\ inFlight \subseteq Keys
  /\ processed \in [Handlers -> SUBSET (1..MaxEvents)]
  /\ audit \in [Calls -> Seq([logger : Loggers, status : ExecutionStatus])]
  /\ life \in 0..MaxRestarts
  /\ orders \subseteq Calls
  /\ IsFiniteSet(events) /\ Cardinality(events) <= MaxEvents
  /\ \A e \in events : e.id \in 1..Cardinality(events) /\ e.order \in Calls
  /\ dispatched \subseteq [call : Calls, key : Keys, life : 0..MaxRestarts]
  /\ \A f \in confirmations : f.key \in Keys /\ f.life \in 0..MaxRestarts

\* Within one life of the process the provider is asked at most once per key,
\* however calls with that key interleave with each other, with provider answers
\* and with cancellation (idempotency.py 36-57 around the await of service.py 254).
AtMostOneDispatchPerKey ==
  \A a, b \in dispatched : a.key = b.key /\ a.life = b.life => a.call = b.call

\* The in-flight set is exactly the keys of the calls waiting on the provider or
\* cancelled there, each held by one call, and a held key has no record: no answer
\* leaks a key and no key is granted twice.
LockLedger ==
  /\ inFlight = {KeyOfCall(c) : c \in {d \in Calls : Holding(d)}}
  /\ \A c, d \in Calls : Holding(c) /\ Holding(d) /\ KeyOfCall(c) = KeyOfCall(d) => c = d
  /\ \A k \in inFlight : ~Stored(k)

\* Why a key is dispatched once: a dispatch of this life is still held by its call or
\* has left a record, and either one refuses the key to every later call.
DispatchLedger ==
  \A d \in dispatched :
    /\ pc[d.call] # "idle" /\ d.key = KeyOfCall(d.call) /\ d.life <= life
    /\ RevalidateAuthorization(request[d.call])
    /\ d.life = life => Holding(d.call) \/ Stored(d.key)

\* A call is answered from the record of its key's own execution: the record that
\* stands for a key was made by the call dispatched (or deferred) under that key in
\* this life, for the amount that call was authorised for.
RecordBelongsToItsExecution ==
  \A k \in Keys : Stored(k) =>
    LET x == records[k].execution IN
      /\ pc[x] = "returned" /\ KeyOfCall(x) = k
      /\ records[k].amount = request[x].proposal.amount
      /\ (records[k].status # "DEFERRED") <=>
           (\E d \in dispatched : d.call = x /\ d.key = k /\ d.life = life)

\* Revenue is reported once per key: not again for another event of the same order,
\* a redelivered event, or the same event at the other handler, whose set of
\* processed ids is separate.
ConfirmedAtMostOnce ==
  \A a, b \in confirmations : a.key = b.key /\ a.life = b.life => a = b

\* Revenue is reported only for money the gateway says it took: a verified event of a
\* paid type for the order of a dispatched call with that key, and for the amount an
\* approved proposal asked for.
ConfirmedMoneyWasPaidAndApproved ==
  \A f \in confirmations :
    \E e \in events, d \in dispatched :
      /\ e.id = f.event /\ e.flaw = "none" /\ e.type \in PaidTypes
      /\ d.call = e.order /\ d.key = f.key
      /\ e.amount \in {NoAmount, f.amount}
      /\ request[f.execution].gateway.decision = "APPROVED"
      /\ f.amount = request[f.execution].proposal.amount

\* A call that holds a key was dispatched under it in this life.
HeldCallsWereDispatched ==
  \A c \in Calls : Holding(c) =>
    [call |-> c, key |-> KeyOfCall(c), life |-> life] \in dispatched

\* Why revenue is reported once: what was confirmed in this life is still RECONCILED,
\* and a record in that status is never reconciled again.
ConfirmationLedger ==
  \A f \in confirmations :
    /\ f.execution \in Calls /\ pc[f.execution] # "idle"
    /\ f.life <= life /\ (f.life = life => records[f.key].status = "RECONCILED")

\* Why money is credited to the key it was paid for: orders and events go back to
\* dispatched calls, and a record carries only references of its own key or order.
ReferenceLedger ==
  /\ \A c \in orders : \E d \in dispatched : d.call = c
  /\ \A e \in events :
       /\ \E d \in dispatched : d.call = e.order
       /\ e.refs \subseteq {GatewayRef(e.order)}
  /\ \A k \in Keys : Stored(k) =>
       records[k].ref \in {NoRef, LocalRef(k), OrderRef(records[k].execution)}

\* The inductive invariant behind the safety properties.
DispatchInvariant == TypeOK /\ LockLedger /\ DispatchLedger /\ AtMostOneDispatchPerKey

ExecutionInvariant ==
  /\ DispatchInvariant
  /\ HeldCallsWereDispatched
  /\ RecordBelongsToItsExecution
  /\ ReferenceLedger
  /\ ConfirmationLedger
  /\ ConfirmedAtMostOnce
  /\ ConfirmedMoneyWasPaidAndApproved

TrailStatus(c) ==
  IF pc[c] = "returned" /\ Stored(KeyOfCall(c)) /\ records[KeyOfCall(c)].execution = c
    THEN records[KeyOfCall(c)].status
    ELSE "PROVIDER_REQUESTED"

\* The audit entries of an execution are a walk along the transition table that ends
\* in the status its record has now, whichever logger each entry went to.
AuditIsALegalWalk ==
  \A c \in Calls : audit[c] # <<>> =>
    /\ audit[c][1].status \in LegalTransitions["AUTHORIZED"]
    /\ \A i \in 1..(Len(audit[c]) - 1) :
         CanTransition(audit[c][i].status, audit[c][i + 1].status)
    /\ audit[c][Len(audit[c])].status = TrailStatus(c)

\* A failed or reconciled execution keeps that status until the process ends, also
\* when a later, contradicting event for its order arrives.
FinalStatusIsKept ==
  [][\A k \in Keys :
       records[k].status \in {"FAILED", "RECONCILED", "REQUIRES_REVIEW"} /\ life' = life
         => records'[k].status = records[k].status]_<<records, life>>

------------------------------------------------------------------------------
(* Fairness: awaits end (the adapters turn a timeout into an answer), and the *)
(* gateway redelivers an event until it is acknowledged.                      *)

Redeliver(i) ==
  \E h \in Handlers, e \in events : e.id = i /\ ~Acknowledged(i) /\ Deliver(h, e)

Fairness ==
  /\ \A c \in Calls : WF_vars(Respond(c))
  /\ \A i \in 1..MaxEvents : WF_vars(Redeliver(i))

FairSpec == Spec /\ Fairness

\* Redelivery stops: every event whose signature and body are good is answered with
\* a 200 sooner or later, also one for an order no record names.
EventsAreAcknowledged ==
  \A i \in 1..MaxEvents :
    (\E e \in events : e.id = i /\ e.flaw = "none") ~> Acknowledged(i)

PhaseOf(k) ==
  IF k \in inFlight THEN "pending" ELSE
  IF ~Stored(k) THEN "open" ELSE
  CASE records[k].status \in {"SUCCEEDED", "UNKNOWN_PROVIDER_STATE"} -> "unconfirmed"
    [] records[k].status = "DEFERRED" -> "parked"
    [] records[k].status = "FAILED" -> "closed"
    [] records[k].status = "RECONCILED" -> "confirmed"

Promise ==
  INSTANCE RecoveryPromise WITH
    phase <- [k \in Keys |-> PhaseOf(k)],
    charges <- [k \in Keys |-> Cardinality({d \in dispatched : d.key = k})],
    credits <- [k \in Keys |-> Cardinality({f \in confirmations : f.key = k})]

\* As long as the process lives and no call is cancelled, the execution layer
\* implements its promise: each key is charged once, settled, and credited once.
KeepsPromise == Promise!FairPromiseSpec

\* What of the promise needs no fairness. It is kept also when calls are cancelled and
\* never settled, and whatever the adapter answers.
NeverBreaksPromise == Promise!PromiseSpec

------------------------------------------------------------------------------
(* What documents and comments of the repository say and the code does not do. *)

\* docs/PHASES/PHASE_7.md:93: the key "prevents duplicate execution across retries
\* and restarts".
NoDuplicateAcrossRestarts ==
  \A a, b \in dispatched : a.key = b.key => a.call = b.call

\* docs/execution-layer.md:81: an ambiguous execution is reconciled by status queries
\* or provider webhooks. Once the gateway has said that its order is paid, an
\* UNKNOWN_PROVIDER_STATE record does not stay so.
UnknownIsReconciled ==
  \A k \in Keys :
    (/\ Stored(k) /\ records[k].status = "UNKNOWN_PROVIDER_STATE"
     /\ \E e \in events : e.order = records[k].execution /\ e.type \in PaidTypes
                          /\ e.flaw = "none")
      ~> (records[k].status # "UNKNOWN_PROVIDER_STATE")

\* docs/PHASES/PHASE_7.md:51: what replay protection tracks is processed events. An
\* event dismissed as a replay was processed by an earlier delivery.
ReplayedEventsWereProcessed ==
  \A i \in 1..MaxEvents :
    <<i, "IDEMPOTENT_REPLAY">> \in replies
      => \E code \in OkCodes \ {"IDEMPOTENT_REPLAY"} : <<i, code>> \in replies
==============================================================================
