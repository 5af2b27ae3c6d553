---------------------------- MODULE ExecutionProofs ----------------------------
(***************************************************************************)
(* Proofs about the execution layer, for any set of calls, requests,       *)
(* handlers and event shapes and any number of restarts and cancellations. *)
(***************************************************************************)
EXTENDS ExecutionProperties, FiniteSetTheorems, SequenceTheorems, TLAPS

(* Helper facts *)

\* A call that was made has a key among Keys (service.py 175-180).
LEMMA KeyOfCallType ==
  ASSUME TypeOK, NEW c \in Calls, pc[c] # "idle"
  PROVE  request[c] \in Requests /\ KeyOfCall(c) \in Keys
<1>1. request[c] \in Requests
  BY DEF TypeOK
<1>2. QED
  BY <1>1 DEF KeyOfCall, Keys

\* Auditing statuses of the lifecycle keeps every trail a sequence of entries
\* (audit.py 42-45).
LEMMA AuditType ==
  ASSUME audit \in [Calls -> Seq([logger : Loggers, status : ExecutionStatus])],
         NEW log \in Loggers, NEW x \in Calls, NEW s \in Seq(ExecutionStatus),
         Audit(log, x, s)
  PROVE  audit' \in [Calls -> Seq([logger : Loggers, status : ExecutionStatus])]
<1> DEFINE Entry == [logger : Loggers, status : ExecutionStatus]
           new == [i \in DOMAIN s |-> [logger |-> log, status |-> s[i]]]
<1>1. new \in Seq(Entry)
  <2>1. DOMAIN s = 1..Len(s) /\ Len(s) \in Nat
    OBVIOUS
  <2>2. \A i \in 1..Len(s) : s[i] \in ExecutionStatus
    OBVIOUS
  <2>3. new \in [1..Len(s) -> Entry]
    BY <2>1, <2>2
  <2>4. QED
    BY <2>1, <2>3
<1>2. audit[x] \o new \in Seq(Entry)
  <2>1. audit[x] \in Seq(Entry)
    OBVIOUS
  <2> HIDE DEF Entry, new
  <2>2. QED
    BY <1>1, <2>1, ConcatProperties
<1>3. QED
  BY <1>2 DEF Audit

\* A record built from a request is a record of the lifecycle (schemas.py 100-118).
LEMMA NewRecordType ==
  ASSUME NEW c \in Calls, NEW r \in Requests, NEW s \in ExecutionStatus,
         NEW ref \in {NoRef} \cup {OrderRef(d) : d \in Calls} \cup {LocalRef(k) : k \in Keys}
  PROVE  NewRecord(c, r, s, ref) \in Records /\ NewRecord(c, r, s, ref) # NoRecord
<1>1. NewRecord(c, r, s, ref) \in Records
  BY DEF NewRecord, Records
<1>2. NewRecord(c, r, s, ref).status # NoRecord.status
  BY DEF NewRecord, NoRecord, ExecutionStatus
<1>3. QED
  BY <1>1, <1>2

\* Every normalised answer becomes a status of the lifecycle (service.py 269-284).
LEMMA ResponseStatus ==
  ASSUME NEW n
  PROVE  StatusOfResponse(n) \in {"SUCCEEDED", "FAILED", "UNKNOWN_PROVIDER_STATE"}
  BY DEF StatusOfResponse

\* An adapter answers with no reference, the key's derived one or the order's own.
LEMMA ResponseRef ==
  ASSUME NEW c, NEW resp \in Responses(c)
  PROVE  resp.ref \in {NoRef, LocalRef(KeyOfCall(c)), OrderRef(c)}
<1>1. CASE resp = TransportException
  BY <1>1 DEF TransportException
<1>2. CASE resp \in MockResponses(c)
  BY <1>2 DEF MockResponses
<1>3. CASE resp \in RazorpayResponses(c)
  BY <1>3 DEF RazorpayResponses
<1>4. QED
  BY <1>1, <1>2, <1>3 DEF Responses

------------------------------------------------------------------------------
(* Type correctness *)

\* The empty system has the right shape (service.py 40-70, idempotency.py 24-29).
LEMMA TypeInit == Init => TypeOK
<1> SUFFICES ASSUME Init PROVE TypeOK
  OBVIOUS
<1>1. IsFiniteSet(events) /\ Cardinality(events) = 0
  BY FS_EmptySet DEF Init
<1>2. audit \in [Calls -> Seq([logger : Loggers, status : ExecutionStatus])]
  BY DEF Init
<1>3. life \in 0..MaxRestarts
  BY BoundsAssumption DEF Init
<1>4. QED
  BY <1>1, <1>2, <1>3, BoundsAssumption, PlaceholderAssumption
     DEF Init, TypeOK, Locations, NoRequest

\* The parts of the type invariant that a call touches when it enters the service.
LEMMA EnterType ==
  ASSUME TypeOK, NEW c \in Calls, NEW r \in Requests, NEW to \in Locations \ {"idle"},
         Enter(c, r, to)
  PROVE  /\ pc' \in [Calls -> Locations]
         /\ request' \in [Calls -> Requests \cup {NoRequest}]
         /\ \A d \in Calls : (pc'[d] = "idle") <=> (request'[d] = NoRequest)
         /\ KeyOf(r) \in Keys
  BY PlaceholderAssumption DEF TypeOK, Enter, Keys, NoRequest

\* Entering execute_recovery, up to its await, keeps the shape (service.py 158-254).
LEMMA CallStepType ==
  ASSUME TypeOK, NEW c \in Calls, NEW r \in Requests,
         Refuse(c, r) \/ Replay(c, r) \/ Conflict(c, r) \/ Defer(c, r) \/ Dispatch(c, r)
  PROVE  TypeOK'
<1>1. CASE Refuse(c, r) \/ Replay(c, r) \/ Conflict(c, r)
  <2>1. \E to \in Locations \ {"idle"} : Enter(c, r, to)
    BY <1>1 DEF Refuse, Replay, Conflict, Locations
  <2>2. UNCHANGED <<manager, processed, audit, life, gateway, replies, dispatched, confirmations>>
    BY <1>1 DEF Refuse, Replay, Conflict
  <2>3. QED
    BY <2>1, <2>2, EnterType DEF TypeOK, manager, gateway
<1>2. CASE Defer(c, r)
  <2>1. Enter(c, r, "returned") /\ "returned" \in Locations \ {"idle"}
    BY <1>2 DEF Defer, Locations
  <2>2. records' \in [Keys -> Records \cup {NoRecord}] /\ inFlight' \subseteq Keys
    BY <1>2, <2>1, EnterType, NewRecordType DEF Defer, CompleteExecution, TypeOK, ExecutionStatus
  <2>3. audit' \in [Calls -> Seq([logger : Loggers, status : ExecutionStatus])]
    <3>1. <<"DEFERRED">> \in Seq(ExecutionStatus)
      BY DEF ExecutionStatus
    <3>2. QED
      BY <1>2, <3>1, AuditType DEF Defer, TypeOK, Loggers
  <2>4. QED
    BY <1>2, <2>1, <2>2, <2>3, EnterType DEF Defer, TypeOK, gateway
<1>3. CASE Dispatch(c, r)
  <2>1. Enter(c, r, "awaiting") /\ "awaiting" \in Locations \ {"idle"}
    BY <1>3 DEF Dispatch, Locations
  <2>2. /\ inFlight' \subseteq Keys
        /\ dispatched' \subseteq [call : Calls, key : Keys, life : 0..MaxRestarts]
    <3>1. KeyOf(r) \in Keys /\ life \in 0..MaxRestarts
      BY <2>1, EnterType DEF TypeOK
    <3>2. [call |-> c, key |-> KeyOf(r), life |-> life]
            \in [call : Calls, key : Keys, life : 0..MaxRestarts]
      BY <3>1
    <3>3. QED
      BY <1>3, <3>1, <3>2 DEF Dispatch, TypeOK
  <2>3. audit' \in [Calls -> Seq([logger : Loggers, status : ExecutionStatus])]
    <3>1. <<"EXECUTION_STARTED", "PROVIDER_REQUESTED">> \in Seq(ExecutionStatus)
      BY DEF ExecutionStatus
    <3>2. QED
      BY <1>3, <3>1, AuditType DEF Dispatch, TypeOK, Loggers
  <2>4. QED
    BY <1>3, <2>1, <2>2, <2>3, EnterType DEF Dispatch, TypeOK, gateway
<1>4. QED
  BY <1>1, <1>2, <1>3

\* Resuming from the await and storing the record keeps it (service.py 254-292).
LEMMA RespondType ==
  ASSUME TypeOK, NEW c \in Calls, Respond(c)
  PROVE  TypeOK'
<1>1. request[c] \in Requests /\ KeyOfCall(c) \in Keys
  BY KeyOfCallType DEF Respond
<1>2. PICK resp \in Responses(c) :
        /\ CompleteExecution(KeyOfCall(c),
                             NewRecord(c, request[c], StatusOfResponse(resp.normalized), resp.ref))
        /\ Audit("service", c, <<StatusOfResponse(resp.normalized)>>)
  BY DEF Respond
<1> DEFINE s == StatusOfResponse(resp.normalized)
<1>3. s \in ExecutionStatus
  BY ResponseStatus DEF ExecutionStatus
<1>4. resp.ref \in {NoRef} \cup {OrderRef(d) : d \in Calls} \cup {LocalRef(k) : k \in Keys}
  BY <1>1, ResponseRef
<1> HIDE DEF s
<1>5. NewRecord(c, request[c], s, resp.ref) \in Records
  BY <1>1, <1>3, <1>4, NewRecordType
<1>6. records' \in [Keys -> Records \cup {NoRecord}] /\ inFlight' \subseteq Keys
  BY <1>2, <1>5 DEF CompleteExecution, TypeOK, s
<1>7. audit' \in [Calls -> Seq([logger : Loggers, status : ExecutionStatus])]
  <2>1. <<s>> \in Seq(ExecutionStatus)
    BY <1>3
  <2>2. QED
    BY <1>2, <2>1, AuditType DEF TypeOK, Loggers, s
<1>8. /\ pc' \in [Calls -> Locations]
      /\ \A d \in Calls : (pc'[d] = "idle") <=> (request'[d] = NoRequest)
  BY DEF Respond, TypeOK, Locations
<1>9. QED
  BY <1>6, <1>7, <1>8 DEF Respond, TypeOK, gateway

\* Leaving the await by cancellation keeps it (service.py 254-255).
LEMMA CancelType ==
  ASSUME TypeOK, NEW c \in Calls, Cancel(c)
  PROVE  TypeOK'
<1>1. /\ pc' \in [Calls -> Locations]
      /\ \A d \in Calls : (pc'[d] = "idle") <=> (request'[d] = NoRequest)
  BY DEF Cancel, TypeOK, Locations
<1>2. QED
  BY <1>1 DEF Cancel, TypeOK, manager, gateway

\* A restart resets what is in memory and keeps it (idempotency.py 24-29).
LEMMA RestartType ==
  ASSUME TypeOK, Restart
  PROVE  TypeOK'
<1>1. /\ pc' \in [Calls -> Locations]
      /\ \A d \in Calls : (pc'[d] = "idle") <=> (request'[d] = NoRequest)
  BY DEF Restart, TypeOK, Locations
<1>2. life' \in 0..MaxRestarts
  BY BoundsAssumption DEF Restart, TypeOK
<1>3. audit' \in [Calls -> Seq([logger : Loggers, status : ExecutionStatus])]
  BY DEF Restart
<1>4. QED
  BY <1>1, <1>2, <1>3 DEF Restart, TypeOK, gateway

\* Opening an order and emitting an event keep it; event ids stay below the bound.
LEMMA GatewayType ==
  ASSUME TypeOK, NEW c \in Calls,
         OpenOrder(c) \/ \E shape \in EventShapes : Emit(c, shape)
  PROVE  TypeOK'
<1>1. CASE OpenOrder(c)
  BY <1>1 DEF OpenOrder, TypeOK, service, manager
<1>2. CASE \E shape \in EventShapes : Emit(c, shape)
  <2>1. PICK shape \in EventShapes : Emit(c, shape)
    BY <1>2
  <2> DEFINE n == Cardinality(events)
             e == EventFor(n + 1, c, shape)
  <2>2. n \in Nat /\ IsFiniteSet(events)
    BY FS_CardinalityType DEF TypeOK
  <2>3. e.id = n + 1 /\ e.order = c
    BY DEF EventFor
  <2>4. e \notin events
    BY <2>2, <2>3 DEF TypeOK
  <2>5. events' = events \cup {e} /\ n < MaxEvents
    BY <2>1 DEF Emit
  <2> HIDE DEF e
  <2>6. IsFiniteSet(events') /\ Cardinality(events') = n + 1
    BY <2>2, <2>4, <2>5, FS_AddElement
  <2>7. \A f \in events' : f.id \in 1..Cardinality(events') /\ f.order \in Calls
    BY <2>2, <2>3, <2>5, <2>6 DEF TypeOK
  <2>8. Cardinality(events') <= MaxEvents
    BY <2>2, <2>5, <2>6, BoundsAssumption
  <2>9. QED
    BY <2>1, <2>6, <2>7, <2>8 DEF Emit, TypeOK, service, manager
<1>3. QED
  BY <1>1, <1>2

\* A delivery changes at most a record's status, a trail, the processed ids, the
\* replies and the confirmations.
LEMMA DeliverType ==
  ASSUME TypeOK, NEW h \in Handlers, NEW e \in events, Deliver(h, e)
  PROVE  TypeOK'
<1>1. e.id \in 1..MaxEvents
  <2>1. Cardinality(events) \in Nat /\ Cardinality(events) <= MaxEvents
    BY FS_CardinalityType DEF TypeOK
  <2>2. QED
    BY <2>1, BoundsAssumption DEF TypeOK
<1>2. Remember(h, e) => processed' \in [Handlers -> SUBSET (1..MaxEvents)]
  BY <1>1 DEF Remember, TypeOK
<1>3. CASE RejectUnverified(h, e) \/ ReplayEvent(h, e)
  BY <1>3 DEF RejectUnverified, ReplayEvent, TypeOK, service, manager, gateway
<1>4. CASE NoMatch(h, e) \/ \E k \in Keys : LeaveRecord(h, e, k)
  BY <1>2, <1>4 DEF NoMatch, LeaveRecord, TypeOK, service, manager, gateway
<1>5. CASE \E k \in Keys : Reconcile(h, e, k)
  <2>1. PICK k \in Keys : Reconcile(h, e, k)
    BY <1>5
  <2>2. Stored(k) /\ records[k] \in Records
    BY <2>1 DEF Reconcile, Matches, Stored, TypeOK
  <2>3. StatusOfEvent(e.type) \in ExecutionStatus
    BY <2>1 DEF Reconcile, Reconciles, StatusOfEvent, ExecutionStatus
  <2>4. records' \in [Keys -> Records \cup {NoRecord}]
    <3>1. [records[k] EXCEPT !.status = StatusOfEvent(e.type)] \in Records
      BY <2>2, <2>3 DEF Records
    <3>2. QED
      BY <2>1, <3>1 DEF Reconcile, SetStatus, TypeOK
  <2>5. audit' \in [Calls -> Seq([logger : Loggers, status : ExecutionStatus])]
    <3>1. <<StatusOfEvent(e.type)>> \in Seq(ExecutionStatus)
      BY <2>3
    <3>2. records[k].execution \in Calls /\ h \in Loggers
      BY <2>2 DEF Records, Loggers
    <3>3. QED
      BY <2>1, <3>1, <3>2, AuditType DEF Reconcile, TypeOK
  <2>6. \A f \in confirmations' : f.key \in Keys /\ f.life \in 0..MaxRestarts
    BY <2>1 DEF Reconcile, Confirm, TypeOK
  <2>7. QED
    BY <1>2, <2>1, <2>4, <2>5, <2>6 DEF Reconcile, TypeOK, service, gateway
<1>6. QED
  BY <1>3, <1>4, <1>5 DEF Deliver

\* Every step keeps the shape: one case per action.
LEMMA TypeStep == TypeOK /\ [Next]_vars => TypeOK'
<1> SUFFICES ASSUME TypeOK, [Next]_vars PROVE TypeOK'
  OBVIOUS
<1>1. CASE \E c \in Calls, r \in Requests :
             Refuse(c, r) \/ Replay(c, r) \/ Conflict(c, r) \/ Defer(c, r) \/ Dispatch(c, r)
  BY <1>1, CallStepType
<1>2. CASE \E c \in Calls : Respond(c) \/ Cancel(c)
  BY <1>2, RespondType, CancelType
<1>3. CASE \E c \in Calls : OpenOrder(c) \/ \E shape \in EventShapes : Emit(c, shape)
  BY <1>3, GatewayType
<1>4. CASE Restart
  BY <1>4, RestartType
<1>5. CASE \E h \in Handlers, e \in events : Deliver(h, e)
  BY <1>5, DeliverType
<1>6. CASE UNCHANGED vars
  BY <1>6 DEF vars, service, manager, gateway, TypeOK
<1>7. QED
  BY <1>1, <1>2, <1>3, <1>4, <1>5, <1>6 DEF Next, ExecuteRecovery

\* Every behaviour of the execution layer keeps its variables in shape.
THEOREM TypeCorrect == Spec => []TypeOK
<1>1. Init => TypeOK
  BY TypeInit
<1>2. TypeOK /\ [Next]_vars => TypeOK'
  BY TypeStep
<1>3. QED
  BY <1>1, <1>2, PTL DEF Spec

------------------------------------------------------------------------------
(* One dispatch per key and life *)

\* Once a call was made its request never changes, and it is never idle again.
LEMMA CallsAreStable ==
  ASSUME TypeOK, [Next]_vars, NEW c \in Calls, pc[c] # "idle"
  PROVE  pc'[c] # "idle" /\ request'[c] = request[c] /\ KeyOfCall(c)' = KeyOfCall(c)
<1>1. pc'[c] # "idle" /\ request'[c] = request[c]
  <2>1. CASE \E d \in Calls, r \in Requests :
               Refuse(d, r) \/ Replay(d, r) \/ Conflict(d, r) \/ Defer(d, r) \/ Dispatch(d, r)
    <3>1. PICK d \in Calls, r \in Requests, to \in Locations \ {"idle"} : Enter(d, r, to)
      BY <2>1 DEF Refuse, Replay, Conflict, Defer, Dispatch, Locations
    <3>2. QED
      BY <3>1 DEF Enter, TypeOK
  <2>2. CASE \E d \in Calls : Respond(d) \/ Cancel(d)
    BY <2>2 DEF Respond, Cancel, TypeOK
  <2>3. CASE \E d \in Calls : OpenOrder(d) \/ \E shape \in EventShapes : Emit(d, shape)
    BY <2>3 DEF OpenOrder, Emit, service
  <2>4. CASE Restart
    BY <2>4 DEF Restart, TypeOK
  <2>5. CASE \E h \in Handlers, e \in events : Deliver(h, e)
    BY <2>5 DEF Deliver, RejectUnverified, ReplayEvent, NoMatch, LeaveRecord, Reconcile, service
  <2>6. CASE UNCHANGED vars
    BY <2>6 DEF vars, service
  <2>7. QED
    BY <2>1, <2>2, <2>3, <2>4, <2>5, <2>6 DEF Next, ExecuteRecovery
<1>2. QED
  BY <1>1 DEF KeyOfCall

\* A step that leaves calls, manager, dispatches and life alone keeps the invariant.
LEMMA DispatchFrame ==
  ASSUME DispatchInvariant, TypeOK', UNCHANGED <<service, manager, dispatched, life>>
  PROVE  DispatchInvariant'
<1>1. LockLedger'
  BY DEF DispatchInvariant, LockLedger, Holding, KeyOfCall, Stored, service, manager
<1>2. DispatchLedger'
  BY DEF DispatchInvariant, DispatchLedger, Holding, KeyOfCall, Stored, service, manager
<1>3. AtMostOneDispatchPerKey'
  BY DEF DispatchInvariant, AtMostOneDispatchPerKey
<1>4. QED
  BY <1>1, <1>2, <1>3 DEF DispatchInvariant

\* A call that leaves the manager alone does not hold a key afterwards, nor before.
LEMMA RefusedCallKeepsInvariant ==
  ASSUME DispatchInvariant, TypeOK', [Next]_vars, NEW c \in Calls, NEW r \in Requests,
         Refuse(c, r) \/ Replay(c, r) \/ Conflict(c, r)
  PROVE  DispatchInvariant'
<1> USE DEF DispatchInvariant
<1>1. PICK to \in {"refused", "replayed", "conflict"} : Enter(c, r, to)
  BY DEF Refuse, Replay, Conflict
<1>2. UNCHANGED <<manager, dispatched, life>>
  BY DEF Refuse, Replay, Conflict
<1>3. \A d \in Calls : Holding(d)' <=> Holding(d)
  BY <1>1 DEF Enter, Holding, TypeOK
<1>4. \A d \in Calls : Holding(d) => KeyOfCall(d)' = KeyOfCall(d)
  BY CallsAreStable DEF Holding
<1>5. LockLedger'
  BY <1>2, <1>3, <1>4 DEF LockLedger, Stored, manager
<1>6. DispatchLedger'
  <2>1. \A d \in dispatched : d.call \in Calls
    BY DEF TypeOK
  <2>2. QED
    BY <1>2, <1>3, <2>1, CallsAreStable DEF DispatchLedger, Stored, manager
<1>7. QED
  BY <1>2, <1>5, <1>6 DEF AtMostOneDispatchPerKey

\* A deferred call takes and releases its key in one step and leaves a record
\* (service.py 196-214).
LEMMA DeferKeepsInvariant ==
  ASSUME DispatchInvariant, TypeOK', [Next]_vars, NEW c \in Calls, NEW r \in Requests,
         Defer(c, r)
  PROVE  DispatchInvariant'
<1> USE DEF DispatchInvariant
<1>1. Enter(c, r, "returned") /\ KeyOf(r) \in Keys /\ StartExecution(KeyOf(r))
  BY DEF Defer, Keys
<1>2. \A d \in Calls : Holding(d)' <=> Holding(d)
  BY <1>1 DEF Enter, Holding, TypeOK
<1>3. \A d \in Calls : Holding(d) => KeyOfCall(d)' = KeyOfCall(d)
  BY CallsAreStable DEF Holding
<1>4. inFlight' = inFlight /\ UNCHANGED <<dispatched, life>>
  BY <1>1 DEF Defer, CompleteExecution, StartExecution
<1>5. \A k \in Keys : k # KeyOf(r) => Stored(k)' = Stored(k)
  BY DEF Defer, CompleteExecution, Stored, TypeOK
<1>6. Stored(KeyOf(r))'
  <2>1. NewRecord(c, r, "DEFERRED", NoRef) # NoRecord
    BY NewRecordType DEF ExecutionStatus
  <2>2. QED
    BY <1>1, <2>1 DEF Defer, CompleteExecution, Stored, TypeOK
<1>7. LockLedger'
  BY <1>1, <1>2, <1>3, <1>4, <1>5 DEF LockLedger, StartExecution, TypeOK
<1>8. DispatchLedger'
  <2>1. \A d \in dispatched : d.call \in Calls /\ d.key \in Keys
    BY DEF TypeOK
  <2>2. QED
    BY <1>1, <1>2, <1>4, <1>5, <1>6, <2>1, CallsAreStable DEF DispatchLedger
<1>9. QED
  BY <1>4, <1>7, <1>8 DEF AtMostOneDispatchPerKey

\* The heart of the argument: the key a new dispatch takes has no dispatch in this life.
LEMMA DispatchKeepsInvariant ==
  ASSUME DispatchInvariant, TypeOK', [Next]_vars, NEW c \in Calls, NEW r \in Requests,
         Dispatch(c, r)
  PROVE  DispatchInvariant'
<1> USE DEF DispatchInvariant
<1> DEFINE k == KeyOf(r)
           new == [call |-> c, key |-> k, life |-> life]
<1>1. /\ Enter(c, r, "awaiting") /\ k \in Keys /\ StartExecution(k)
      /\ RevalidateAuthorization(r)
      /\ inFlight' = inFlight \cup {k} /\ dispatched' = dispatched \cup {new}
      /\ UNCHANGED <<records, life>>
  BY DEF Dispatch, Keys
<1>2. pc[c] = "idle" /\ Holding(c)' /\ ~Holding(c) /\ request'[c] = r /\ KeyOfCall(c)' = k
  BY <1>1 DEF Enter, Holding, KeyOfCall, TypeOK
<1>3. \A d \in Calls : d # c => (Holding(d)' <=> Holding(d))
  BY <1>1 DEF Enter, Holding, TypeOK
<1>4. \A d \in Calls : Holding(d) => KeyOfCall(d)' = KeyOfCall(d)
  BY CallsAreStable DEF Holding
<1>5. \A d \in Calls : Holding(d) => KeyOfCall(d) # k
  BY <1>1 DEF StartExecution, LockLedger
<1>6. \A q \in Keys : Stored(q)' = Stored(q)
  BY <1>1 DEF Stored
<1>7. LockLedger'
  <2>1. inFlight' = {KeyOfCall(d)' : d \in {d \in Calls : Holding(d)'}}
    BY <1>1, <1>2, <1>3, <1>4 DEF LockLedger
  <2>2. \A d, f \in Calls : Holding(d)' /\ Holding(f)' /\ KeyOfCall(d)' = KeyOfCall(f)' => d = f
    BY <1>2, <1>3, <1>4, <1>5 DEF LockLedger
  <2>3. \A q \in inFlight' : ~Stored(q)'
    BY <1>1, <1>6 DEF LockLedger, StartExecution, TypeOK
  <2>4. QED
    BY <2>1, <2>2, <2>3 DEF LockLedger
<1>8. \A d \in dispatched : d.call \in Calls /\ d.key \in Keys /\ d.call # c
  BY <1>2 DEF TypeOK, DispatchLedger
<1>9. DispatchLedger'
  <2>1. ASSUME NEW d \in dispatched
        PROVE  /\ pc'[d.call] # "idle" /\ d.key = KeyOfCall(d.call)' /\ d.life <= life'
               /\ RevalidateAuthorization(request'[d.call])
               /\ d.life = life' => Holding(d.call)' \/ Stored(d.key)'
    BY <1>1, <1>3, <1>6, <1>8, CallsAreStable DEF DispatchLedger
  <2>2. /\ pc'[c] # "idle" /\ new.key = KeyOfCall(c)' /\ new.life <= life'
        /\ RevalidateAuthorization(request'[c]) /\ Holding(c)'
    BY <1>1, <1>2 DEF Holding, TypeOK
  <2>3. QED
    BY <1>1, <2>1, <2>2 DEF DispatchLedger
<1>10. \A d \in dispatched : d.life = life => d.key # k
  BY <1>1, <1>5, <1>8 DEF DispatchLedger, StartExecution
<1>11. AtMostOneDispatchPerKey'
  BY <1>1, <1>10 DEF AtMostOneDispatchPerKey
<1>12. QED
  BY <1>7, <1>9, <1>11

\* Storing the record and releasing the key are one step, so a key is never free
\* without a record.
LEMMA RespondKeepsInvariant ==
  ASSUME DispatchInvariant, TypeOK', [Next]_vars, NEW c \in Calls, Respond(c)
  PROVE  DispatchInvariant'
<1> USE DEF DispatchInvariant
<1>0. PICK k \in Keys : k = KeyOfCall(c)
  BY KeyOfCallType DEF Respond
<1>1. request[c] \in Requests /\ Holding(c)
  BY KeyOfCallType DEF Respond, Holding
<1>2. PICK resp \in Responses(c) :
        CompleteExecution(k, NewRecord(c, request[c], StatusOfResponse(resp.normalized), resp.ref))
  BY <1>0 DEF Respond
<1>3. Stored(k)'
  <2>1. resp.ref \in {NoRef} \cup {OrderRef(d) : d \in Calls} \cup {LocalRef(q) : q \in Keys}
    BY <1>0, <1>1, ResponseRef
  <2>2. StatusOfResponse(resp.normalized) \in ExecutionStatus
    BY ResponseStatus DEF ExecutionStatus
  <2>3. NewRecord(c, request[c], StatusOfResponse(resp.normalized), resp.ref) # NoRecord
    BY <1>1, <2>1, <2>2, NewRecordType
  <2>4. QED
    BY <1>1, <1>2, <2>3 DEF CompleteExecution, Stored, TypeOK
<1>4. /\ inFlight' = inFlight \ {k} /\ UNCHANGED <<dispatched, life, request>>
      /\ \A q \in Keys : q # k => Stored(q)' = Stored(q)
  BY <1>2 DEF Respond, CompleteExecution, Stored, TypeOK
<1>5. \A d \in Calls : Holding(d)' <=> (Holding(d) /\ d # c)
  BY DEF Respond, Holding, TypeOK
<1>6. \A d \in Calls : KeyOfCall(d)' = KeyOfCall(d)
  BY <1>4 DEF KeyOfCall
<1>7. LockLedger'
  <2>1. \A d \in Calls : Holding(d) /\ d # c => KeyOfCall(d) # k
    BY <1>0, <1>1 DEF LockLedger
  <2>2. inFlight' = {KeyOfCall(d) : d \in {d \in Calls : Holding(d) /\ d # c}}
    BY <1>0, <1>1, <1>4, <2>1 DEF LockLedger
  <2>3. inFlight' = {KeyOfCall(d)' : d \in {d \in Calls : Holding(d)'}}
    BY <1>5, <1>6, <2>2
  <2>4. \A d, f \in Calls : Holding(d)' /\ Holding(f)' /\ KeyOfCall(d)' = KeyOfCall(f)' => d = f
    BY <1>5, <1>6 DEF LockLedger
  <2>5. \A q \in inFlight' : ~Stored(q)'
    BY <1>4 DEF LockLedger, TypeOK
  <2>6. QED
    BY <2>3, <2>4, <2>5 DEF LockLedger
<1>8. DispatchLedger'
  <2>1. \A d \in dispatched : d.call \in Calls /\ d.key \in Keys
    BY DEF TypeOK
  <2>2. \A d \in dispatched : d.call = c => d.key = k
    BY <1>0 DEF DispatchLedger
  <2>3. QED
    BY <1>3, <1>4, <1>5, <1>6, <2>1, <2>2, CallsAreStable DEF DispatchLedger
<1>9. QED
  BY <1>4, <1>7, <1>8 DEF AtMostOneDispatchPerKey

\* A cancelled call keeps holding its key (service.py 255: CancelledError is not caught).
LEMMA CancelKeepsInvariant ==
  ASSUME DispatchInvariant, TypeOK', [Next]_vars, NEW c \in Calls, Cancel(c)
  PROVE  DispatchInvariant'
<1> USE DEF DispatchInvariant
<1>1. UNCHANGED <<request, manager, dispatched, life>>
  BY DEF Cancel
<1>2. \A d \in Calls : Holding(d)' <=> Holding(d)
  BY DEF Cancel, Holding, TypeOK
<1>3. LockLedger'
  BY <1>1, <1>2 DEF LockLedger, KeyOfCall, Stored, manager
<1>4. DispatchLedger'
  <2>1. \A d \in dispatched : d.call \in Calls
    BY DEF TypeOK
  <2>2. QED
    BY <1>1, <1>2, <2>1, CallsAreStable DEF DispatchLedger, Stored, manager
<1>5. QED
  BY <1>1, <1>3, <1>4 DEF AtMostOneDispatchPerKey

\* After a restart every dispatch is one of an earlier life.
LEMMA RestartKeepsInvariant ==
  ASSUME DispatchInvariant, TypeOK', [Next]_vars, Restart
  PROVE  DispatchInvariant'
<1> USE DEF DispatchInvariant
<1>1. \A d \in Calls : ~Holding(d)'
  BY DEF Restart, Holding, TypeOK
<1>2. LockLedger'
  BY <1>1 DEF Restart, LockLedger
<1>3. DispatchLedger'
  <2>1. \A d \in dispatched : d.call \in Calls /\ d.life \in Nat /\ life \in Nat
    BY BoundsAssumption DEF TypeOK
  <2>2. life' = life + 1 /\ dispatched' = dispatched
    BY DEF Restart
  <2>3. QED
    BY <2>1, <2>2, CallsAreStable DEF DispatchLedger
<1>4. QED
  BY <1>2, <1>3 DEF Restart, AtMostOneDispatchPerKey

\* A webhook only ever changes the status of a record that is there.
LEMMA DeliverKeepsInvariant ==
  ASSUME DispatchInvariant, TypeOK', [Next]_vars,
         NEW h \in Handlers, NEW e \in events, Deliver(h, e)
  PROVE  DispatchInvariant'
<1> USE DEF DispatchInvariant
<1>1. CASE UNCHANGED manager
  BY <1>1, DispatchFrame
     DEF Deliver, RejectUnverified, ReplayEvent, NoMatch, LeaveRecord, Reconcile
<1>2. CASE \E k \in Keys : Reconcile(h, e, k)
  <2>1. PICK k \in Keys : Reconcile(h, e, k)
    BY <1>2
  <2>2. UNCHANGED <<service, inFlight, dispatched, life>>
    BY <2>1 DEF Reconcile
  <2>3. \A q \in Keys : Stored(q)' = Stored(q)
    <3>1. Stored(k)
      BY <2>1 DEF Reconcile, Matches
    <3>2. records'[k].status = StatusOfEvent(e.type)
      BY <2>1, <3>1 DEF Reconcile, SetStatus, TypeOK, Stored, Records
    <3>3. StatusOfEvent(e.type) # "ABSENT"
      BY DEF StatusOfEvent
    <3>4. Stored(k)'
      BY <3>2, <3>3 DEF Stored, NoRecord
    <3>5. \A q \in Keys : q # k => records'[q] = records[q]
      BY <2>1 DEF Reconcile, SetStatus, TypeOK
    <3>6. QED
      BY <3>1, <3>4, <3>5 DEF Stored
  <2>4. LockLedger'
    <3>1. \A d \in Calls : (Holding(d)' <=> Holding(d)) /\ KeyOfCall(d)' = KeyOfCall(d)
      BY <2>2 DEF Holding, KeyOfCall, service
    <3>2. inFlight' = {KeyOfCall(d)' : d \in {d \in Calls : Holding(d)'}}
      BY <2>2, <3>1 DEF LockLedger
    <3>3. \A q \in inFlight' : ~Stored(q)'
      BY <2>2, <2>3 DEF LockLedger, TypeOK
    <3>4. QED
      BY <3>1, <3>2, <3>3 DEF LockLedger
  <2>5. DispatchLedger'
    <3>1. \A d \in dispatched : d.call \in Calls /\ d.key \in Keys
      BY DEF TypeOK
    <3>2. QED
      BY <2>2, <2>3, <3>1 DEF DispatchLedger, Holding, KeyOfCall, service
  <2>6. QED
    BY <2>2, <2>4, <2>5 DEF AtMostOneDispatchPerKey
<1>3. QED
  BY <1>1, <1>2 DEF Deliver, RejectUnverified, ReplayEvent, NoMatch, LeaveRecord

\* Nothing is held, stored or dispatched at first.
LEMMA DispatchInit == Init => DispatchInvariant
<1> SUFFICES ASSUME Init PROVE DispatchInvariant
  OBVIOUS
<1>1. \A c \in Calls : ~Holding(c)
  BY DEF Init, Holding
<1>2. LockLedger
  BY <1>1 DEF Init, LockLedger
<1>3. QED
  BY <1>2, TypeInit DEF Init, DispatchInvariant, DispatchLedger, AtMostOneDispatchPerKey

\* The dispatch invariant is inductive: one case per action.
LEMMA DispatchStep == DispatchInvariant /\ [Next]_vars => DispatchInvariant'
<1> SUFFICES ASSUME DispatchInvariant, [Next]_vars PROVE DispatchInvariant'
  OBVIOUS
<1>1. TypeOK'
  BY TypeStep DEF DispatchInvariant
<1>2. CASE \E c \in Calls, r \in Requests :
             Refuse(c, r) \/ Replay(c, r) \/ Conflict(c, r) \/ Defer(c, r) \/ Dispatch(c, r)
  BY <1>1, <1>2, RefusedCallKeepsInvariant, DeferKeepsInvariant, DispatchKeepsInvariant
<1>3. CASE \E c \in Calls : Respond(c) \/ Cancel(c)
  BY <1>1, <1>3, RespondKeepsInvariant, CancelKeepsInvariant
<1>4. CASE \E c \in Calls : OpenOrder(c) \/ \E shape \in EventShapes : Emit(c, shape)
  BY <1>1, <1>4, DispatchFrame DEF OpenOrder, Emit
<1>5. CASE Restart
  BY <1>1, <1>5, RestartKeepsInvariant
<1>6. CASE \E h \in Handlers, e \in events : Deliver(h, e)
  BY <1>1, <1>6, DeliverKeepsInvariant
<1>7. CASE UNCHANGED vars
  BY <1>1, <1>7, DispatchFrame DEF vars
<1>8. QED
  BY <1>2, <1>3, <1>4, <1>5, <1>6, <1>7 DEF Next, ExecuteRecovery

\* The lock and dispatch ledgers hold in every behaviour of the execution layer.
THEOREM DispatchInvariantHolds == Spec => []DispatchInvariant
<1>1. QED
  BY DispatchInit, DispatchStep, PTL DEF Spec

\* In one life of the process the provider is asked at most once per idempotency key.
THEOREM DispatchedAtMostOnce == Spec => []AtMostOneDispatchPerKey
<1>1. DispatchInvariant => AtMostOneDispatchPerKey
  BY DEF DispatchInvariant
<1>2. QED
  BY <1>1, DispatchInvariantHolds, PTL

\* The in-flight set is at all times exactly what the waiting and cancelled calls hold.
THEOREM LocksAreAccountedFor == Spec => []LockLedger
<1>1. DispatchInvariant => LockLedger
  BY DEF DispatchInvariant
<1>2. QED
  BY <1>1, DispatchInvariantHolds, PTL

------------------------------------------------------------------------------
(* What a step may do to records, calls and dispatches *)

Unchanged(k) == records'[k] = records[k] /\ (life' = life \/ ~Stored(k))

Lost(k) == records'[k] = NoRecord /\ life' = life + 1

Deferred(k) ==
  \E c \in Calls, r \in Requests :
    /\ ~Stored(k) /\ k = KeyOf(r) /\ RevalidateAuthorization(r)
    /\ pc[c] = "idle" /\ pc'[c] = "returned" /\ request'[c] = r
    /\ records'[k] = NewRecord(c, r, "DEFERRED", NoRef)
    /\ UNCHANGED <<dispatched, life, confirmations>>

Answered(k) ==
  \E c \in Calls : \E s \in {"SUCCEEDED", "FAILED", "UNKNOWN_PROVIDER_STATE"},
                    ref \in {NoRef, LocalRef(k), OrderRef(c)} :
    /\ ~Stored(k) /\ k = KeyOfCall(c) /\ Holding(c)
    /\ pc'[c] = "returned" /\ UNCHANGED <<request, dispatched, life, confirmations>>
    /\ records'[k] = NewRecord(c, request[c], s, ref)

Reconciled(k) ==
  \E s \in {"RECONCILED", "FAILED"} :
    /\ Stored(k) /\ CanTransition(records[k].status, s)
    /\ records'[k] = [records[k] EXCEPT !.status = s]
    /\ UNCHANGED <<service, dispatched, life>>

\* A record appears when its call is deferred or answered, changes status along the
\* table, and disappears in a restart: nothing else ever happens to it.
LEMMA RecordSteps ==
  ASSUME DispatchInvariant, [Next]_vars, NEW k \in Keys
  PROVE  Unchanged(k) \/ Lost(k) \/ Deferred(k) \/ Answered(k) \/ Reconciled(k)
<1> USE DEF DispatchInvariant
<1>1. CASE UNCHANGED <<records, life>>
  BY <1>1 DEF Unchanged
<1>2. ASSUME NEW c \in Calls, NEW r \in Requests, Defer(c, r)
      PROVE  Unchanged(k) \/ Deferred(k)
  <2>1. CASE k = KeyOf(r)
    <3>1. /\ ~Stored(k) /\ RevalidateAuthorization(r)
          /\ pc[c] = "idle" /\ pc'[c] = "returned" /\ request'[c] = r
          /\ records'[k] = NewRecord(c, r, "DEFERRED", NoRef)
          /\ UNCHANGED <<dispatched, life, confirmations>>
      BY <1>2, <2>1 DEF Defer, Enter, StartExecution, CompleteExecution, TypeOK
    <3>2. QED
      BY <2>1, <3>1 DEF Deferred
  <2>2. CASE k # KeyOf(r)
    BY <1>2, <2>2 DEF Defer, CompleteExecution, TypeOK, Unchanged
  <2>3. QED
    BY <2>1, <2>2
<1>3. ASSUME NEW c \in Calls, Respond(c)
      PROVE  Unchanged(k) \/ Answered(k)
  <2>1. PICK resp \in Responses(c) :
          CompleteExecution(KeyOfCall(c),
                            NewRecord(c, request[c], StatusOfResponse(resp.normalized), resp.ref))
    BY <1>3 DEF Respond
  <2>2. CASE k = KeyOfCall(c)
    <3>1. Holding(c) /\ ~Stored(k)
      BY <1>3, <2>2 DEF Respond, Holding, LockLedger
    <3>2. StatusOfResponse(resp.normalized) \in {"SUCCEEDED", "FAILED", "UNKNOWN_PROVIDER_STATE"}
      BY ResponseStatus
    <3>3. resp.ref \in {NoRef, LocalRef(k), OrderRef(c)}
      BY <2>2, ResponseRef
    <3>4. /\ pc'[c] = "returned" /\ UNCHANGED <<request, dispatched, life, confirmations>>
          /\ records'[k] = NewRecord(c, request[c], StatusOfResponse(resp.normalized), resp.ref)
      BY <1>3, <2>1, <2>2 DEF Respond, CompleteExecution, TypeOK
    <3>5. QED
      BY <2>2, <3>1, <3>2, <3>3, <3>4 DEF Answered
  <2>3. CASE k # KeyOfCall(c)
    BY <1>3, <2>1, <2>3 DEF Respond, CompleteExecution, TypeOK, Unchanged
  <2>4. QED
    BY <2>2, <2>3
<1>4. CASE Restart
  BY <1>4 DEF Restart, Lost
<1>5. ASSUME NEW h \in Handlers, NEW e \in events, NEW q \in Keys, Reconcile(h, e, q)
      PROVE  Unchanged(k) \/ Reconciled(k)
  <2>1. CASE k = q
    <3>1. StatusOfEvent(e.type) \in {"RECONCILED", "FAILED"}
      BY <1>5 DEF Reconcile, Reconciles, StatusOfEvent
    <3>2. /\ Stored(k) /\ CanTransition(records[k].status, StatusOfEvent(e.type))
          /\ records'[k] = [records[k] EXCEPT !.status = StatusOfEvent(e.type)]
          /\ UNCHANGED <<service, dispatched, life>>
      BY <1>5, <2>1 DEF Reconcile, Reconciles, Matches, SetStatus, TypeOK
    <3>3. QED
      BY <3>1, <3>2 DEF Reconciled
  <2>2. CASE k # q
    BY <1>5, <2>2 DEF Reconcile, SetStatus, TypeOK, Unchanged
  <2>3. QED
    BY <2>1, <2>2
<1>6. CASE \E c \in Calls, r \in Requests :
             Refuse(c, r) \/ Replay(c, r) \/ Conflict(c, r) \/ Dispatch(c, r)
  BY <1>1, <1>6 DEF Refuse, Replay, Conflict, Dispatch, manager
<1>7. CASE \E c \in Calls : Cancel(c) \/ OpenOrder(c) \/ \E shape \in EventShapes : Emit(c, shape)
  BY <1>1, <1>7 DEF Cancel, OpenOrder, Emit, manager
<1>8. CASE \E h \in Handlers, e \in events :
             \/ RejectUnverified(h, e) \/ ReplayEvent(h, e) \/ NoMatch(h, e)
             \/ \E q \in Keys : LeaveRecord(h, e, q)
  BY <1>1, <1>8 DEF RejectUnverified, ReplayEvent, NoMatch, LeaveRecord, manager
<1>9. CASE UNCHANGED vars
  BY <1>1, <1>9 DEF vars, manager
<1>10. QED
  BY <1>2, <1>3, <1>4, <1>5, <1>6, <1>7, <1>8, <1>9 DEF Next, ExecuteRecovery, Deliver

\* A failed or reconciled execution keeps that status as long as the process lives.
LEMMA FinalStep ==
  ASSUME DispatchInvariant, [Next]_vars, NEW k \in Keys, life' = life,
         records[k].status \in {"FAILED", "RECONCILED", "REQUIRES_REVIEW"}
  PROVE  records'[k].status = records[k].status
<1>1. Stored(k)
  BY DEF Stored, NoRecord
<1>2. ~Lost(k)
  BY BoundsAssumption DEF Lost, DispatchInvariant, TypeOK
<1>3. ~Reconciled(k)
  BY DEF Reconciled, CanTransition, LegalTransitions, ExecutionStatus
<1>4. QED
  BY <1>1, <1>2, <1>3, RecordSteps DEF Unchanged, Deferred, Answered

\* FAILED, RECONCILED and REQUIRES_REVIEW are final within one life of the process,
\* whatever events arrive later (state_machine.py 43-46 with webhook_handler.py 140-148).
THEOREM FinalStatusHolds == Spec => FinalStatusIsKept
<1>1. ASSUME DispatchInvariant, [Next]_vars
      PROVE  [\A k \in Keys :
                records[k].status \in {"FAILED", "RECONCILED", "REQUIRES_REVIEW"} /\ life' = life
                  => records'[k].status = records[k].status]_<<records, life>>
  BY <1>1, FinalStep
<1>2. QED
  BY <1>1, DispatchInvariantHolds, PTL DEF Spec, FinalStatusIsKept

\* A returned call stays returned.
LEMMA ReturnedIsStable ==
  ASSUME TypeOK, [Next]_vars, NEW c \in Calls, pc[c] = "returned"
  PROVE  pc'[c] = "returned"
<1>1. CASE \E d \in Calls, r \in Requests :
             Refuse(d, r) \/ Replay(d, r) \/ Conflict(d, r) \/ Defer(d, r) \/ Dispatch(d, r)
  <2>1. PICK d \in Calls, r \in Requests, to \in Locations \ {"idle"} : Enter(d, r, to)
    BY <1>1 DEF Refuse, Replay, Conflict, Defer, Dispatch, Locations
  <2>2. QED
    BY <2>1 DEF Enter, TypeOK
<1>2. CASE \E d \in Calls : Respond(d) \/ Cancel(d)
  BY <1>2 DEF Respond, Cancel, TypeOK
<1>3. CASE \E d \in Calls : OpenOrder(d) \/ \E shape \in EventShapes : Emit(d, shape)
  BY <1>3 DEF OpenOrder, Emit, service
<1>4. CASE Restart
  BY <1>4 DEF Restart, TypeOK
<1>5. CASE \E h \in Handlers, e \in events : Deliver(h, e)
  BY <1>5 DEF Deliver, RejectUnverified, ReplayEvent, NoMatch, LeaveRecord, Reconcile, service
<1>6. CASE UNCHANGED vars
  BY <1>6 DEF vars, service
<1>7. QED
  BY <1>1, <1>2, <1>3, <1>4, <1>5, <1>6 DEF Next, ExecuteRecovery

\* The provider only ever gets new requests, each from a call that was idle and is
\* then waiting under the key of its request.
LEMMA DispatchedGrows ==
  ASSUME TypeOK, [Next]_vars
  PROVE  \/ dispatched' = dispatched
         \/ \E c \in Calls, r \in Requests :
              /\ Dispatch(c, r) /\ pc[c] = "idle" /\ request'[c] = r
              /\ dispatched' = dispatched \cup {[call |-> c, key |-> KeyOf(r), life |-> life]}
<1>1. ASSUME NEW c \in Calls, NEW r \in Requests, Dispatch(c, r)
      PROVE  /\ pc[c] = "idle" /\ request'[c] = r
             /\ dispatched' = dispatched \cup {[call |-> c, key |-> KeyOf(r), life |-> life]}
  BY <1>1 DEF Dispatch, Enter, TypeOK
<1>2. QED
  BY <1>1 DEF Next, ExecuteRecovery,
                vars, Refuse, Replay, Conflict, Defer, Respond, Cancel, Restart, OpenOrder,
     Emit, Deliver, RejectUnverified, ReplayEvent, NoMatch, LeaveRecord, Reconcile

------------------------------------------------------------------------------
(* Records, references and money *)

\* A call comes to hold a key only by its dispatch, and a restart releases all keys.
LEMMA HeldStep ==
  ASSUME DispatchInvariant, HeldCallsWereDispatched, [Next]_vars
  PROVE  HeldCallsWereDispatched'
<1> USE DEF DispatchInvariant
<1>1. SUFFICES ASSUME NEW c \in Calls, Holding(c)'
               PROVE  [call |-> c, key |-> KeyOfCall(c)', life |-> life'] \in dispatched'
  BY DEF HeldCallsWereDispatched
<1>2. CASE Holding(c) /\ life' = life
  <2>1. KeyOfCall(c)' = KeyOfCall(c)
    BY <1>2, CallsAreStable DEF Holding
  <2>2. QED
    BY <1>2, <2>1, DispatchedGrows DEF HeldCallsWereDispatched
<1>3. CASE \E r \in Requests : Dispatch(c, r)
  BY <1>3 DEF Dispatch, Enter, KeyOfCall, TypeOK
<1>4. (Holding(c) /\ life' = life) \/ (\E r \in Requests : Dispatch(c, r))
  <2>1. CASE \E d \in Calls, r \in Requests :
               Refuse(d, r) \/ Replay(d, r) \/ Conflict(d, r) \/ Defer(d, r) \/ Dispatch(d, r)
    BY <1>1, <2>1 DEF Refuse, Replay, Conflict, Defer, Dispatch, Enter, Holding, TypeOK
  <2>2. CASE \E d \in Calls : Respond(d) \/ Cancel(d)
    BY <1>1, <2>2 DEF Respond, Cancel, Holding, TypeOK
  <2>3. CASE \E d \in Calls : OpenOrder(d) \/ \E shape \in EventShapes : Emit(d, shape)
    BY <1>1, <2>3 DEF OpenOrder, Emit, service, Holding
  <2>4. CASE Restart
    BY <1>1, <2>4 DEF Restart, Holding, TypeOK
  <2>5. CASE \E h \in Handlers, e \in events : Deliver(h, e)
    BY <1>1, <2>5 DEF Deliver, RejectUnverified, ReplayEvent, NoMatch, LeaveRecord, Reconcile,
       service, Holding
  <2>6. CASE UNCHANGED vars
    BY <1>1, <2>6 DEF vars, service, Holding
  <2>7. QED
    BY <2>1, <2>2, <2>3, <2>4, <2>5, <2>6 DEF Next, ExecuteRecovery
<1>5. QED
  BY <1>2, <1>3, <1>4

\* What RecordBelongsToItsExecution says of one key.
Belongs(k) ==
  LET x == records[k].execution IN
    /\ pc[x] = "returned" /\ KeyOfCall(x) = k
    /\ records[k].amount = request[x].proposal.amount
    /\ (records[k].status # "DEFERRED") <=>
         (\E d \in dispatched : d.call = x /\ d.key = k /\ d.life = life)

\* One key: its record keeps belonging to the call it was made for.
LEMMA BelongsStep ==
  ASSUME DispatchInvariant, HeldCallsWereDispatched, RecordBelongsToItsExecution, [Next]_vars,
         NEW k \in Keys, Stored(k)'
  PROVE  Belongs(k)'
<1> USE DEF DispatchInvariant
<1>1. Stored(k) => /\ Belongs(k) /\ records[k].execution \in Calls
                   /\ pc[records[k].execution] # "idle"
  BY DEF RecordBelongsToItsExecution, Belongs, Stored, TypeOK, Records
<1>2. ASSUME NEW x \in Calls, pc[x] # "idle"
      PROVE  (\E d \in dispatched' : d.call = x /\ d.key = k /\ d.life = life)
               <=> (\E d \in dispatched : d.call = x /\ d.key = k /\ d.life = life)
  BY <1>2, DispatchedGrows
<1>3. CASE Unchanged(k)
  <2>1. Stored(k) /\ life' = life /\ records'[k] = records[k]
    BY <1>3 DEF Unchanged, Stored
  <2>2. QED
    BY <1>1, <1>2, <2>1, CallsAreStable, ReturnedIsStable DEF Belongs
<1>4. CASE Reconciled(k)
  <2>1. /\ Stored(k) /\ life' = life /\ records'[k].execution = records[k].execution
        /\ records'[k].amount = records[k].amount
        /\ records[k].status # "DEFERRED" /\ records'[k].status # "DEFERRED"
    BY <1>4 DEF Reconciled, CanTransition, LegalTransitions, ExecutionStatus, Stored, TypeOK,
       Records
  <2>2. QED
    BY <1>1, <1>2, <2>1, CallsAreStable, ReturnedIsStable DEF Belongs
<1>5. CASE Deferred(k)
  <2>1. PICK c \in Calls, r \in Requests :
          /\ k = KeyOf(r) /\ RevalidateAuthorization(r)
          /\ pc[c] = "idle" /\ pc'[c] = "returned" /\ request'[c] = r
          /\ records'[k] = NewRecord(c, r, "DEFERRED", NoRef)
          /\ UNCHANGED <<dispatched, life>>
    BY <1>5 DEF Deferred
  <2>2. \A d \in dispatched : d.call # c
    BY <2>1 DEF DispatchLedger
  <2>3. /\ records'[k].execution = c /\ records'[k].status = "DEFERRED"
        /\ records'[k].amount = r.proposal.amount
    BY <2>1 DEF NewRecord, RevalidateAuthorization
  <2>4. QED
    BY <2>1, <2>2, <2>3 DEF Belongs, KeyOfCall
<1>6. CASE Answered(k)
  <2>1. PICK c, s, ref :
          /\ c \in Calls /\ s \in {"SUCCEEDED", "FAILED", "UNKNOWN_PROVIDER_STATE"}
          /\ k = KeyOfCall(c) /\ Holding(c) /\ pc'[c] = "returned"
          /\ UNCHANGED <<request, dispatched, life>>
          /\ records'[k] = NewRecord(c, request[c], s, ref)
    BY <1>6 DEF Answered
  <2>2. [call |-> c, key |-> k, life |-> life] \in dispatched
    BY <2>1 DEF HeldCallsWereDispatched
  <2>3. RevalidateAuthorization(request[c])
    BY <2>2 DEF DispatchLedger
  <2>4. /\ records'[k].execution = c /\ records'[k].status = s
        /\ records'[k].amount = request[c].proposal.amount
    BY <2>1, <2>3 DEF NewRecord, RevalidateAuthorization
  <2>5. QED
    BY <2>1, <2>2, <2>4 DEF Belongs, KeyOfCall
<1>7. CASE Lost(k)
  BY <1>7 DEF Lost, Stored
<1>8. QED
  BY <1>3, <1>4, <1>5, <1>6, <1>7, RecordSteps

\* All keys: the records keep belonging to the calls they were made for.
LEMMA RecordBelongsStep ==
  ASSUME DispatchInvariant, HeldCallsWereDispatched, RecordBelongsToItsExecution, [Next]_vars
  PROVE  RecordBelongsToItsExecution'
<1>1. SUFFICES ASSUME NEW k \in Keys, Stored(k)'
               PROVE  Belongs(k)'
  BY DEF RecordBelongsToItsExecution, Belongs
<1>2. QED
  BY <1>1, BelongsStep

\* The gateway opens orders for requests it was given, and emits events for orders.
LEMMA EnvironmentGrows ==
  ASSUME [Next]_vars
  PROVE  /\ \/ orders' = orders
            \/ \E c \in Calls : orders' = orders \cup {c} /\ \E d \in dispatched : d.call = c
         /\ \/ events' = events
            \/ \E c \in orders, shape \in EventShapes :
                 events' = events \cup {EventFor(Cardinality(events) + 1, c, shape)}
<1>1. CASE \E c \in Calls : OpenOrder(c)
  BY <1>1 DEF OpenOrder
<1>2. CASE \E c \in Calls, shape \in EventShapes : Emit(c, shape)
  BY <1>2 DEF Emit
<1>3. CASE UNCHANGED gateway
  BY <1>3 DEF gateway
<1>4. QED
  BY <1>1, <1>2, <1>3 DEF Next, ExecuteRecovery,
                vars, Refuse, Replay, Conflict, Defer, Dispatch, Respond, Cancel,
     Restart, Deliver, RejectUnverified, ReplayEvent, NoMatch, LeaveRecord, Reconcile

\* References stay traceable: orders and events to dispatches, a record's to its own key.
LEMMA ReferenceStep ==
  ASSUME DispatchInvariant, ReferenceLedger, [Next]_vars
  PROVE  ReferenceLedger'
<1> USE DEF DispatchInvariant
<1>1. \A d \in dispatched : /\ d \in dispatched' /\ d.call \in Calls /\ pc[d.call] # "idle"
                            /\ GatewayRef(d.call)' = GatewayRef(d.call)
  <2>1. SUFFICES ASSUME NEW d \in dispatched
                 PROVE  /\ d \in dispatched' /\ d.call \in Calls /\ pc[d.call] # "idle"
                        /\ GatewayRef(d.call)' = GatewayRef(d.call)
    OBVIOUS
  <2>2. d.call \in Calls /\ pc[d.call] # "idle"
    BY DEF TypeOK, DispatchLedger
  <2>3. GatewayRef(d.call)' = GatewayRef(d.call)
    BY <2>2, CallsAreStable DEF GatewayRef
  <2>4. QED
    BY <2>2, <2>3, DispatchedGrows
<1>2. \A c \in orders' : \E d \in dispatched' : d.call = c
  BY <1>1, EnvironmentGrows DEF ReferenceLedger
<1>3. ASSUME NEW e \in events'
      PROVE  (\E d \in dispatched' : d.call = e.order) /\ e.refs \subseteq {GatewayRef(e.order)'}
  <2>1. CASE e \in events
    BY <1>1, <2>1 DEF ReferenceLedger
  <2>2. CASE e \notin events
    <3>1. PICK c \in orders, shape \in EventShapes :
            e = EventFor(Cardinality(events) + 1, c, shape)
      BY <2>2, EnvironmentGrows
    <3>2. e.order = c /\ e.refs \subseteq {GatewayRef(c)}
      BY <3>1 DEF EventFor
    <3>3. QED
      BY <1>1, <3>2 DEF ReferenceLedger
  <2>3. QED
    BY <2>1, <2>2
<1>4. ASSUME NEW k \in Keys, Stored(k)'
      PROVE  records'[k].ref \in {NoRef, LocalRef(k), OrderRef(records'[k].execution)}
  <2>1. CASE Unchanged(k)
    BY <1>4, <2>1 DEF Unchanged, Stored, ReferenceLedger
  <2>2. CASE Lost(k)
    BY <1>4, <2>2 DEF Lost, Stored
  <2>3. CASE Deferred(k) \/ Answered(k)
    <3>1. \E c, r, s, ref : /\ ref \in {NoRef, LocalRef(k), OrderRef(c)}
                            /\ records'[k] = NewRecord(c, r, s, ref)
      <4>1. CASE Deferred(k)
        BY <4>1 DEF Deferred
      <4>2. CASE Answered(k)
        BY <4>2 DEF Answered
      <4>3. QED
        BY <2>3, <4>1, <4>2
    <3>2. PICK c, r, s, ref : /\ ref \in {NoRef, LocalRef(k), OrderRef(c)}
                              /\ records'[k] = NewRecord(c, r, s, ref)
      BY <3>1
    <3>3. records'[k].ref = ref /\ records'[k].execution = c
      BY <3>2 DEF NewRecord
    <3>4. QED
      BY <3>2, <3>3
  <2>4. CASE Reconciled(k)
    <3>1. Stored(k) /\ records[k] \in Records
      BY <2>4 DEF Reconciled, Stored, TypeOK
    <3>2. records'[k].ref = records[k].ref /\ records'[k].execution = records[k].execution
      BY <2>4, <3>1 DEF Reconciled, Records
    <3>3. QED
      BY <3>1, <3>2 DEF ReferenceLedger
  <2>5. QED
    BY <2>1, <2>2, <2>3, <2>4, RecordSteps
<1>5. QED
  BY <1>2, <1>3, <1>4 DEF ReferenceLedger

\* Revenue is reported only by reconciling a record with a paid event.
LEMMA ConfirmationsGrow ==
  ASSUME [Next]_vars
  PROVE  \/ confirmations' = confirmations
         \/ \E h \in Handlers, e \in events, k \in Keys :
              /\ Reconcile(h, e, k) /\ e.type \in PaidTypes
              /\ confirmations' = confirmations \cup
                   {[key |-> k, event |-> e.id, handler |-> h, life |-> life,
                     execution |-> records[k].execution, amount |-> records[k].amount]}
<1>1. ASSUME NEW h \in Handlers, NEW e \in events, NEW k \in Keys, Reconcile(h, e, k),
             confirmations' # confirmations
      PROVE  /\ e.type \in PaidTypes
             /\ confirmations' = confirmations \cup
                  {[key |-> k, event |-> e.id, handler |-> h, life |-> life,
                    execution |-> records[k].execution, amount |-> records[k].amount]}
  <2>1. StatusOfEvent(e.type) = "RECONCILED"
    BY <1>1 DEF Reconcile, Confirm
  <2>2. e.type \in PaidTypes
    BY <2>1 DEF StatusOfEvent
  <2>3. QED
    BY <1>1, <2>1, <2>2 DEF Reconcile, Confirm
<1>2. CASE UNCHANGED confirmations
  BY <1>2
<1>3. CASE \E h \in Handlers, e \in events, k \in Keys : Reconcile(h, e, k)
  BY <1>1, <1>3
<1>4. QED
  BY <1>2, <1>3 DEF Next, ExecuteRecovery,
                vars, Refuse, Replay, Conflict, Defer, Dispatch, Respond, Cancel,
     Restart, OpenOrder, Emit, Deliver, RejectUnverified, ReplayEvent, NoMatch, LeaveRecord

\* A step restarts the process at most once.
LEMMA LifeGrows ==
  ASSUME TypeOK, [Next]_vars
  PROVE  life \in Nat /\ (life' = life \/ life' = life + 1)
<1>1. life \in Nat
  BY BoundsAssumption DEF TypeOK
<1>2. QED
  BY <1>1 DEF Next, ExecuteRecovery,
                vars, Refuse, Replay, Conflict, Defer, Dispatch, Respond, Cancel,
     Restart, OpenOrder, Emit, Deliver, RejectUnverified, ReplayEvent, NoMatch, LeaveRecord,
     Reconcile

\* A confirmation of this life still shows in its record, because RECONCILED is final,
\* and so its key is never confirmed a second time.
LEMMA ConfirmationStep ==
  ASSUME DispatchInvariant, RecordBelongsToItsExecution, ConfirmationLedger,
         ConfirmedAtMostOnce, [Next]_vars
  PROVE  ConfirmationLedger' /\ ConfirmedAtMostOnce'
<1> USE DEF DispatchInvariant
<1>1. life \in Nat /\ (life' = life \/ life' = life + 1)
  BY LifeGrows
<1>2. ASSUME NEW f \in confirmations
      PROVE  /\ f.execution \in Calls /\ pc'[f.execution] # "idle"
             /\ f.life <= life' /\ (f.life = life' => records'[f.key].status = "RECONCILED")
  <2>1. f.key \in Keys /\ f.life \in Nat
    BY BoundsAssumption DEF TypeOK
  <2>2. /\ f.execution \in Calls /\ pc[f.execution] # "idle"
        /\ f.life <= life /\ (f.life = life => records[f.key].status = "RECONCILED")
    BY DEF ConfirmationLedger
  <2>3. f.life = life' => life' = life /\ records[f.key].status = "RECONCILED"
    BY <1>1, <2>1, <2>2
  <2>4. f.life = life' => records'[f.key].status = "RECONCILED"
    BY <2>1, <2>3, FinalStep
  <2>5. QED
    BY <1>1, <2>1, <2>2, <2>4, CallsAreStable
<1>3. ASSUME NEW h \in Handlers, NEW e \in events, NEW k \in Keys, Reconcile(h, e, k),
             e.type \in PaidTypes
      PROVE  /\ records[k].status # "RECONCILED" /\ records'[k].status = "RECONCILED"
             /\ life' = life /\ records[k].execution \in Calls
             /\ pc'[records[k].execution] # "idle"
  <2>1. Stored(k) /\ records[k] \in Records
    BY <1>3 DEF Reconcile, Matches, Stored, TypeOK
  <2>2. records[k].status # "RECONCILED"
    BY <1>3 DEF Reconcile, Reconciles, AlreadyReconciled
  <2>3. records'[k].status = "RECONCILED"
    <3>1. StatusOfEvent(e.type) = "RECONCILED"
      BY <1>3 DEF StatusOfEvent, PaidTypes
    <3>2. records'[k] = [records[k] EXCEPT !.status = "RECONCILED"]
      BY <1>3, <3>1 DEF Reconcile, SetStatus, TypeOK
    <3>3. QED
      BY <2>1, <3>2 DEF Records
  <2>4. records[k].execution \in Calls /\ pc[records[k].execution] # "idle"
    BY <2>1 DEF Records, RecordBelongsToItsExecution
  <2>5. QED
    BY <1>3, <2>2, <2>3, <2>4, CallsAreStable DEF Reconcile
<1>4. CASE confirmations' = confirmations
  BY <1>2, <1>4 DEF ConfirmationLedger, ConfirmedAtMostOnce
<1>5. ASSUME NEW h \in Handlers, NEW e \in events, NEW k \in Keys, Reconcile(h, e, k),
             e.type \in PaidTypes,
             confirmations' = confirmations \cup
               {[key |-> k, event |-> e.id, handler |-> h, life |-> life,
                 execution |-> records[k].execution, amount |-> records[k].amount]}
      PROVE  ConfirmationLedger' /\ ConfirmedAtMostOnce'
  <2> DEFINE new == [key |-> k, event |-> e.id, handler |-> h, life |-> life,
                     execution |-> records[k].execution, amount |-> records[k].amount]
  <2>1. new.key = k /\ new.life = life /\ new.execution = records[k].execution
    OBVIOUS
  <2>2. confirmations' = confirmations \cup {new}
    BY <1>5
  <2> HIDE DEF new
  <2>3. \A f \in confirmations : ~(f.key = k /\ f.life = life)
    BY <1>3, <1>5 DEF ConfirmationLedger
  <2>4. ConfirmedAtMostOnce'
    BY <2>1, <2>2, <2>3 DEF ConfirmedAtMostOnce
  <2>5. ConfirmationLedger'
    BY <1>1, <1>2, <1>3, <1>5, <2>1, <2>2 DEF ConfirmationLedger
  <2>6. QED
    BY <2>4, <2>5
<1>6. QED
  BY <1>4, <1>5, ConfirmationsGrow

\* An event names a record only if the record's key is the key the event's order was
\* dispatched under, so money is credited to the key it was paid for.
LEMMA MatchIsOwnKey ==
  ASSUME DispatchInvariant, RecordBelongsToItsExecution, ReferenceLedger,
         NEW e \in events, NEW k \in Matches(e)
  PROVE  \E d \in dispatched : d.call = e.order /\ d.key = k
<1> USE DEF DispatchInvariant
<1>1. k \in Keys /\ Stored(k) /\ records[k].ref \in e.refs
  BY DEF Matches
<1>2. PICK d \in dispatched : d.call = e.order
  BY DEF ReferenceLedger
<1>3. d.key = KeyOfCall(e.order)
  BY <1>2 DEF DispatchLedger
<1>4. records[k].ref = GatewayRef(e.order)
  BY <1>1 DEF ReferenceLedger
<1>5. records[k].ref \in {NoRef, LocalRef(k), OrderRef(records[k].execution)}
  BY <1>1 DEF ReferenceLedger
<1>6. CASE Adapter = "mock"
  <2>1. records[k].ref = LocalRef(KeyOfCall(e.order))
    BY <1>4, <1>6 DEF GatewayRef
  <2>2. k = KeyOfCall(e.order)
    BY <1>5, <2>1 DEF LocalRef, NoRef, OrderRef
  <2>3. QED
    BY <1>2, <1>3, <2>2
<1>7. CASE Adapter # "mock"
  <2>1. records[k].ref = OrderRef(e.order)
    BY <1>4, <1>7 DEF GatewayRef
  <2>2. records[k].execution = e.order
    BY <1>5, <2>1 DEF LocalRef, NoRef, OrderRef
  <2>3. KeyOfCall(e.order) = k
    BY <1>1, <2>2 DEF RecordBelongsToItsExecution
  <2>4. QED
    BY <1>2, <1>3, <2>3
<1>8. QED
  BY <1>6, <1>7

\* Revenue already reported stays justified, and newly reported revenue is: its event
\* names the record's own order and its record the amount of an approved proposal.
LEMMA MoneyStep ==
  ASSUME DispatchInvariant, RecordBelongsToItsExecution, ReferenceLedger,
         ConfirmationLedger, ConfirmedMoneyWasPaidAndApproved, [Next]_vars
  PROVE  ConfirmedMoneyWasPaidAndApproved'
<1> USE DEF DispatchInvariant
<1> DEFINE Justified(f) ==
      \E e \in events, d \in dispatched :
        /\ e.id = f.event /\ e.flaw = "none" /\ e.type \in PaidTypes
        /\ d.call = e.order /\ d.key = f.key
        /\ e.amount \in {NoAmount, f.amount}
        /\ request[f.execution].gateway.decision = "APPROVED"
        /\ f.amount = request[f.execution].proposal.amount
<1>1. events \subseteq events' /\ dispatched \subseteq dispatched'
  BY EnvironmentGrows, DispatchedGrows
<1>2. ASSUME NEW f \in confirmations
      PROVE  Justified(f)'
  <2>1. request'[f.execution] = request[f.execution]
    BY CallsAreStable DEF ConfirmationLedger
  <2>2. Justified(f)
    BY DEF ConfirmedMoneyWasPaidAndApproved
  <2>3. QED
    BY <1>1, <2>1, <2>2
<1>3. ASSUME NEW h \in Handlers, NEW e \in events, NEW k \in Keys, Reconcile(h, e, k),
             e.type \in PaidTypes, NEW f,
             f = [key |-> k, event |-> e.id, handler |-> h, life |-> life,
                  execution |-> records[k].execution, amount |-> records[k].amount]
      PROVE  Justified(f)'
  <2> DEFINE x == records[k].execution
  <2>1. /\ f.key = k /\ f.event = e.id /\ f.execution = x /\ f.amount = records[k].amount
    BY <1>3
  <2>2. PICK d \in dispatched : d.call = e.order /\ d.key = k
    BY <1>3, MatchIsOwnKey DEF Reconcile
  <2>3. e.flaw = "none" /\ e.amount \in {NoAmount, f.amount}
    BY <1>3, <2>1 DEF Reconcile, Remember, Reconciles, MoneyMatches
  <2>4. Stored(k) /\ request' = request
    BY <1>3 DEF Reconcile, Matches, service
  <2>5. records[k].status # "DEFERRED"
    BY <1>3 DEF Reconcile, Reconciles, CanTransition, LegalTransitions, ExecutionStatus,
       StatusOfEvent
  <2>6. PICK b \in dispatched : b.call = x
    BY <2>4, <2>5 DEF RecordBelongsToItsExecution
  <2>7. request[x].gateway.decision = "APPROVED"
    BY <2>6 DEF DispatchLedger, RevalidateAuthorization
  <2>8. f.amount = request[x].proposal.amount
    BY <2>1, <2>4 DEF RecordBelongsToItsExecution
  <2> HIDE DEF x
  <2>9. QED
    BY <1>1, <1>3, <2>1, <2>2, <2>3, <2>4, <2>7, <2>8
<1>4. \A f \in confirmations' : Justified(f)'
  BY <1>2, <1>3, ConfirmationsGrow
<1>5. QED
  BY <1>4 DEF ConfirmedMoneyWasPaidAndApproved

------------------------------------------------------------------------------
(* The execution invariant and the properties it implies *)

\* The invariant holds of the empty system: nothing is dispatched, stored or confirmed.
LEMMA ExecutionInit == Init => ExecutionInvariant
<1> SUFFICES ASSUME Init PROVE ExecutionInvariant
  OBVIOUS
<1>1. HeldCallsWereDispatched
  BY DEF Init, HeldCallsWereDispatched, Holding
<1>2. \A k \in Keys : ~Stored(k)
  BY DEF Init, Stored
<1>3. RecordBelongsToItsExecution /\ ReferenceLedger
  BY <1>2 DEF Init, RecordBelongsToItsExecution, ReferenceLedger
<1>4. ConfirmationLedger /\ ConfirmedAtMostOnce /\ ConfirmedMoneyWasPaidAndApproved
  BY DEF Init, ConfirmationLedger, ConfirmedAtMostOnce, ConfirmedMoneyWasPaidAndApproved
<1>5. QED
  BY <1>1, <1>3, <1>4, DispatchInit DEF ExecutionInvariant

\* Every step of every actor keeps the invariant.
LEMMA ExecutionStep == ExecutionInvariant /\ [Next]_vars => ExecutionInvariant'
<1> SUFFICES ASSUME ExecutionInvariant, [Next]_vars PROVE ExecutionInvariant'
  OBVIOUS
<1> USE DEF ExecutionInvariant
<1>1. DispatchInvariant'
  BY DispatchStep
<1>2. HeldCallsWereDispatched'
  BY HeldStep
<1>3. RecordBelongsToItsExecution'
  BY RecordBelongsStep
<1>4. ReferenceLedger'
  BY ReferenceStep
<1>5. ConfirmationLedger' /\ ConfirmedAtMostOnce'
  BY ConfirmationStep
<1>6. ConfirmedMoneyWasPaidAndApproved'
  BY MoneyStep
<1>7. QED
  BY <1>1, <1>2, <1>3, <1>4, <1>5, <1>6

\* The inductive invariant of the execution layer holds in every behaviour.
THEOREM ExecutionInvariantHolds == Spec => []ExecutionInvariant
<1>1. QED
  BY ExecutionInit, ExecutionStep, PTL DEF Spec

\* The record of a key is always that of its own dispatched or deferred call, and for
\* the amount that call was authorised for.
THEOREM RecordsBelong == Spec => []RecordBelongsToItsExecution
<1>1. ExecutionInvariant => RecordBelongsToItsExecution
  BY DEF ExecutionInvariant
<1>2. QED
  BY <1>1, ExecutionInvariantHolds, PTL

\* In one life of the process revenue is reported at most once per key.
THEOREM RevenueReportedOnce == Spec => []ConfirmedAtMostOnce
<1>1. ExecutionInvariant => ConfirmedAtMostOnce
  BY DEF ExecutionInvariant
<1>2. QED
  BY <1>1, ExecutionInvariantHolds, PTL

\* Reported revenue was paid for the order of that key, in the amount approved for it.
THEOREM RevenueIsJustified == Spec => []ConfirmedMoneyWasPaidAndApproved
<1>1. ExecutionInvariant => ConfirmedMoneyWasPaidAndApproved
  BY DEF ExecutionInvariant
<1>2. QED
  BY <1>1, ExecutionInvariantHolds, PTL
==============================================================================
