---------------------------- MODULE HistoryProofs -----------------------------
(***************************************************************************)
(* What becomes of a key and its record, for any set of calls, requests,   *)
(* handlers and event shapes and either adapter.                           *)
(*                                                                         *)
(* The audit trail: the entries of an execution, written by the service    *)
(* and by every handler to a logger of its own, are a legal walk that ends *)
(* in the status of its record. A status is audited by the actor that      *)
(* stores it, so the argument is that nobody else changes the status of a  *)
(* record: it appears when its own call is deferred or answered, and       *)
(* changes when it is reconciled.                                          *)
(*                                                                         *)
(* The promise, as long as the process is not restarted: every step of the *)
(* layer maps to one move of one key, or to nothing. Without a restart     *)
(* there is one life, so that a key was charged exactly if its call holds  *)
(* it or left a record (DispatchLedger), and credited exactly if its       *)
(* record is RECONCILED (ConfirmationLedger): a free key was never charged *)
(* and an unconfirmed one never credited.                                  *)
(***************************************************************************)
EXTENDS ExecutionProofs

------------------------------------------------------------------------------
(* The trail: walks *)

Entries == [logger : Loggers, status : ExecutionStatus]

Walk(t) ==
  /\ t # <<>> /\ t[1].status \in LegalTransitions["AUTHORIZED"]
  /\ \A i \in 1 .. Len(t) - 1 : CanTransition(t[i].status, t[i + 1].status)

Ending(t) == t[Len(t)].status

\* A trail may be continued by any status its last one may change to.
LEMMA WalkGoesOn ==
  ASSUME NEW t \in Seq(Entries), NEW e \in Entries, Walk(t), CanTransition(Ending(t), e.status)
  PROVE  Walk(Append(t, e)) /\ Ending(Append(t, e)) = e.status
<1> DEFINE n == Len(t)
           u == Append(t, e)
<1>1. n \in Nat /\ n >= 1
  BY DEF Walk
<1>2. u \in Seq(Entries) /\ Len(u) = n + 1 /\ u[n + 1] = e
  OBVIOUS
<1>3. \A i \in 1 .. n : u[i] = t[i]
  OBVIOUS
<1> HIDE DEF u
<1>4. ASSUME NEW i \in 1 .. n
      PROVE  CanTransition(u[i].status, u[i + 1].status)
  <2>1. CASE i = n
    BY <1>1, <1>2, <1>3, <2>1 DEF Ending
  <2>2. CASE i # n
    <3>1. i \in 1 .. n - 1 /\ i + 1 \in 1 .. n
      BY <1>1, <2>2
    <3> QED
      BY <1>3, <3>1 DEF Walk
  <2> QED
    BY <2>1, <2>2
<1>5. u # <<>>
  BY <1>1, <1>2
<1>6. u[1] = t[1]
  BY <1>1, <1>3
<1>7. Len(u) - 1 = n
  BY <1>1, <1>2
<1>8. Walk(u)
  BY <1>4, <1>5, <1>6, <1>7 DEF Walk
<1>9. Ending(u) = e.status
  BY <1>2 DEF Ending
<1> QED
  BY <1>8, <1>9 DEF u

\* Auditing one status appends one entry to one trail (audit.py 42-45).
LEMMA OneEntry ==
  ASSUME TypeOK, NEW log \in Loggers, NEW x \in Calls, NEW s \in ExecutionStatus,
         Audit(log, x, <<s>>)
  PROVE  /\ audit'[x] = Append(audit[x], [logger |-> log, status |-> s])
         /\ \A d \in Calls : d # x => audit'[d] = audit[d]
<1> DEFINE e == [logger |-> log, status |-> s]
           new == [i \in DOMAIN <<s>> |-> [logger |-> log, status |-> <<s>>[i]]]
<1>1. new = <<e>>
  OBVIOUS
<1>2. audit'[x] = audit[x] \o new /\ \A d \in Calls : d # x => audit'[d] = audit[d]
  BY DEF Audit, TypeOK
<1>3. audit[x] \in Seq(Entries) /\ e \in Entries
  BY DEF TypeOK, Entries
<1> HIDE DEF e, new
<1>4. audit[x] \o <<e>> = Append(audit[x], e)
  BY <1>3
<1> QED
  BY <1>1, <1>2, <1>4 DEF e

------------------------------------------------------------------------------
(* The trail: the inductive invariant *)

\* What AuditIsALegalWalk says of one call.
TrailOf(c) == audit[c] # <<>> => Walk(audit[c]) /\ Ending(audit[c]) = TrailStatus(c)

\* A call has no trail before it is made, and one when it holds its key.
TrailsStart ==
  \A c \in Calls : /\ pc[c] = "idle" => audit[c] = <<>>
                   /\ Holding(c) => audit[c] # <<>>

\* The execution a record belongs to has a trail.
RecordsHaveTrails == \A k \in Keys : Stored(k) => audit[records[k].execution] # <<>>

TrailInvariant == (\A c \in Calls : TrailOf(c)) /\ TrailsStart /\ RecordsHaveTrails

LEMMA TrailInit == Init => TrailInvariant
BY DEF Init, TrailInvariant, TrailOf, TrailsStart, RecordsHaveTrails, Holding, Stored

\* A step that leaves calls, records and trails alone.
LEMMA TrailFrame ==
  ASSUME TrailInvariant, UNCHANGED <<pc, request, records, audit>>
  PROVE  TrailInvariant'
BY DEF TrailInvariant, TrailOf, TrailsStart, RecordsHaveTrails, Holding, Stored, TrailStatus,
       KeyOfCall

\* A call that is refused, replayed or in conflict, and one that is cancelled, leave no
\* entry, and no status changes.
LEMMA SilentCall ==
  ASSUME TypeOK, TrailInvariant, NEW c \in Calls, UNCHANGED <<records, audit>>,
         \/ \E r \in Requests, to \in {"refused", "replayed", "conflict"} : Enter(c, r, to)
         \/ Cancel(c)
  PROVE  TrailInvariant'
<1>1. ASSUME NEW d \in Calls, d # c
      PROVE  pc'[d] = pc[d] /\ request'[d] = request[d]
  BY <1>1 DEF Enter, Cancel, service, TypeOK
<1>2. \/ pc[c] = "idle" /\ pc'[c] \in {"refused", "replayed", "conflict"}
      \/ pc[c] = "awaiting" /\ pc'[c] = "cancelled" /\ request'[c] = request[c]
  BY DEF Enter, Cancel, TypeOK
<1>3. ASSUME NEW d \in Calls
      PROVE  TrailOf(d)'
  <2>1. CASE d # c
    <3>1. TrailStatus(d)' = TrailStatus(d)
      BY <1>1, <2>1 DEF TrailStatus, KeyOfCall, Stored
    <3> QED
      BY <3>1 DEF TrailInvariant, TrailOf
  <2>2. CASE d = c /\ pc[c] = "idle"
    BY <2>2 DEF TrailInvariant, TrailOf, TrailsStart
  <2>3. CASE d = c /\ pc[c] # "idle"
    <3>1. TrailStatus(d)' = TrailStatus(d)
      BY <1>2, <2>3 DEF TrailStatus
    <3> QED
      BY <3>1 DEF TrailInvariant, TrailOf
  <2> QED
    BY <2>1, <2>2, <2>3
<1>4. TrailsStart'
  BY <1>1, <1>2 DEF TrailInvariant, TrailsStart, Holding
<1>5. RecordsHaveTrails'
  BY DEF TrailInvariant, RecordsHaveTrails, Stored
<1> QED
  BY <1>3, <1>4, <1>5 DEF TrailInvariant

\* Dispatching starts the trail: started, and requested of the provider.
LEMMA DispatchTrail ==
  ASSUME TypeOK, TrailInvariant, NEW c \in Calls, NEW r \in Requests, Dispatch(c, r)
  PROVE  TrailInvariant'
<1> DEFINE steps == <<"EXECUTION_STARTED", "PROVIDER_REQUESTED">>
           new == [i \in DOMAIN steps |-> [logger |-> "service", status |-> steps[i]]]
           a == [logger |-> "service", status |-> "EXECUTION_STARTED"]
           b == [logger |-> "service", status |-> "PROVIDER_REQUESTED"]
<1>1. /\ pc[c] = "idle" /\ pc'[c] = "awaiting" /\ records' = records
      /\ CanTransition("EXECUTION_STARTED", "PROVIDER_REQUESTED")
      /\ \A d \in Calls : d # c => pc'[d] = pc[d] /\ request'[d] = request[d]
                                   /\ audit'[d] = audit[d]
  BY DEF Dispatch, Enter, Audit, TypeOK
<1>2. audit'[c] = audit[c] \o new
  BY DEF Dispatch, Audit, TypeOK
<1>3. audit[c] = <<>>
  BY <1>1 DEF TrailInvariant, TrailsStart
<1>4. new = <<a, b>>
  OBVIOUS
<1>5. a.status = "EXECUTION_STARTED" /\ b.status = "PROVIDER_REQUESTED"
  OBVIOUS
<1> HIDE DEF new, a, b
<1>6. <<>> \o <<a, b>> = <<a, b>>
  OBVIOUS
<1>7. audit'[c] = <<a, b>>
  BY <1>2, <1>3, <1>4, <1>6
<1>8. Walk(<<a, b>>) /\ Ending(<<a, b>>) = "PROVIDER_REQUESTED"
  <2>1. "EXECUTION_STARTED" \in LegalTransitions["AUTHORIZED"]
    BY DEF LegalTransitions, ExecutionStatus
  <2>2. Len(<<a, b>>) = 2 /\ <<a, b>>[1] = a /\ <<a, b>>[2] = b /\ <<a, b>> # <<>>
    OBVIOUS
  <2>3. \A i \in 1 .. 2 - 1 : i = 1 /\ i + 1 = 2
    OBVIOUS
  <2> QED
    BY <1>1, <1>5, <2>1, <2>2, <2>3 DEF Walk, Ending
<1>9. ASSUME NEW d \in Calls
      PROVE  TrailOf(d)'
  <2>1. CASE d # c
    <3>1. TrailStatus(d)' = TrailStatus(d)
      BY <1>1, <2>1 DEF TrailStatus, KeyOfCall, Stored
    <3> QED
      BY <1>1, <2>1, <3>1 DEF TrailInvariant, TrailOf
  <2>2. CASE d = c
    <3>1. TrailStatus(c)' = "PROVIDER_REQUESTED"
      BY <1>1 DEF TrailStatus
    <3> QED
      BY <1>7, <1>8, <2>2, <3>1 DEF TrailOf
  <2> QED
    BY <2>1, <2>2
<1>10. audit'[c] # <<>>
  BY <1>7
<1>11. TrailsStart'
  BY <1>1, <1>10 DEF TrailInvariant, TrailsStart, Holding
<1>12. RecordsHaveTrails'
  BY <1>1, <1>10 DEF TrailInvariant, RecordsHaveTrails, Stored, TypeOK, Records
<1> QED
  BY <1>9, <1>11, <1>12 DEF TrailInvariant

\* A deferral, an answer and a reconciliation store a status and audit it.
LEMMA StoredAndAudited ==
  ASSUME TypeOK, TrailInvariant, NEW c \in Calls, NEW k \in Keys, NEW s \in ExecutionStatus,
         NEW e \in Entries, e.status = s,
         audit'[c] = Append(audit[c], e),
         \A d \in Calls : d # c => audit'[d] = audit[d] /\ TrailStatus(d)' = TrailStatus(d)
                                     /\ pc'[d] = pc[d],
         pc'[c] = "returned", \A q \in Keys : q # k => records'[q] = records[q],
         KeyOfCall(c)' = k, Stored(k)', records'[k].execution = c, records'[k].status = s,
         IF audit[c] = <<>> THEN s \in LegalTransitions["AUTHORIZED"]
                            ELSE CanTransition(TrailStatus(c), s)
  PROVE  TrailInvariant'
<1>1. audit[c] \in Seq(Entries)
  BY DEF TypeOK, Entries
<1>2. audit'[c] # <<>>
  BY <1>1
<1>3. TrailStatus(c)' = s
  BY DEF TrailStatus
<1>4. Walk(audit'[c]) /\ Ending(audit'[c]) = s
  <2>1. CASE audit[c] = <<>>
    <3>1. Append(<<>>, e) = <<e>>
      OBVIOUS
    <3>2. Len(<<e>>) = 1 /\ <<e>>[1] = e /\ <<e>> # <<>>
      OBVIOUS
    <3>3. Len(<<e>>) - 1 = 0 /\ 1 .. 0 = {}
      BY <3>2
    <3> QED
      BY <2>1, <3>1, <3>2, <3>3 DEF Walk, Ending
  <2>2. CASE audit[c] # <<>>
    <3>1. Walk(audit[c]) /\ Ending(audit[c]) = TrailStatus(c)
      BY <2>2 DEF TrailInvariant, TrailOf
    <3> QED
      BY <1>1, <2>2, <3>1, WalkGoesOn
  <2> QED
    BY <2>1, <2>2
<1>5. ASSUME NEW d \in Calls
      PROVE  TrailOf(d)'
  <2>1. CASE d # c
    BY <2>1 DEF TrailInvariant, TrailOf
  <2>2. CASE d = c
    BY <1>3, <1>4, <2>2 DEF TrailOf
  <2> QED
    BY <2>1, <2>2
<1>6. TrailsStart'
  BY <1>2 DEF TrailInvariant, TrailsStart, Holding
<1>7. RecordsHaveTrails'
  <2> SUFFICES ASSUME NEW q \in Keys, Stored(q)'
               PROVE  audit'[records'[q].execution] # <<>>
    BY DEF RecordsHaveTrails
  <2>1. CASE q = k
    BY <1>2, <2>1
  <2>2. CASE q # k
    <3>1. Stored(q) /\ records'[q] = records[q]
      BY <2>2 DEF Stored
    <3>2. records[q].execution \in Calls /\ audit[records[q].execution] # <<>>
      BY <3>1 DEF TrailInvariant, RecordsHaveTrails, Stored, TypeOK, Records
    <3> QED
      BY <1>2, <3>1, <3>2
  <2> QED
    BY <2>1, <2>2
<1> QED
  BY <1>5, <1>6, <1>7 DEF TrailInvariant

\* A new record under a free key changes the status of no call but its own.
LEMMA OthersKeepTheirStatus ==
  ASSUME TypeOK, NEW c \in Calls, NEW k \in Keys, NEW d \in Calls, d # c, ~Stored(k),
         pc'[d] = pc[d], request'[d] = request[d],
         \A q \in Keys : q # k => records'[q] = records[q],
         records'[k].execution = c
  PROVE  TrailStatus(d)' = TrailStatus(d)
<1>1. CASE pc[d] # "returned"
  BY <1>1 DEF TrailStatus
<1>2. CASE pc[d] = "returned"
  <2>1. KeyOfCall(d)' = KeyOfCall(d) /\ KeyOfCall(d) \in Keys
    BY <1>2, KeyOfCallType DEF KeyOfCall
  <2>2. CASE KeyOfCall(d) = k
    BY <2>1, <2>2 DEF TrailStatus
  <2>3. CASE KeyOfCall(d) # k
    BY <2>1, <2>3 DEF TrailStatus, Stored
  <2> QED
    BY <2>2, <2>3
<1> QED
  BY <1>1, <1>2

\* A deferral is the only entry of its trail (service.py 185-212).
LEMMA DeferTrail ==
  ASSUME TypeOK, TrailInvariant, NEW c \in Calls, NEW r \in Requests, Defer(c, r)
  PROVE  TrailInvariant'
<1> DEFINE k == KeyOf(r)
           rec == NewRecord(c, r, "DEFERRED", NoRef)
           e == [logger |-> "service", status |-> "DEFERRED"]
<1>0. "DEFERRED" \in ExecutionStatus /\ "service" \in Loggers
  BY DEF ExecutionStatus, Loggers
<1>1. k \in Keys /\ ~Stored(k)
  BY DEF Keys, Defer, StartExecution
<1>2. /\ pc[c] = "idle" /\ pc'[c] = "returned" /\ request'[c] = r
      /\ \A d \in Calls : d # c => pc'[d] = pc[d] /\ request'[d] = request[d]
  BY DEF Defer, Enter, TypeOK
<1>3. records'[k] = rec /\ \A q \in Keys : q # k => records'[q] = records[q]
  BY <1>1 DEF Defer, CompleteExecution, TypeOK
<1>4. rec # NoRecord /\ rec.execution = c /\ rec.status = "DEFERRED"
  BY <1>0, NewRecordType DEF NewRecord
<1>5. audit'[c] = Append(audit[c], e) /\ \A d \in Calls : d # c => audit'[d] = audit[d]
  BY <1>0, OneEntry DEF Defer
<1>6. audit[c] = <<>>
  BY <1>2 DEF TrailInvariant, TrailsStart
<1>7. "DEFERRED" \in LegalTransitions["AUTHORIZED"]
  BY DEF LegalTransitions, ExecutionStatus
<1>8. e \in Entries /\ e.status = "DEFERRED"
  BY <1>0 DEF Entries
<1>9. KeyOfCall(c)' = k /\ Stored(k)'
  BY <1>2, <1>3, <1>4 DEF KeyOfCall, Stored, NoRecord
<1> HIDE DEF k, rec, e
<1>10. \A d \in Calls : d # c => TrailStatus(d)' = TrailStatus(d)
  BY <1>1, <1>2, <1>3, <1>4, OthersKeepTheirStatus
<1> QED
  BY <1>0, <1>1, <1>2, <1>3, <1>4, <1>5, <1>6, <1>7, <1>8, <1>9, <1>10, StoredAndAudited

\* An answer follows the request to the provider (service.py 254-330).
LEMMA RespondTrail ==
  ASSUME TypeOK, LockLedger, TrailInvariant, NEW c \in Calls, Respond(c)
  PROVE  TrailInvariant'
<1>0. PICK k \in Keys : k = KeyOfCall(c)
  BY KeyOfCallType DEF Respond
<1>1. /\ pc[c] = "awaiting" /\ pc'[c] = "returned" /\ request' = request
      /\ \A d \in Calls : d # c => pc'[d] = pc[d] /\ request'[d] = request[d]
  BY DEF Respond, TypeOK
<1>2. request[c] \in Requests /\ Holding(c)
  BY <1>1, KeyOfCallType DEF Holding
<1>3. ~Stored(k)
  BY <1>0, <1>2 DEF LockLedger
<1>4. PICK resp \in Responses(c) :
        /\ CanTransition("PROVIDER_REQUESTED", StatusOfResponse(resp.normalized))
        /\ CompleteExecution(k, NewRecord(c, request[c], StatusOfResponse(resp.normalized),
                                          resp.ref))
        /\ Audit("service", c, <<StatusOfResponse(resp.normalized)>>)
  BY <1>0 DEF Respond
<1> DEFINE s == StatusOfResponse(resp.normalized)
           rec == NewRecord(c, request[c], s, resp.ref)
           e == [logger |-> "service", status |-> s]
<1>5. s \in ExecutionStatus /\ "service" \in Loggers
  BY ResponseStatus DEF ExecutionStatus, Loggers
<1>6. resp.ref \in {NoRef} \cup {OrderRef(d) : d \in Calls} \cup {LocalRef(q) : q \in Keys}
  BY <1>0, <1>2, ResponseRef
<1>7. rec # NoRecord /\ rec.execution = c /\ rec.status = s
  <2> HIDE DEF s
  <2>1. rec # NoRecord
    BY <1>2, <1>5, <1>6, NewRecordType
  <2> QED
    BY <2>1 DEF NewRecord
<1>8. records'[k] = rec /\ \A q \in Keys : q # k => records'[q] = records[q]
  BY <1>2, <1>4 DEF CompleteExecution, TypeOK
<1>9. CanTransition("PROVIDER_REQUESTED", s) /\ Audit("service", c, <<s>>)
  BY <1>4
<1> HIDE DEF s
<1>10. audit'[c] = Append(audit[c], e) /\ \A d \in Calls : d # c => audit'[d] = audit[d]
  BY <1>5, <1>9, OneEntry
<1>11. audit[c] # <<>>
  BY <1>2 DEF TrailInvariant, TrailsStart
<1>12. TrailStatus(c) = "PROVIDER_REQUESTED"
  BY <1>1 DEF TrailStatus
<1>13. e \in Entries /\ e.status = s
  BY <1>5 DEF Entries
<1>14. KeyOfCall(c)' = k /\ Stored(k)'
  BY <1>0, <1>1, <1>7, <1>8 DEF KeyOfCall, Stored, NoRecord
<1> HIDE DEF rec, e
<1>15. \A d \in Calls : d # c => TrailStatus(d)' = TrailStatus(d)
  BY <1>1, <1>2, <1>3, <1>7, <1>8, OthersKeepTheirStatus
<1>16. CanTransition(TrailStatus(c), s)
  BY <1>9, <1>12
<1> QED
  BY <1>1, <1>2, <1>5, <1>7, <1>8, <1>10, <1>11, <1>13, <1>14, <1>15, <1>16, StoredAndAudited

\* A reconciliation continues the trail of the execution whose record it changes, from
\* the status the record has (webhook.py 120-158).
LEMMA ReconcileTrail ==
  ASSUME TypeOK, RecordBelongsToItsExecution, TrailInvariant, NEW h \in Handlers, NEW e,
         NEW k \in Keys, Reconcile(h, e, k)
  PROVE  TrailInvariant'
<1>0. PICK c \in Calls : c = records[k].execution
  <2>1. Stored(k)
    BY DEF Reconcile, Matches
  <2> QED
    BY <2>1 DEF TypeOK, Stored, Records
<1> DEFINE s == StatusOfEvent(e.type)
           entry == [logger |-> h, status |-> s]
<1>1. Stored(k) /\ CanTransition(records[k].status, s) /\ Audit(h, c, <<s>>) /\ s # "IGNORED"
  BY <1>0 DEF Reconcile, Matches, Reconciles
<1>2. records' = [records EXCEPT ![k].status = s] /\ pc' = pc /\ request' = request
  BY DEF Reconcile, SetStatus, service
<1>3. s \in ExecutionStatus /\ h \in Loggers
  BY <1>1 DEF StatusOfEvent, ExecutionStatus, Loggers
<1>4. records[k] \in Records
  BY <1>1 DEF TypeOK, Stored, Records
<1>5. pc[c] = "returned" /\ KeyOfCall(c) = k
  BY <1>0, <1>1 DEF RecordBelongsToItsExecution
<1>6. TrailStatus(c) = records[k].status
  BY <1>0, <1>1, <1>5 DEF TrailStatus
<1>7. audit[c] # <<>>
  BY <1>0, <1>1 DEF TrailInvariant, RecordsHaveTrails
<1>8. /\ records'[k].execution = c /\ records'[k].status = s
      /\ records'[k] # NoRecord
      /\ \A q \in Keys : q # k => records'[q] = records[q]
  <2>1. records'[k] = [records[k] EXCEPT !.status = s]
    BY <1>2 DEF TypeOK
  <2>2. \A q \in Keys : q # k => records'[q] = records[q]
    BY <1>2 DEF TypeOK
  <2> HIDE DEF s
  <2>3. records'[k].execution = c /\ records'[k].status = s
    BY <1>0, <1>4, <2>1 DEF Records
  <2>4. s # "ABSENT"
    BY <1>3 DEF ExecutionStatus
  <2> QED
    BY <2>2, <2>3, <2>4 DEF NoRecord
<1> HIDE DEF s
<1>9. audit'[c] = Append(audit[c], entry) /\ \A d \in Calls : d # c => audit'[d] = audit[d]
  BY <1>1, <1>3, OneEntry
<1>10. entry \in Entries /\ entry.status = s
  BY <1>3 DEF Entries
<1>11. KeyOfCall(c)' = k /\ Stored(k)' /\ pc'[c] = "returned"
  BY <1>2, <1>5, <1>8 DEF KeyOfCall, Stored, NoRecord
<1> HIDE DEF entry
<1>12. ASSUME NEW d \in Calls, d # c
       PROVE  TrailStatus(d)' = TrailStatus(d)
  <2>1. pc'[d] = pc[d] /\ KeyOfCall(d)' = KeyOfCall(d)
    BY <1>2 DEF KeyOfCall
  <2>2. CASE pc[d] # "returned"
    BY <2>1, <2>2 DEF TrailStatus
  <2>3. CASE pc[d] = "returned" /\ KeyOfCall(d) = k
    BY <1>0, <1>8, <1>12, <2>1, <2>3 DEF TrailStatus
  <2>4. CASE pc[d] = "returned" /\ KeyOfCall(d) # k
    <3>1. KeyOfCall(d) \in Keys
      BY <2>4, KeyOfCallType
    <3> QED
      BY <1>8, <2>1, <2>4, <3>1 DEF TrailStatus, Stored
  <2> QED
    BY <2>2, <2>3, <2>4
<1>13. CanTransition(TrailStatus(c), s)
  BY <1>1, <1>6
<1> QED
  BY <1>2, <1>3, <1>7, <1>8, <1>9, <1>10, <1>11, <1>12, <1>13, StoredAndAudited

\* A restart forgets the trails with the records.
LEMMA RestartTrail ==
  ASSUME TypeOK, Restart
  PROVE  TrailInvariant'
<1>1. \A c \in Calls : audit'[c] = <<>>
  BY DEF Restart
<1>2. \A k \in Keys : ~Stored(k)'
  BY DEF Restart, Stored
<1>3. \A c \in Calls : ~Holding(c)'
  BY DEF Restart, Holding, TypeOK
<1> QED
  BY <1>1, <1>2, <1>3 DEF TrailInvariant, TrailOf, TrailsStart, RecordsHaveTrails

\* Every step of every actor keeps the trails legal.
LEMMA TrailStep ==
  ASSUME ExecutionInvariant, TrailInvariant, [Next]_vars
  PROVE  TrailInvariant'
<1>1. TypeOK /\ LockLedger /\ RecordBelongsToItsExecution
  BY DEF ExecutionInvariant, DispatchInvariant
<1>2. ASSUME NEW c \in Calls, NEW r \in Requests, ExecuteRecovery(c, r)
      PROVE  TrailInvariant'
  <2>1. CASE Refuse(c, r) \/ Replay(c, r) \/ Conflict(c, r)
    <3>1. UNCHANGED <<records, audit>>
      BY <2>1 DEF Refuse, Replay, Conflict, manager
    <3>2. \E to \in {"refused", "replayed", "conflict"} : Enter(c, r, to)
      BY <2>1 DEF Refuse, Replay, Conflict
    <3> QED
      BY <1>1, <3>1, <3>2, SilentCall
  <2>2. CASE Defer(c, r)
    BY <1>1, <2>2, DeferTrail
  <2>3. CASE Dispatch(c, r)
    BY <1>1, <2>3, DispatchTrail
  <2> QED
    BY <1>2, <2>1, <2>2, <2>3 DEF ExecuteRecovery
<1>3. ASSUME NEW c \in Calls, Respond(c)
      PROVE  TrailInvariant'
  BY <1>1, <1>3, RespondTrail
<1>4. ASSUME NEW c \in Calls, Cancel(c)
      PROVE  TrailInvariant'
  <2>1. UNCHANGED <<records, audit>>
    BY <1>4 DEF Cancel, manager
  <2> QED
    BY <1>1, <1>4, <2>1, SilentCall
<1>5. CASE Restart
  BY <1>1, <1>5, RestartTrail
<1>6. ASSUME NEW h \in Handlers, NEW e, NEW k \in Keys, Reconcile(h, e, k)
      PROVE  TrailInvariant'
  BY <1>1, <1>6, ReconcileTrail
<1>7. CASE UNCHANGED <<pc, request, records, audit>>
  BY <1>7, TrailFrame
<1>8. ASSUME NEW c \in Calls, OpenOrder(c) \/ \E shape \in EventShapes : Emit(c, shape)
      PROVE  UNCHANGED <<pc, request, records, audit>>
  BY <1>8 DEF OpenOrder, Emit, service, manager
<1>9. ASSUME NEW h \in Handlers, NEW e, Deliver(h, e)
      PROVE  \/ UNCHANGED <<pc, request, records, audit>>
             \/ \E k \in Keys : Reconcile(h, e, k)
  BY <1>9 DEF Deliver, RejectUnverified, ReplayEvent, NoMatch, LeaveRecord, service, manager
<1>10. UNCHANGED vars => UNCHANGED <<pc, request, records, audit>>
  BY DEF vars, service, manager
<1> QED
  BY <1>2, <1>3, <1>4, <1>5, <1>6, <1>7, <1>8, <1>9, <1>10 DEF Next

------------------------------------------------------------------------------
(* The trail: the theorems *)

\* The invariant of the trails holds in every behaviour.
THEOREM TrailInvariantHolds == Spec => []TrailInvariant
<1>1. Init => TrailInvariant
  BY TrailInit
<1>2. ExecutionInvariant /\ TrailInvariant /\ [Next]_vars => TrailInvariant'
  BY TrailStep
<1>3. QED
  BY <1>1, <1>2, ExecutionInvariantHolds, PTL DEF Spec

\* The audit entries of every execution, whoever wrote them, are a legal walk along the
\* transition table that ends in the status its record has now.
THEOREM AuditTrailsAreLegalWalks == Spec => []AuditIsALegalWalk
<1>1. TrailInvariant => AuditIsALegalWalk
  BY DEF TrailInvariant, TrailOf, Walk, Ending, AuditIsALegalWalk
<1>2. QED
  BY <1>1, TrailInvariantHolds, PTL

------------------------------------------------------------------------------
(* The promise: the invariant *)

\* The statuses a record can come to be stored with.
Reached == {"DEFERRED", "SUCCEEDED", "FAILED", "UNKNOWN_PROVIDER_STATE", "RECONCILED"}

StatusesAreReached == \A k \in Keys : Stored(k) => records[k].status \in Reached

PromiseInvariant == ExecutionInvariant /\ StatusesAreReached

\* No step stores another status, whichever of the ways of a record it takes.
LEMMA ReachedStep ==
  ASSUME DispatchInvariant, StatusesAreReached, [Next]_vars
  PROVE  StatusesAreReached'
<1> SUFFICES ASSUME NEW k \in Keys, Stored(k)' PROVE records'[k].status \in Reached
  BY DEF StatusesAreReached, Keys, KeyOf, DeriveExecutionIdempotencyKey, NoKey
<1>1. CASE Unchanged(k)
  BY <1>1 DEF Unchanged, StatusesAreReached, Stored, NoRecord
<1>2. CASE Lost(k)
  BY <1>2 DEF Lost, Stored, NoRecord
<1>3. CASE Deferred(k)
  BY <1>3 DEF Deferred, NewRecord, Reached
<1>4. CASE Answered(k)
  BY <1>4 DEF Answered, NewRecord, Reached
<1>5. CASE Reconciled(k)
  <2>1. records[k] \in Records
    BY <1>5 DEF Reconciled, Stored, DispatchInvariant, TypeOK
  <2> QED
    BY <1>5, <2>1 DEF Reconciled, Records, Reached
<1> QED
  BY <1>1, <1>2, <1>3, <1>4, <1>5, RecordSteps

\* The invariant of the execution layer, with the statuses of records confined to those.
THEOREM PromiseInvariantHolds == Spec => []PromiseInvariant
<1>1. Init => PromiseInvariant
  <2> SUFFICES ASSUME Init PROVE PromiseInvariant
    OBVIOUS
  <2>1. \A k \in Keys : ~Stored(k)
    BY DEF Init, Stored
  <2> QED
    BY <2>1, ExecutionInit DEF PromiseInvariant, StatusesAreReached
<1>2. PromiseInvariant /\ [Next]_vars => PromiseInvariant'
  BY ReachedStep, ExecutionStep DEF PromiseInvariant, ExecutionInvariant
<1> QED
  BY <1>1, <1>2, PTL DEF Spec

------------------------------------------------------------------------------
(* The promise: what it sees of a key *)

Charged(k) == {d \in dispatched : d.key = k}
Credited(k) == {f \in confirmations : f.key = k}

\* Nothing the promise sees of a key changes.
Same(k) ==
  /\ PhaseOf(k)' = PhaseOf(k)
  /\ Charged(k)' = Charged(k) /\ Credited(k)' = Credited(k)

\* One key moves, and no other.
Moves(k, from, to) ==
  /\ PhaseOf(k) = from /\ PhaseOf(k)' = to
  /\ \A q \in Keys \ {k} : Same(q)

\* Without a restart there is one life, and what was charged or credited before shows.
LEMMA OneLife ==
  ASSUME PromiseInvariant, MaxRestarts = 0, NEW k \in Keys
  PROVE  /\ life = 0
         /\ \A d \in dispatched : d.life = 0
         /\ \A f \in confirmations : f.life = 0
         /\ ~Stored(k) /\ k \notin inFlight => Charged(k) = {}
         /\ records[k].status # "RECONCILED" => Credited(k) = {}
<1> USE DEF PromiseInvariant, ExecutionInvariant, DispatchInvariant
<1>1. 0 .. 0 = {0}
  OBVIOUS
<1>2. life = 0 /\ \A d \in dispatched : d.life = 0 /\ d.call \in Calls
  BY <1>1 DEF TypeOK
<1>3. \A f \in confirmations : f.life = 0
  BY <1>1 DEF TypeOK
<1>4. ~Stored(k) /\ k \notin inFlight => Charged(k) = {}
  <2> SUFFICES ASSUME NEW d \in dispatched, d.key = k, ~Stored(k) PROVE k \in inFlight
    BY DEF Charged
  <2>1. Holding(d.call) /\ k = KeyOfCall(d.call)
    BY <1>2 DEF DispatchLedger
  <2> QED
    BY <1>2, <2>1 DEF LockLedger
<1>5. records[k].status # "RECONCILED" => Credited(k) = {}
  BY <1>2, <1>3 DEF ConfirmationLedger, Credited
<1> QED
  BY <1>2, <1>3, <1>4, <1>5

\* The moves of the promise, by what they change of their key.
LEMMA MovesAreSteps ==
  ASSUME NEW k \in Keys, NEW CONSTANT from, NEW CONSTANT to, Moves(k, from, to)
  PROVE  /\ Charged(k)' = Charged(k) /\ Credited(k)' = Credited(k)
              /\ <<from, to>> \in {<<"open", "parked">>, <<"pending", "unconfirmed">>,
                                   <<"pending", "closed">>, <<"unconfirmed", "closed">>}
            => Promise!PromiseNext
         /\ Charged(k) = {} /\ (\E d : Charged(k)' = {d}) /\ Credited(k)' = Credited(k)
              /\ from = "open" /\ to = "pending"
            => Promise!PromiseNext
         /\ Credited(k) = {} /\ (\E f : Credited(k)' = {f}) /\ Charged(k)' = Charged(k)
              /\ from = "unconfirmed" /\ to = "confirmed"
            => Promise!PromiseNext
<1> DEFINE Phase == [q \in Keys |-> PhaseOf(q)]
           Charges == [q \in Keys |-> Cardinality(Charged(q))]
           Credits == [q \in Keys |-> Cardinality(Credited(q))]
<1>1. Phase[k] = from /\ Phase' = [Phase EXCEPT ![k] = to]
  BY DEF Moves, Same
<1>2. Promise!Move(k, from, to)
  BY <1>1 DEF Promise!Move
<1>3. Charged(k)' = Charged(k) => Charges' = Charges
  BY DEF Moves, Same
<1>4. Credited(k)' = Credited(k) => Credits' = Credits
  BY DEF Moves, Same
<1>5. Cardinality({}) = 0 /\ \A x : Cardinality({x}) = 0 + 1
  BY FS_EmptySet, FS_Singleton
<1>6. Charged(k) = {} /\ (\E d : Charged(k)' = {d}) => Charges' = [Charges EXCEPT ![k] = @ + 1]
  BY <1>5 DEF Moves, Same
<1>7. Credited(k) = {} /\ (\E f : Credited(k)' = {f}) => Credits' = [Credits EXCEPT ![k] = @ + 1]
  BY <1>5 DEF Moves, Same
<1> HIDE DEF Phase
<1>8. /\ (UNCHANGED <<Charges, Credits>> /\ <<from, to>> = <<"open", "parked">>
            => Promise!Park(k))
      /\ (UNCHANGED <<Charges, Credits>> /\ <<from, to>> = <<"pending", "unconfirmed">>
            => Promise!Settle(k))
      /\ (UNCHANGED <<Charges, Credits>> /\ <<from, to>> = <<"pending", "closed">>
            => Promise!Settle(k))
      /\ (UNCHANGED <<Charges, Credits>> /\ <<from, to>> = <<"unconfirmed", "closed">>
            => Promise!Close(k))
  BY <1>2 DEF Charged, Credited, Promise!Park, Promise!Settle, Promise!Close
<1>9. Charges' = [Charges EXCEPT ![k] = @ + 1] /\ Credits' = Credits
        /\ from = "open" /\ to = "pending" => Promise!Charge(k)
  BY <1>2 DEF Charged, Credited, Promise!Charge
<1>10. Credits' = [Credits EXCEPT ![k] = @ + 1] /\ Charges' = Charges
        /\ from = "unconfirmed" /\ to = "confirmed" => Promise!Credit(k)
  BY <1>2 DEF Charged, Credited, Promise!Credit
<1> HIDE DEF Charges, Credits
<1> QED
  BY <1>3, <1>4, <1>6, <1>7, <1>8, <1>9, <1>10 DEF Promise!PromiseNext

LEMMA NothingMoves ==
  ASSUME \A q \in Keys : Same(q)
  PROVE  UNCHANGED Promise!promise
BY DEF Same, Charged, Credited, Promise!promise

------------------------------------------------------------------------------
(* The promise: the steps *)

\* A key whose record and lock stay as they are does not move.
LEMMA KeyStays ==
  ASSUME PromiseInvariant, NEW k \in Keys,
         records'[k] = records[k], k \in inFlight' <=> k \in inFlight
  PROVE  PhaseOf(k)' = PhaseOf(k)
<1>1. Stored(k)' <=> Stored(k)
  BY DEF Stored, NoRecord
<1>2. Stored(k) => records[k].status \in Reached
  BY DEF PromiseInvariant, StatusesAreReached
<1> QED
  BY <1>1, <1>2 DEF PhaseOf, Reached

\* RETRY_LATER parks a key nobody used.
LEMMA DeferMoves ==
  ASSUME PromiseInvariant, NEW c \in Calls, NEW r \in Requests, Defer(c, r)
  PROVE  /\ Moves(KeyOf(r), "open", "parked") /\ KeyOf(r) \in Keys
         /\ UNCHANGED <<dispatched, confirmations>>
<1>1. PICK k \in Keys : k = KeyOf(r)
  BY DEF Keys
<1>2. /\ ~Stored(k) /\ k \notin inFlight /\ inFlight' = inFlight \ {k}
      /\ records' = [records EXCEPT ![k] = NewRecord(c, r, "DEFERRED", NoRef)]
      /\ UNCHANGED <<dispatched, confirmations>>
  BY <1>1 DEF Defer, StartExecution, CompleteExecution
<1>3. records \in [Keys -> Records \cup {NoRecord}]
  BY DEF PromiseInvariant, ExecutionInvariant, DispatchInvariant, TypeOK
<1>4. PhaseOf(k) = "open"
  BY <1>2 DEF PhaseOf
<1>5. PhaseOf(k)' = "parked"
  <2>1. records'[k].status = "DEFERRED"
    BY <1>2, <1>3 DEF NewRecord
  <2>2. Stored(k)'
    BY <2>1 DEF Stored, NoRecord
  <2> QED
    BY <1>2, <2>1, <2>2 DEF PhaseOf
<1>6. ASSUME NEW q \in Keys \ {k}
      PROVE  Same(q)
  BY <1>2, <1>3, KeyStays DEF Same, Charged, Credited
<1> QED
  BY <1>1, <1>2, <1>4, <1>5, <1>6 DEF Moves

\* Any other action charges a key nobody used.
LEMMA DispatchMoves ==
  ASSUME PromiseInvariant, MaxRestarts = 0, NEW c \in Calls, NEW r \in Requests, Dispatch(c, r)
  PROVE  /\ Moves(KeyOf(r), "open", "pending") /\ KeyOf(r) \in Keys
         /\ Charged(KeyOf(r)) = {} /\ \E d : Charged(KeyOf(r))' = {d}
         /\ UNCHANGED confirmations
<1>1. PICK k \in Keys : k = KeyOf(r)
  BY DEF Keys
<1> DEFINE new == [call |-> c, key |-> k, life |-> life]
<1>2. /\ ~Stored(k) /\ k \notin inFlight /\ inFlight' = inFlight \cup {k}
      /\ dispatched' = dispatched \cup {new}
      /\ UNCHANGED <<records, confirmations>>
  BY <1>1 DEF Dispatch, StartExecution
<1>3. new.key = k
  OBVIOUS
<1> HIDE DEF new
<1>4. PhaseOf(k) = "open" /\ PhaseOf(k)' = "pending"
  BY <1>2 DEF PhaseOf
<1>5. Charged(k) = {}
  BY <1>2, OneLife
<1>6. Charged(k)' = {new}
  BY <1>2, <1>3, <1>5 DEF Charged
<1>7. ASSUME NEW q \in Keys \ {k}
      PROVE  Same(q)
  <2>1. PhaseOf(q)' = PhaseOf(q)
    BY <1>2, KeyStays
  <2> QED
    BY <1>2, <1>3, <2>1 DEF Same, Charged, Credited
<1> QED
  BY <1>1, <1>2, <1>4, <1>5, <1>6, <1>7 DEF Moves

\* The answer settles the key.
LEMMA RespondMoves ==
  ASSUME PromiseInvariant, NEW c \in Calls, Respond(c)
  PROVE  /\ UNCHANGED <<dispatched, confirmations>>
         /\ \E k \in Keys : Moves(k, "pending", "unconfirmed") \/ Moves(k, "pending", "closed")
<1> USE DEF PromiseInvariant, ExecutionInvariant, DispatchInvariant
<1>1. PICK k \in Keys : k = KeyOfCall(c)
  BY KeyOfCallType DEF Respond
<1>2. PICK resp \in Responses(c) :
        CompleteExecution(k, NewRecord(c, request[c], StatusOfResponse(resp.normalized), resp.ref))
  BY <1>1 DEF Respond
<1> DEFINE status == StatusOfResponse(resp.normalized)
<1>3. status \in {"SUCCEEDED", "FAILED", "UNKNOWN_PROVIDER_STATE"}
  BY ResponseStatus
<1>4. /\ records' = [records EXCEPT ![k] = NewRecord(c, request[c], status, resp.ref)]
      /\ inFlight' = inFlight \ {k} /\ UNCHANGED <<dispatched, confirmations>>
  BY <1>2 DEF CompleteExecution, Respond
<1>5. records \in [Keys -> Records \cup {NoRecord}]
  BY DEF TypeOK
<1> HIDE DEF status
<1>6. PhaseOf(k) = "pending"
  <2>1. k \in inFlight
    BY <1>1 DEF LockLedger, Holding, Respond
  <2> QED
    BY <2>1 DEF PhaseOf
<1>7. PhaseOf(k)' = IF status = "FAILED" THEN "closed" ELSE "unconfirmed"
  <2>1. records'[k].status = status
    BY <1>4, <1>5 DEF NewRecord
  <2>2. Stored(k)' /\ k \notin inFlight'
    BY <1>3, <1>4, <2>1 DEF Stored, NoRecord
  <2> QED
    BY <1>3, <2>1, <2>2 DEF PhaseOf
<1>8. ASSUME NEW q \in Keys \ {k}
      PROVE  Same(q)
  BY <1>4, <1>5, KeyStays DEF Same, Charged, Credited
<1>9. Moves(k, "pending", "closed") \/ Moves(k, "pending", "unconfirmed")
  BY <1>6, <1>7, <1>8 DEF Moves
<1> QED
  BY <1>4, <1>9

\* A webhook credits or closes an unconfirmed key.
LEMMA ReconcileMoves ==
  ASSUME PromiseInvariant, MaxRestarts = 0,
         NEW h \in Handlers, NEW e \in events, NEW k \in Keys, Reconcile(h, e, k)
  PROVE  /\ UNCHANGED dispatched
         /\ \/ Moves(k, "unconfirmed", "closed") /\ UNCHANGED confirmations
            \/ /\ Moves(k, "unconfirmed", "confirmed")
               /\ Credited(k) = {} /\ \E f : Credited(k)' = {f}
<1> USE DEF PromiseInvariant, ExecutionInvariant, DispatchInvariant
<1> DEFINE status == StatusOfEvent(e.type)
           new == [key |-> k, event |-> e.id, handler |-> h, life |-> life,
                   execution |-> records[k].execution, amount |-> records[k].amount]
<1>1. /\ Stored(k) /\ CanTransition(records[k].status, status)
      /\ status \in {"RECONCILED", "FAILED"}
      /\ records' = [records EXCEPT ![k].status = status]
      /\ UNCHANGED <<inFlight, dispatched>>
      /\ confirmations' = IF status = "RECONCILED" THEN confirmations \cup {new}
                                                   ELSE confirmations
  BY DEF Reconcile, Reconciles, Matches, SetStatus, StatusOfEvent, Confirm
<1>2. new.key = k
  OBVIOUS
<1> HIDE DEF status, new
<1>3. records \in [Keys -> Records \cup {NoRecord}] /\ records[k] \in Records
  BY <1>1 DEF TypeOK, Stored
<1>4. records[k].status \in {"SUCCEEDED", "UNKNOWN_PROVIDER_STATE"}
  <2>1. records[k].status \in Reached
    BY <1>1 DEF StatusesAreReached
  <2> QED
    BY <1>1, <2>1 DEF Reached, CanTransition, LegalTransitions, ExecutionStatus
<1>5. k \notin inFlight
  BY <1>1 DEF LockLedger
<1>6. PhaseOf(k) = "unconfirmed"
  BY <1>1, <1>4, <1>5 DEF PhaseOf
<1>7. PhaseOf(k)' = IF status = "RECONCILED" THEN "confirmed" ELSE "closed"
  <2>1. records'[k].status = status
    BY <1>1, <1>3 DEF Records
  <2>2. Stored(k)'
    BY <1>1, <2>1 DEF Stored, NoRecord
  <2> QED
    BY <1>1, <1>5, <2>1, <2>2 DEF PhaseOf
<1>8. ASSUME NEW q \in Keys \ {k}
      PROVE  Same(q)
  <2>1. PhaseOf(q)' = PhaseOf(q)
    BY <1>1, <1>3, KeyStays
  <2> QED
    BY <1>1, <1>2, <2>1 DEF Same, Charged, Credited
<1>9. CASE status = "FAILED"
  BY <1>1, <1>6, <1>7, <1>8, <1>9 DEF Moves
<1>10. CASE status = "RECONCILED"
  <2>1. Credited(k) = {}
    BY <1>4, OneLife
  <2>2. Credited(k)' = {new}
    BY <1>1, <1>2, <1>10, <2>1 DEF Credited
  <2>3. Moves(k, "unconfirmed", "confirmed")
    BY <1>6, <1>7, <1>8, <1>10 DEF Moves
  <2> QED
    BY <1>1, <2>1, <2>2, <2>3
<1> QED
  BY <1>1, <1>9, <1>10

\* All other steps leave records, locks, requests to the provider and confirmations alone.
LEMMA OtherSteps ==
  ASSUME PromiseInvariant, UNCHANGED <<manager, dispatched, confirmations>>
  PROVE  UNCHANGED Promise!promise
<1>1. \A q \in Keys : Same(q)
  BY KeyStays DEF Same, Charged, Credited, manager
<1> QED
  BY <1>1, NothingMoves

\* Every step is a move of the promise, or nothing to it.
LEMMA PromiseStep ==
  ASSUME PromiseInvariant, MaxRestarts = 0, [Next]_vars
  PROVE  Promise!PromiseNext \/ UNCHANGED Promise!promise
<1>1. ASSUME NEW c \in Calls, NEW r \in Requests, Defer(c, r)
      PROVE  Promise!PromiseNext
  BY <1>1, DeferMoves, MovesAreSteps DEF Charged, Credited
<1>2. ASSUME NEW c \in Calls, NEW r \in Requests, Dispatch(c, r)
      PROVE  Promise!PromiseNext
  <2>1. /\ Moves(KeyOf(r), "open", "pending") /\ KeyOf(r) \in Keys
        /\ Charged(KeyOf(r)) = {} /\ \E d : Charged(KeyOf(r))' = {d}
        /\ UNCHANGED confirmations
    BY <1>2, DispatchMoves
  <2>2. PICK k \in Keys : k = KeyOf(r)
    BY <2>1
  <2>3. KeyOf(r)' = KeyOf(r)
    BY DEF KeyOf, NoKey, DeriveExecutionIdempotencyKey
  <2>4. Moves(k, "open", "pending") /\ Charged(k) = {} /\ (\E d : Charged(k)' = {d})
    BY <2>1, <2>2 DEF Charged
  <2>5. Credited(k)' = Credited(k)
    BY <2>1 DEF Credited
  <2> QED
    BY <2>4, <2>5, MovesAreSteps
<1>3. ASSUME NEW c \in Calls, Respond(c)
      PROVE  Promise!PromiseNext
  <2>1. PICK k \in Keys : Moves(k, "pending", "unconfirmed") \/ Moves(k, "pending", "closed")
    BY <1>3, RespondMoves
  <2>2. Charged(k)' = Charged(k) /\ Credited(k)' = Credited(k)
    BY <1>3, RespondMoves DEF Charged, Credited
  <2> QED
    BY <2>1, <2>2, MovesAreSteps
<1>4. ASSUME NEW h \in Handlers, NEW e \in events, NEW k \in Keys, Reconcile(h, e, k)
      PROVE  Promise!PromiseNext
  <2>1. Charged(k)' = Charged(k)
    BY <1>4, ReconcileMoves DEF Charged
  <2>2. confirmations' = confirmations => Credited(k)' = Credited(k)
    BY DEF Credited
  <2> QED
    BY <1>4, <2>1, <2>2, ReconcileMoves, MovesAreSteps
<1>5. ~Restart
  <2>1. life \in 0 .. 0
    BY DEF PromiseInvariant, ExecutionInvariant, DispatchInvariant, TypeOK
  <2> QED
    BY <2>1 DEF Restart
<1>6. CASE \E c \in Calls, r \in Requests : Refuse(c, r) \/ Replay(c, r) \/ Conflict(c, r)
  BY <1>6, OtherSteps DEF Refuse, Replay, Conflict
<1>7. CASE \E c \in Calls : Cancel(c) \/ OpenOrder(c) \/ \E shape \in EventShapes : Emit(c, shape)
  BY <1>7, OtherSteps DEF Cancel, OpenOrder, Emit
<1>8. CASE \E h \in Handlers, e \in events :
             \/ RejectUnverified(h, e) \/ ReplayEvent(h, e) \/ NoMatch(h, e)
             \/ \E q \in Keys : LeaveRecord(h, e, q)
  BY <1>8, OtherSteps DEF RejectUnverified, ReplayEvent, NoMatch, LeaveRecord
<1>9. CASE UNCHANGED vars
  BY <1>9, OtherSteps DEF vars
<1> QED
  BY <1>1, <1>2, <1>3, <1>4, <1>5, <1>6, <1>7, <1>8, <1>9 DEF Next, ExecuteRecovery, Deliver

\* As long as the process is not restarted every key is charged at most once, and credited
\* at most once after it, whatever callers, provider and webhooks do.
THEOREM PromiseIsNeverBroken ==
  ASSUME MaxRestarts = 0
  PROVE  Spec => NeverBreaksPromise
<1>1. Init => Promise!PromiseInit
  <2> SUFFICES ASSUME Init PROVE Promise!PromiseInit
    OBVIOUS
  <2>1. \A k \in Keys : PhaseOf(k) = "open" /\ Charged(k) = {} /\ Credited(k) = {}
    BY DEF Init, PhaseOf, Stored, Charged, Credited
  <2>2. Cardinality({}) = 0
    BY FS_EmptySet
  <2> QED
    BY <2>1, <2>2 DEF Promise!PromiseInit, Charged, Credited
<1>2. PromiseInvariant /\ [Next]_vars => [Promise!PromiseNext]_(Promise!promise)
  BY PromiseStep
<1> QED
  BY <1>1, <1>2, PromiseInvariantHolds, PTL
     DEF Spec, NeverBreaksPromise, Promise!PromiseSpec
==============================================================================
