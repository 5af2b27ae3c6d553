---------------------------- MODULE ThreadsProofs -----------------------------
(***************************************************************************)
(* Theorems about the safety gateway under any number of threads: what its *)
(* locks guarantee whatever the interleaving, and how far the decisions    *)
(* made between two locks can exceed the limits of one thread.             *)
(***************************************************************************)
EXTENDS GatewayThreads, GatewayProofs

------------------------------------------------------------------------------
(* Types *)

Works == [input : Submissions, time : 0 .. MaxTime, evaluation : 1 .. MaxEvaluations,
          existing : StoredDecisions \cup {NoDecision},
          decision : Decisions \cup {NoDecision}, replay : BOOLEAN]

\* The sections past the input checks, and past the decision.
Admission  == {"lookup", "entry", "conflict", "limit", "record", "conclude", "store"}
Conclusion == {"conclude", "store"}

\* What a thread knows at the section it is about to enter.
WorkOK(t) ==
  IF pc[t] = "idle" THEN work[t] = Idle
  ELSE /\ work[t] \in Works
       /\ work[t].time <= now /\ work[t].evaluation <= begun
       /\ pc[t] \in {"log", "conclude", "store"} <=> work[t].decision # NoDecision
       /\ pc[t] \in Conclusion => work[t].decision \in StoredDecisions /\ ~work[t].replay
       /\ pc[t] \in Admission => Authentic(work[t].input)
       /\ pc[t] = "entry" => work[t].existing # NoDecision
       /\ pc[t] = "log" /\ work[t].decision = "APPROVED" => work[t].replay

TypeInvariant ==
  /\ GatewayTypeOK
  /\ pc \in [Threads -> Sections] /\ work \in [Threads -> Works \cup {Idle}]
  /\ \A t \in Threads : WorkOK(t)
  /\ begun \in 0 .. MaxEvaluations
  /\ pulled \in 0 .. Authorised

\* What a step of thread t leaves alone, and what it keeps of its own evaluation.
Others(t) == \A u \in Threads : u # t => pc'[u] = pc[u] /\ work'[u] = work[u]
Kept(t) ==
  /\ work'[t].input = work[t].input /\ work'[t].time = work[t].time
  /\ work'[t].evaluation = work[t].evaluation

\* An answer changes the decision of the thread's evaluation and whether it is a replay.
LEMMA AnswerMove ==
  ASSUME TypeInvariant, NEW t \in Threads, work[t] \in Works, NEW d \in Decisions,
         NEW r \in BOOLEAN, NEW section \in Sections, Answer(t, d, r, section)
  PROVE  /\ pc' \in [Threads -> Sections] /\ work' \in [Threads -> Works \cup {Idle}]
         /\ pc'[t] = section /\ work'[t] \in Works
         /\ work'[t].decision = d /\ work'[t].replay = r
         /\ Kept(t) /\ Others(t)
<1>. DEFINE w == [work[t] EXCEPT !.decision = d, !.replay = r]
<1>1. /\ work' = [work EXCEPT ![t] = w] /\ pc' = [pc EXCEPT ![t] = section]
  BY DEF Answer, Goto, TypeInvariant
<1>2. /\ w \in Works /\ w.decision = d /\ w.replay = r
      /\ w.input = work[t].input /\ w.time = work[t].time /\ w.evaluation = work[t].evaluation
  BY DEF Works, Decisions
<1>. HIDE DEF w
<1>. QED
  BY <1>1, <1>2 DEF TypeInvariant, Kept, Others

\* A continued evaluation keeps all it knows.
LEMMA ContinueMove ==
  ASSUME TypeInvariant, NEW t \in Threads, NEW section \in Sections, Continue(t, section)
  PROVE  /\ pc' \in [Threads -> Sections] /\ work' \in [Threads -> Works \cup {Idle}]
         /\ pc'[t] = section /\ work'[t] = work[t] /\ Others(t)
  BY DEF Continue, Goto, TypeInvariant, Others

\* Types are kept by a thread that moves on, when what it knows is right for its section.
LEMMA MovePreservesTypes ==
  ASSUME TypeInvariant, NEW t \in Threads, Others(t), WorkOK(t)', GatewayTypeOK',
         pc' \in [Threads -> Sections], work' \in [Threads -> Works \cup {Idle}],
         now' = now, begun' \in begun .. MaxEvaluations, pulled' \in 0 .. Authorised'
  PROVE  TypeInvariant'
<1>1. ASSUME NEW u \in Threads, u # t PROVE WorkOK(u)'
  <2>1. WorkOK(u) /\ pc'[u] = pc[u] /\ work'[u] = work[u] /\ begun \in Nat
    BY <1>1 DEF TypeInvariant, Others
  <2>2. pc[u] # "idle" => work[u].evaluation \in Nat /\ begun' \in Nat /\ begun <= begun'
    BY <2>1, GatewayAssumption DEF WorkOK, Works
  <2>. QED
    BY <2>1, <2>2 DEF WorkOK
<1>2. begun' \in 0 .. MaxEvaluations
  BY GatewayAssumption DEF TypeInvariant
<1>. QED
  BY <1>1, <1>2 DEF TypeInvariant

\* What a thread that is not idle works on.
LEMMA WorkFacts ==
  ASSUME TypeInvariant, NEW t \in Threads, pc[t] # "idle"
  PROVE  /\ work[t] \in Works /\ work[t].input \in Submissions
         /\ TargetKey(work[t].input) \in Targets
         /\ work[t].input.target.customer \in Customers
         /\ work[t].time \in 0 .. now /\ work[t].evaluation \in 1 .. begun
         /\ now \in Nat /\ begun \in Nat
<1>1. work[t] \in Works /\ work[t].time <= now /\ work[t].evaluation <= begun
  BY DEF TypeInvariant, WorkOK
<1>2. now \in Nat /\ begun \in Nat
  BY GatewayAssumption DEF TypeInvariant, GatewayTypeOK
<1>3. work[t].input \in Submissions /\ work[t].time \in Nat /\ work[t].evaluation \in Nat \ {0}
  BY <1>1, GatewayAssumption DEF Works
<1>. QED
  BY <1>1, <1>2, <1>3, SubmissionFacts

\* What each section does to its thread: where it goes, and what it has found.
Moves(t) ==
  /\ pc' \in [Threads -> Sections] /\ work' \in [Threads -> Works \cup {Idle}]
  /\ Others(t) /\ WorkOK(t)'

LEMMA BeginMoves ==
  ASSUME TypeInvariant, NEW t \in Threads, NEW s \in Submissions, Begin(t, s)
  PROVE  /\ Moves(t) /\ pc[t] = "idle" /\ pc'[t] = "switch" /\ work'[t] = Started(s)
<1>1. /\ now' = now /\ begun' = begun + 1 /\ begun + 1 \in 1 .. MaxEvaluations
      /\ now \in 0 .. MaxTime
  BY GatewayAssumption DEF Begin, TypeInvariant, GatewayTypeOK, vars
<1>2. Started(s) \in Works /\ Started(s).decision = NoDecision
      /\ Started(s).time = now /\ Started(s).evaluation = begun + 1
  BY <1>1 DEF Started, Works
<1>3. /\ pc' \in [Threads -> Sections] /\ work' \in [Threads -> Works \cup {Idle}]
      /\ pc[t] = "idle" /\ pc'[t] = "switch" /\ work'[t] = Started(s) /\ Others(t)
  BY <1>2 DEF Begin, At, Goto, TypeInvariant, Others, Sections
<1>4. WorkOK(t)'
  BY <1>1, <1>2, <1>3, GatewayAssumption DEF WorkOK, Admission, Conclusion
<1>. QED
  BY <1>3, <1>4 DEF Moves

LEMMA ReadSwitchMoves ==
  ASSUME TypeInvariant, NEW t \in Threads, ReadSwitch(t)
  PROVE  /\ Moves(t) /\ Kept(t) /\ pc[t] = "switch"
         /\ \/ pc'[t] = "log" /\ work'[t].decision # "APPROVED"
            \/ pc'[t] = "lookup" /\ ~Suspended
<1>1. /\ pc[t] = "switch" /\ now' = now /\ begun' = begun
  BY DEF ReadSwitch, At, vars
<1>2. work[t] \in Works /\ WorkOK(t)
  BY <1>1 DEF TypeInvariant, WorkOK
<1>3. CASE Suspended \/ ~Authentic(work[t].input)
  <2>1. Rejection \in Decisions /\ Rejection # "APPROVED" /\ Rejection # NoDecision
    BY DEF Rejection, Decisions, NoDecision
  <2>2. Answer(t, Rejection, FALSE, "log") /\ "log" \in Sections
    BY <1>3 DEF ReadSwitch, Sections
  <2>. QED
    BY <1>1, <1>2, <2>1, <2>2, AnswerMove
       DEF Moves, Kept, WorkOK, Admission, Conclusion
<1>4. CASE ~Suspended /\ Authentic(work[t].input)
  <2>1. Continue(t, "lookup") /\ "lookup" \in Sections
    BY <1>4 DEF ReadSwitch, Sections
  <2>. QED
    BY <1>1, <1>2, <1>4, <2>1, ContinueMove DEF Moves, Kept, WorkOK, Admission, Conclusion
<1>. QED
  BY <1>3, <1>4

LEMMA LookupMoves ==
  ASSUME TypeInvariant, NEW t \in Threads, Lookup(t)
  PROVE  /\ Moves(t) /\ Kept(t) /\ pc[t] = "lookup"
         /\ IF primary[work[t].input.proposal.id] = NoDecision
            THEN pc'[t] = "conflict" ELSE pc'[t] = "entry"
<1>. DEFINE found == primary[work[t].input.proposal.id]
            w == [work[t] EXCEPT !.existing = found]
<1>1. /\ pc[t] = "lookup" /\ now' = now /\ begun' = begun
  BY DEF Lookup, At, vars
<1>2. work[t] \in Works /\ WorkOK(t)
  BY <1>1 DEF TypeInvariant, WorkOK
<1>3. found \in StoredDecisions \cup {NoDecision}
  BY <1>1, WorkFacts, SubmissionFacts DEF TypeInvariant, GatewayTypeOK
<1>4. /\ w \in Works /\ w.existing = found /\ w.decision = work[t].decision
      /\ w.input = work[t].input /\ w.time = work[t].time /\ w.evaluation = work[t].evaluation
  BY <1>2, <1>3 DEF Works
<1>5. /\ work' = [work EXCEPT ![t] = w]
      /\ pc' = [pc EXCEPT ![t] = IF found = NoDecision THEN "conflict" ELSE "entry"]
  BY DEF Lookup, Goto, ExistingDecision
<1>. HIDE DEF w, found
<1>6. /\ pc' \in [Threads -> Sections] /\ work' \in [Threads -> Works \cup {Idle}]
      /\ work'[t] = w /\ Others(t)
      /\ pc'[t] = IF found = NoDecision THEN "conflict" ELSE "entry"
  BY <1>4, <1>5 DEF TypeInvariant, Sections, Others
<1>7. WorkOK(t)'
  BY <1>1, <1>2, <1>4, <1>6 DEF WorkOK, Admission, Conclusion
<1>. QED
  BY <1>1, <1>4, <1>6, <1>7 DEF Moves, Kept, found

LEMMA ReadEntryMoves ==
  ASSUME TypeInvariant, NEW t \in Threads, ReadEntry(t)
  PROVE  /\ Moves(t) /\ Kept(t) /\ pc[t] = "entry" /\ pc'[t] = "log"
         /\ work'[t].decision = "APPROVED" => work'[t].replay
<1>1. /\ pc[t] = "entry" /\ now' = now /\ begun' = begun
  BY DEF ReadEntry, At, vars
<1>2. work[t] \in Works /\ WorkOK(t) /\ work[t].existing # NoDecision
  BY <1>1 DEF TypeInvariant, WorkOK
<1>3. work[t].existing \in StoredDecisions
  BY <1>2 DEF Works
<1>4. {"BLOCKED", work[t].existing} \subseteq Decisions \ {NoDecision} /\ "log" \in Sections
  BY <1>3 DEF Decisions, StoredDecisions, NoDecision, Sections
<1>5. ASSUME NEW d \in Decisions \ {NoDecision}, NEW r \in BOOLEAN, d = "APPROVED" => r,
             Answer(t, d, r, "log")
      PROVE  /\ Moves(t) /\ Kept(t) /\ pc'[t] = "log"
             /\ work'[t].decision = "APPROVED" => work'[t].replay
  <2>1. /\ pc' \in [Threads -> Sections] /\ work' \in [Threads -> Works \cup {Idle}]
        /\ pc'[t] = "log" /\ work'[t] \in Works /\ Kept(t) /\ Others(t)
        /\ work'[t].decision = d /\ work'[t].replay = r
    BY <1>2, <1>4, <1>5, AnswerMove
  <2>2. WorkOK(t)'
    BY <1>1, <1>2, <1>5, <2>1 DEF Kept, WorkOK, Admission, Conclusion
  <2>. QED
    BY <1>5, <2>1, <2>2 DEF Moves
<1>6. CASE Answer(t, "BLOCKED", FALSE, "log")
  BY <1>1, <1>4, <1>5, <1>6
<1>7. CASE Answer(t, work[t].existing, TRUE, "log")
  BY <1>1, <1>4, <1>5, <1>7
<1>. QED
  BY <1>6, <1>7 DEF ReadEntry

LEMMA CheckConflictMoves ==
  ASSUME TypeInvariant, NEW t \in Threads, CheckConflict(t)
  PROVE  /\ Moves(t) /\ Kept(t) /\ pc[t] = "conflict"
         /\ \/ pc'[t] \in {"log", "conclude"} /\ work'[t].decision # "APPROVED"
            \/ pc'[t] = "limit"
<1>1. /\ pc[t] = "conflict" /\ now' = now /\ begun' = begun
  BY DEF CheckConflict, At, vars
<1>2. work[t] \in Works /\ WorkOK(t)
  BY <1>1 DEF TypeInvariant, WorkOK
<1>3. \/ Answer(t, "BLOCKED", FALSE, "log") \/ Answer(t, "BLOCKED", FALSE, "conclude")
      \/ Answer(t, "REQUIRES_REVIEW", FALSE, "conclude") \/ Continue(t, "limit")
  BY DEF CheckConflict
<1>4. {"log", "conclude", "limit"} \subseteq Sections
  BY DEF Sections
<1>5. {"BLOCKED", "REQUIRES_REVIEW"} \subseteq Decisions \cap StoredDecisions
  BY DEF Decisions, StoredDecisions
<1>6. CASE Continue(t, "limit")
  BY <1>1, <1>2, <1>4, <1>6, ContinueMove DEF Moves, Kept, WorkOK, Admission, Conclusion
<1>7. ASSUME NEW d \in {"BLOCKED", "REQUIRES_REVIEW"}, NEW section \in {"log", "conclude"},
             Answer(t, d, FALSE, section)
      PROVE  Moves(t) /\ Kept(t) /\ pc'[t] = section /\ work'[t].decision = d
  <2>1. section \in Sections /\ d \in Decisions /\ d \in StoredDecisions /\ d # NoDecision
    BY <1>4, <1>5 DEF NoDecision
  <2>2. /\ pc' \in [Threads -> Sections] /\ work' \in [Threads -> Works \cup {Idle}]
        /\ pc'[t] = section /\ work'[t] \in Works /\ Kept(t) /\ Others(t)
        /\ work'[t].decision = d /\ work'[t].replay = FALSE
    BY <1>2, <1>7, <2>1, AnswerMove
  <2>3. section # "idle" /\ section # "entry" /\ d # "APPROVED"
    OBVIOUS
  <2>4. WorkOK(t)'
    BY <1>1, <1>2, <2>1, <2>2, <2>3 DEF Kept, WorkOK, Admission, Conclusion
  <2>. QED
    BY <2>2, <2>4 DEF Moves
<1>. QED
  <2>1. Continue(t, "limit") => pc'[t] = "limit" /\ Kept(t)
    BY <1>4, ContinueMove DEF Kept
  <2>. QED
    BY <1>1, <1>3, <1>6, <1>7, <2>1

LEMMA CheckLimitMoves ==
  ASSUME TypeInvariant, NEW t \in Threads, CheckLimit(t)
  PROVE  /\ Moves(t) /\ Kept(t) /\ pc[t] = "limit"
         /\ \/ pc'[t] = "log" /\ work'[t].decision # "APPROVED"
            \/ pc'[t] = "record"
<1>1. /\ pc[t] = "limit" /\ now' = now /\ begun' = begun
  BY DEF CheckLimit, At
<1>2. work[t] \in Works /\ WorkOK(t)
  BY <1>1 DEF TypeInvariant, WorkOK
<1>3. Answer(t, "RATE_LIMITED", FALSE, "log") \/ Continue(t, "record")
  BY DEF CheckLimit
<1>4. {"log", "record"} \subseteq Sections /\ "RATE_LIMITED" \in Decisions
  BY DEF Sections, Decisions
<1>5. CASE Continue(t, "record")
  BY <1>1, <1>2, <1>4, <1>5, ContinueMove DEF Moves, Kept, WorkOK, Admission, Conclusion
<1>6. CASE Answer(t, "RATE_LIMITED", FALSE, "log")
  BY <1>1, <1>2, <1>4, <1>6, AnswerMove
     DEF Moves, Kept, WorkOK, Admission, Conclusion, NoDecision
<1>. QED
  BY <1>1, <1>3, <1>5, <1>6

LEMMA RecordMoves ==
  ASSUME TypeInvariant, NEW t \in Threads, RecordAttempt(t)
  PROVE  /\ Moves(t) /\ Kept(t) /\ pc[t] = "record"
         /\ pc'[t] = "conclude" /\ work'[t].decision = "APPROVED"
<1>1. /\ pc[t] = "record" /\ now' = now /\ begun' = begun
  BY DEF RecordAttempt, At
<1>2. work[t] \in Works /\ WorkOK(t)
  BY <1>1 DEF TypeInvariant, WorkOK
<1>3. Answer(t, "APPROVED", FALSE, "conclude")
  BY DEF RecordAttempt
<1>4. "conclude" \in Sections /\ "APPROVED" \in Decisions \cap StoredDecisions
  BY DEF Sections, Decisions, StoredDecisions
<1>. QED
  BY <1>1, <1>2, <1>3, <1>4, AnswerMove
     DEF Moves, Kept, WorkOK, Admission, Conclusion, NoDecision

LEMMA LogMoves ==
  ASSUME TypeInvariant, NEW t \in Threads, Log(t)
  PROVE  /\ Moves(t)
         /\ \/ pc[t] = "log" /\ pc'[t] = "idle"
            \/ pc[t] = "conclude" /\ pc'[t] = "store" /\ work'[t] = work[t]
<1>1. /\ now' = now /\ begun' = begun /\ {"idle", "store"} \subseteq Sections
  BY DEF Log, Sections
<1>2. CASE pc[t] = "log"
  BY <1>1, <1>2 DEF Log, At, Goto, TypeInvariant, Moves, Others, WorkOK
<1>3. CASE pc[t] = "conclude"
  BY <1>1, <1>3
     DEF Log, At, Goto, TypeInvariant, Moves, Others, WorkOK, Admission, Conclusion
<1>. QED
  BY <1>2, <1>3 DEF Log, At

LEMMA StoreMoves ==
  ASSUME TypeInvariant, NEW t \in Threads, Store(t)
  PROVE  Moves(t) /\ pc[t] = "store" /\ pc'[t] = "idle"
<1>1. "idle" \in Sections
  BY DEF Sections
<1>. QED
  BY <1>1 DEF Store, At, Goto, TypeInvariant, Moves, Others, WorkOK

\* Counting: a set with one element more, or less.
LEMMA OneMore ==
  ASSUME NEW S, IsFiniteSet(S), NEW x
  PROVE  /\ IsFiniteSet(S \cup {x}) /\ IsFiniteSet(S \ {x}) /\ Cardinality(S) \in Nat
         /\ x \notin S => Cardinality(S \cup {x}) = Cardinality(S) + 1
         /\ x \in S => Cardinality(S \ {x}) = Cardinality(S) - 1 /\ Cardinality(S) > 0
<1>1. /\ IsFiniteSet(S \cup {x}) /\ Cardinality(S) \in Nat
      /\ Cardinality(S \cup {x}) = IF x \in S THEN Cardinality(S) ELSE Cardinality(S) + 1
  BY FS_AddElement, FS_CardinalityType
<1>2. /\ IsFiniteSet(S \ {x})
      /\ Cardinality(S \ {x}) = IF x \in S THEN Cardinality(S) - 1 ELSE Cardinality(S)
  BY FS_RemoveElement
<1>3. Cardinality(S \ {x}) \in Nat
  BY <1>2, FS_CardinalityType
<1>. QED
  BY <1>1, <1>2, <1>3

\* Parts of the log and groups of threads are finite.
LEMMA LoggedIsFinite ==
  ASSUME GatewayTypeOK
  PROVE  /\ Len(audit) \in Nat /\ Logged = 1 .. Len(audit) /\ IsFiniteSet(Logged)
         /\ \A i \in Logged : audit[i] \in Results
<1>1. Len(audit) \in Nat /\ Logged = 1 .. Len(audit) /\ \A i \in Logged : audit[i] \in Results
  BY DEF GatewayTypeOK, Logged
<1>. QED
  BY <1>1, FS_Interval

\* _record_audit appends the answer of the thread.
LEMMA LogStep ==
  ASSUME TypeInvariant, NEW t \in Threads, Log(t), NEW n, n = Len(audit) + 1
  PROVE  /\ audit' \in Seq(Results)
         /\ Logged' = Logged \cup {n} /\ n \notin Logged
         /\ \A i \in Logged : audit'[i] = audit[i]
         /\ audit'[n].input = work[t].input /\ audit'[n].time = work[t].time
         /\ audit'[n].decision = work[t].decision /\ audit'[n].replay = work[t].replay
         /\ audit'[n].eligible = (work[t].decision = "APPROVED")
<1>. DEFINE w == work[t]
            q == Result(w.input, w.decision, w.decision = "APPROVED", w.replay)
            r == [q EXCEPT !.time = w.time]
<1>1. w \in Works /\ w.decision \in Decisions
  BY DEF TypeInvariant, WorkOK, Log, At, Works
<1>2. /\ q \in Results /\ q.input = w.input /\ q.decision = w.decision /\ q.replay = w.replay
      /\ q.eligible = (w.decision = "APPROVED")
  BY <1>1, ResultType DEF TypeInvariant, Works, Result
<1>3. w.time \in 0 .. MaxTime
  BY <1>1 DEF Works
<1>4. /\ r \in Results /\ r.input = w.input /\ r.time = w.time /\ r.decision = w.decision
      /\ r.replay = w.replay /\ r.eligible = (w.decision = "APPROVED")
  BY <1>2, <1>3 DEF Results
<1>5. audit' = Append(audit, r)
  BY DEF Log
<1>. HIDE DEF r, q, w
<1>6. /\ audit \in Seq(Results) /\ Len(audit) \in Nat /\ Logged = 1 .. Len(audit)
  BY LoggedIsFinite DEF TypeInvariant, GatewayTypeOK
<1>7. /\ audit' \in Seq(Results) /\ Len(audit') = n
      /\ \A i \in 1 .. Len(audit) : audit'[i] = audit[i]
      /\ audit'[n] = r
  BY <1>4, <1>5, <1>6
<1>8. Logged' = Logged \cup {n} /\ n \notin Logged
  <2>1. Logged' = 1 .. n
    BY <1>7 DEF Logged
  <2>. QED
    BY <1>6, <2>1
<1>. QED
  BY <1>4, <1>6, <1>7, <1>8 DEF w

LEMMA AuthorisedStep ==
  ASSUME TypeInvariant, NEW t \in Threads, Log(t)
  PROVE  /\ Authorised \in Nat
         /\ Authorised' = IF work[t].decision = "APPROVED" THEN Authorised + 1 ELSE Authorised
<1>. DEFINE G == {i \in Logged : audit[i].eligible}
<1>1. PICK n : n = Len(audit) + 1
  OBVIOUS
<1>2. /\ Logged' = Logged \cup {n} /\ n \notin Logged
      /\ \A i \in Logged : audit'[i] = audit[i]
      /\ audit'[n].eligible = (work[t].decision = "APPROVED")
  BY <1>1, LogStep
<1>3. IsFiniteSet(G)
  <2>1. IsFiniteSet(Logged) /\ G \subseteq Logged
    BY LoggedIsFinite DEF TypeInvariant
  <2>. QED
    BY <2>1, FS_Subset
<1>4. n \notin G /\ G' = IF work[t].decision = "APPROVED" THEN G \cup {n} ELSE G
  BY <1>2
<1>5. Authorised = Cardinality(G) /\ Authorised' = Cardinality(G')
  BY DEF Authorised, Logged
<1>. HIDE DEF G
<1>. QED
  BY <1>3, <1>4, <1>5, OneMore

LEMMA AuthorisedType == ASSUME GatewayTypeOK PROVE Authorised \in Nat
<1>1. IsFiniteSet(Logged) /\ {i \in Logged : audit[i].eligible} \subseteq Logged
  BY LoggedIsFinite
<1>. QED
  BY <1>1, FS_Subset, FS_CardinalityType DEF Authorised, Logged

\* Every locked section of a thread moves that thread on, and keeps the types.
LEMMA StepMoves ==
  ASSUME TypeInvariant, NEW t \in Threads, Step(t)
  PROVE  Moves(t)
  BY BeginMoves, ReadSwitchMoves, LookupMoves, ReadEntryMoves, CheckConflictMoves,
     CheckLimitMoves, RecordMoves, LogMoves, StoreMoves DEF Step

LEMMA StepTypes ==
  ASSUME TypeInvariant, NEW t \in Threads, Step(t)
  PROVE  GatewayTypeOK'
<1>1. GatewayTypeOK
  BY DEF TypeInvariant
<1>2. CASE UNCHANGED vars
  BY <1>1, <1>2 DEF vars, killSwitch, store, limiter, GatewayTypeOK
<1>3. CASE CheckLimit(t)
  <2>. DEFINE s == work[t].input
              target == Counted(targetTimes[TargetKey(s)], work[t].time)
              customer == Counted(customerTimes[s.target.customer], work[t].time)
  <2>1. TargetKey(s) \in Targets /\ s.target.customer \in Customers
    BY <1>3, WorkFacts DEF CheckLimit, At
  <2>2. target \subseteq Attempts /\ customer \subseteq Attempts
    BY <1>1, <2>1 DEF GatewayTypeOK, Counted
  <2>3. /\ targetTimes' = [targetTimes EXCEPT ![TargetKey(s)] = target]
        /\ \/ customerTimes' = customerTimes
           \/ customerTimes' = [customerTimes EXCEPT ![s.target.customer] = customer]
        /\ UNCHANGED <<active, corrupted, now, primary, targetStore, audit>>
    BY <1>3 DEF CheckLimit, killSwitch, store
  <2>. HIDE DEF s, target, customer
  <2>. QED
    BY <1>1, <2>1, <2>2, <2>3 DEF GatewayTypeOK
<1>4. CASE RecordAttempt(t)
  <2>. DEFINE s == work[t].input
              attempt == [time |-> work[t].time, evaluation |-> work[t].evaluation]
  <2>1. /\ TargetKey(s) \in Targets /\ s.target.customer \in Customers
        /\ work[t] \in Works
    BY <1>4, WorkFacts DEF RecordAttempt, At
  <2>2. attempt \in Attempts
    BY <2>1 DEF Works, Attempts
  <2>3. /\ targetTimes' = [targetTimes EXCEPT ![TargetKey(s)] = @ \cup {attempt}]
        /\ customerTimes' = [customerTimes EXCEPT ![s.target.customer] = @ \cup {attempt}]
        /\ UNCHANGED <<active, corrupted, now, primary, targetStore, audit>>
    BY <1>4 DEF RecordAttempt, killSwitch, store
  <2>. HIDE DEF s, attempt
  <2>. QED
    BY <1>1, <2>1, <2>2, <2>3 DEF GatewayTypeOK
<1>5. CASE Log(t)
  <2>1. audit' \in Seq(Results)
    BY <1>5, LogStep
  <2>2. UNCHANGED <<active, corrupted, now, primary, targetStore, targetTimes, customerTimes>>
    BY <1>5 DEF Log, killSwitch, store, limiter
  <2>. QED
    BY <1>1, <2>1, <2>2 DEF GatewayTypeOK
<1>6. CASE Store(t)
  <2>1. /\ pc[t] = "store" /\ work[t].input \in Submissions
        /\ RecordDecision(work[t].input, work[t].decision)
    BY <1>6, WorkFacts DEF Store, At
  <2>2. work[t].decision \in StoredDecisions
    BY <2>1 DEF TypeInvariant, WorkOK, Conclusion
  <2>3. UNCHANGED <<active, corrupted, now, targetTimes, customerTimes, audit>>
    BY <1>6 DEF Store, killSwitch, limiter
  <2>. QED
    BY <1>1, <2>1, <2>2, <2>3, StoreStep DEF GatewayTypeOK
<1>. QED
  BY <1>2, <1>3, <1>4, <1>5, <1>6
     DEF Step, Begin, ReadSwitch, Lookup, ReadEntry, CheckConflict

\* The operator and the clock leave the threads alone.
LEMMA OperateTypes ==
  ASSUME TypeInvariant, Operate
  PROVE  TypeInvariant' /\ UNCHANGED <<pc, work, begun, store, limiter, audit>> /\ now <= now'
<1>1. /\ UNCHANGED <<pc, work, begun, store, limiter, audit>>
      /\ pulled' \in {pulled, Authorised}
      /\ active' \in BOOLEAN /\ corrupted' \in BOOLEAN
  BY DEF Operate, Activate, SetCorrupted, Deactivate, Tick, threads, killSwitch,
         TypeInvariant, GatewayTypeOK
<1>2. now' \in now .. MaxTime /\ now \in 0 .. MaxTime /\ MaxTime \in Nat
  BY GatewayAssumption
     DEF Operate, Activate, SetCorrupted, Deactivate, Tick, TypeInvariant, GatewayTypeOK
<1>3. GatewayTypeOK'
  BY <1>1, <1>2 DEF TypeInvariant, GatewayTypeOK, store, limiter
<1>4. pulled' \in 0 .. Authorised'
  <2>1. Authorised' = Authorised
    BY <1>1 DEF Authorised
  <2>. QED
    BY <1>1, <2>1, AuthorisedType DEF TypeInvariant
<1>5. ASSUME NEW t \in Threads PROVE WorkOK(t)'
  <2>1. WorkOK(t) /\ pc'[t] = pc[t] /\ work'[t] = work[t] /\ begun' = begun
    BY <1>1 DEF TypeInvariant
  <2>2. pc[t] # "idle" => work[t].time \in Nat
    BY <2>1, <1>2 DEF WorkOK, Works
  <2>. QED
    BY <1>2, <2>1, <2>2 DEF WorkOK
<1>. QED
  BY <1>1, <1>2, <1>3, <1>4, <1>5 DEF TypeInvariant

LEMMA TypeInvariantStep ==
  ASSUME TypeInvariant, [ThreadsNext]_allVars
  PROVE  TypeInvariant'
<1>1. ASSUME NEW t \in Threads, Step(t) PROVE TypeInvariant'
  <2>1. Moves(t) /\ GatewayTypeOK'
    BY <1>1, StepMoves, StepTypes
  <2>2. now' = now /\ pulled' = pulled
    BY <1>1 DEF Step, Begin, ReadSwitch, Lookup, ReadEntry, CheckConflict, CheckLimit,
       RecordAttempt, Log, Store, vars
  <2>3. begun' \in begun .. MaxEvaluations
    <3>1. begun' = begun \/ (begun < MaxEvaluations /\ begun' = begun + 1)
      BY <1>1 DEF Step, Begin, ReadSwitch, Lookup, ReadEntry, CheckConflict, CheckLimit,
                  RecordAttempt, Log, Store
    <3>. QED
      BY <3>1, GatewayAssumption DEF TypeInvariant
  <2>4. pulled' \in 0 .. Authorised'
    <3>1. Authorised \in Nat /\ Authorised' \in Nat /\ Authorised <= Authorised'
      <4>1. CASE Log(t)
        BY <1>1, <4>1, AuthorisedStep
      <4>2. CASE audit' = audit
        BY <4>2, AuthorisedType DEF TypeInvariant, Authorised
      <4>. QED
        BY <1>1, <4>1, <4>2 DEF Step, Begin, ReadSwitch, Lookup, ReadEntry, CheckConflict,
           CheckLimit, RecordAttempt, Store, vars
    <3>. QED
      BY <2>2, <3>1 DEF TypeInvariant
  <2>. QED
    BY <2>1, <2>2, <2>3, <2>4, MovePreservesTypes DEF Moves
<1>2. CASE Operate
  BY <1>2, OperateTypes
<1>3. CASE UNCHANGED allVars
  <2>1. UNCHANGED <<active, corrupted, now, primary, targetStore, targetTimes, customerTimes,
                    audit, pc, work, begun, pulled>>
    BY <1>3 DEF allVars, vars, threads, killSwitch, store, limiter
  <2>. QED
    BY <2>1 DEF TypeInvariant, GatewayTypeOK, WorkOK, Authorised
<1>. QED
  BY <1>1, <1>2, <1>3 DEF ThreadsNext

\* The proposal id of an authentic submission is the one derived from its target.
LEMMA AuthenticIdentity ==
  ASSUME NEW s, Authentic(s)
  PROVE  s.proposal.id = DeriveExpectedProposalId(TargetKey(s)[1], TargetKey(s)[2])
  BY DEF Authentic, ProposalIdentity, TargetKey

\* What was approved before the threads begin.
LEMMA EarlierFacts ==
  /\ Earlier \in Seq(Submissions) /\ Len(Earlier) \in Nat
  /\ DOMAIN Earlier = 1 .. Len(Earlier) /\ Len(Earlier) <= MaxEvaluations
  /\ \A i \in DOMAIN Earlier :
       /\ Earlier[i] \in Submissions /\ Authentic(Earlier[i])
       /\ TargetKey(Earlier[i]) \in Targets /\ Earlier[i].target.customer \in Customers
       /\ Earlier[i].proposal.id = DeriveExpectedProposalId(TargetKey(Earlier[i])[1],
                                                            TargetKey(Earlier[i])[2])
<1>1. /\ Earlier \in Seq(Submissions) /\ Len(Earlier) \in Nat
      /\ DOMAIN Earlier = 1 .. Len(Earlier) /\ Len(Earlier) <= MaxEvaluations
      /\ \A i \in DOMAIN Earlier : Earlier[i] \in Submissions /\ Authentic(Earlier[i])
  BY EarlierAssumption
<1>. QED
  BY <1>1, SubmissionFacts, AuthenticIdentity

\* The entry of a target is that of the earlier submission for it, if there is one.
LEMMA EarlierEntries ==
  ASSUME NEW k \in Targets
  PROVE  IF \E i \in DOMAIN Earlier : TargetKey(Earlier[i]) = k
         THEN /\ EarlierEntry(k) \in Entries /\ EarlierEntry(k).decision = "APPROVED"
              /\ EarlierEntry(k).proposal = DeriveExpectedProposalId(k[1], k[2])
         ELSE EarlierEntry(k) = NoEntry
<1>. DEFINE for == {i \in DOMAIN Earlier : TargetKey(Earlier[i]) = k}
            first == CHOOSE i \in for : TRUE
            entry(s) == [proposal |-> s.proposal.id, action |-> s.proposal.action,
                         amount |-> s.target.amount, decision |-> "APPROVED"]
<1>1. CASE for = {}
  BY <1>1 DEF EarlierEntry
<1>2. CASE for # {}
  <2>1. first \in for
    BY <1>2
  <2>2. EarlierEntry(k) = entry(Earlier[first])
    BY <1>2 DEF EarlierEntry
  <2>3. PICK s \in Submissions :
          /\ s = Earlier[first] /\ TargetKey(s) = k
          /\ s.proposal.id = DeriveExpectedProposalId(k[1], k[2])
    BY <2>1, EarlierFacts
  <2>5. entry(s) \in Entries
    BY SubmissionFacts DEF Entries, StoredDecisions
  <2>. QED
    BY <1>2, <2>2, <2>3, <2>5
<1>. QED
  BY <1>1, <1>2

LEMMA TypeInvariantInit == ThreadsInit => TypeInvariant
<1>. SUFFICES ASSUME ThreadsInit PROVE TypeInvariant
  OBVIOUS
<1>1. active \in BOOLEAN /\ corrupted \in BOOLEAN
  BY DEF ThreadsInit
<1>0. now = 0 /\ now \in 0 .. MaxTime
  BY GatewayAssumption DEF ThreadsInit
<1>2. primary \in [ProposalIds -> StoredDecisions \cup {NoDecision}]
  BY DEF ThreadsInit, StoredDecisions
<1>3. targetStore \in [Targets -> Entries \cup {NoEntry}]
  BY EarlierEntries DEF ThreadsInit
<1>4. \A E \in SUBSET DOMAIN Earlier : EarlierTimes(E) \subseteq Attempts
  BY EarlierFacts, GatewayAssumption DEF EarlierTimes, Attempts
<1>5. /\ targetTimes \in [Targets -> SUBSET Attempts]
      /\ customerTimes \in [Customers -> SUBSET Attempts]
  BY <1>4 DEF ThreadsInit
<1>6. audit \in Seq(Results) /\ Len(audit) = Len(Earlier)
  <2>1. \A i \in DOMAIN Earlier : [input |-> Earlier[i], time |-> 0, decision |-> "APPROVED",
                                    eligible |-> TRUE, replay |-> FALSE] \in Results
    BY EarlierFacts, GatewayAssumption DEF Results, Decisions, StoredDecisions
  <2>. QED
    BY <2>1, EarlierFacts DEF ThreadsInit
<1>7. GatewayTypeOK
  BY <1>0, <1>1, <1>2, <1>3, <1>5, <1>6 DEF GatewayTypeOK
<1>8. /\ pc \in [Threads -> Sections] /\ work \in [Threads -> Works \cup {Idle}]
      /\ \A t \in Threads : WorkOK(t)
  BY DEF ThreadsInit, Sections, WorkOK
<1>9. begun \in 0 .. MaxEvaluations
  BY EarlierFacts, GatewayAssumption DEF ThreadsInit
<1>10. pulled \in 0 .. Authorised
  <2>1. {i \in DOMAIN audit : audit[i].eligible} = 1 .. Len(Earlier)
    BY EarlierFacts DEF ThreadsInit
  <2>2. Cardinality(1 .. Len(Earlier)) = Len(Earlier)
    BY EarlierFacts, FS_Interval
  <2>3. pulled = Len(Earlier)
    BY DEF ThreadsInit
  <2>4. Authorised = Len(Earlier)
    BY <2>1, <2>2 DEF Authorised
  <2>. QED
    BY <2>3, <2>4, EarlierFacts
<1>. QED
  BY <1>7, <1>8, <1>9, <1>10 DEF TypeInvariant

THEOREM TypeInvariantHolds == ThreadsSpec => []TypeInvariant
  BY TypeInvariantInit, TypeInvariantStep, PTL DEF ThreadsSpec

\* Under threads too the gateway keeps its types: what a thread enters a section with
\* is an evaluation begun before, and it is answered exactly when there is a decision.
THEOREM ThreadsTypeCorrect == ThreadsSpec => []ThreadsTypeOK
<1>1. TypeInvariant => ThreadsTypeOK
  <2>. SUFFICES ASSUME TypeInvariant PROVE ThreadsTypeOK
    OBVIOUS
  <2>1. ASSUME NEW t \in Threads, pc[t] # "idle"
        PROVE  /\ work[t].input \in Submissions /\ work[t].time \in 0 .. now
               /\ work[t].evaluation \in 1 .. begun
               /\ pc[t] \in {"log", "conclude", "store"} <=> work[t].decision # NoDecision
    BY <2>1, WorkFacts DEF TypeInvariant, WorkOK
  <2>2. \A t \in Threads : pc[t] = "idle" => work[t] = Idle
    BY DEF TypeInvariant, WorkOK
  <2>. QED
    BY <2>1, <2>2 DEF TypeInvariant, ThreadsTypeOK
<1>. QED
  BY <1>1, TypeInvariantHolds, PTL

------------------------------------------------------------------------------
(* The stores agree *)

\* What a thread stores is its own decision, for its own target.
LEMMA StoreStepFacts ==
  ASSUME TypeInvariant, NEW t \in Threads, Store(t)
  PROVE  LET s == work[t].input
             new == [proposal |-> s.proposal.id, action |-> s.proposal.action,
                     amount |-> s.target.amount, decision |-> work[t].decision]
         IN /\ s \in Submissions /\ TargetKey(s) \in Targets /\ Authentic(s)
            /\ work[t].decision \in StoredDecisions /\ new # NoEntry
            /\ primary' = [primary EXCEPT ![s.proposal.id] = work[t].decision]
            /\ targetStore' = [targetStore EXCEPT ![TargetKey(s)] = new]
<1>1. pc[t] = "store" /\ RecordDecision(work[t].input, work[t].decision)
  BY DEF Store, At
<1>2. /\ work[t].input \in Submissions /\ TargetKey(work[t].input) \in Targets
      /\ Authentic(work[t].input) /\ work[t].decision \in StoredDecisions
  BY <1>1, WorkFacts DEF TypeInvariant, WorkOK, Admission, Conclusion
<1>3. work[t].decision # NoEntry.decision
  BY <1>2 DEF StoredDecisions, NoDecision, NoEntry
<1>. QED
  BY <1>1, <1>2, <1>3 DEF RecordDecision

LEMMA StoresAgreeStep ==
  ASSUME TypeInvariant, StoresAgree, [ThreadsNext]_allVars
  PROVE  StoresAgree'
<1>1. CASE UNCHANGED store
  BY <1>1 DEF store, StoresAgree
<1>2. ASSUME NEW t \in Threads, Store(t) PROVE StoresAgree'
  <2>. DEFINE u == work[t].input
              d == work[t].decision
              new == [proposal |-> u.proposal.id, action |-> u.proposal.action,
                      amount |-> u.target.amount, decision |-> d]
  <2>1. /\ u \in Submissions /\ Authentic(u) /\ d \in StoredDecisions /\ new # NoEntry
        /\ new.proposal = u.proposal.id /\ new.decision = d
        /\ primary' = [primary EXCEPT ![u.proposal.id] = d]
        /\ targetStore' = [targetStore EXCEPT ![TargetKey(u)] = new]
    BY <1>2, StoreStepFacts
  <2>. HIDE DEF u, d, new
  <2>. SUFFICES ASSUME NEW s \in Submissions, Authentic(s)
                PROVE  /\ primary'[s.proposal.id] = targetStore'[TargetKey(s)].decision
                       /\ targetStore'[TargetKey(s)] # NoEntry =>
                            targetStore'[TargetKey(s)].proposal = s.proposal.id
    BY DEF StoresAgree
  <2>2. /\ primary \in [ProposalIds -> StoredDecisions \cup {NoDecision}]
        /\ targetStore \in [Targets -> Entries \cup {NoEntry}]
        /\ s.proposal.id \in ProposalIds /\ TargetKey(s) \in Targets
        /\ u.proposal.id \in ProposalIds /\ TargetKey(u) \in Targets
    BY <2>1, SubmissionFacts DEF TypeInvariant, GatewayTypeOK
  <2>3. s.proposal.id = u.proposal.id <=> TargetKey(s) = TargetKey(u)
    BY <2>1, <2>2, AuthenticIdentity, IdsAreInjective
  <2>4. /\ primary[s.proposal.id] = targetStore[TargetKey(s)].decision
        /\ targetStore[TargetKey(s)] # NoEntry =>
             targetStore[TargetKey(s)].proposal = s.proposal.id
    BY DEF StoresAgree
  <2>5. CASE TargetKey(s) = TargetKey(u)
    BY <2>1, <2>2, <2>3, <2>5
  <2>6. CASE TargetKey(s) # TargetKey(u)
    BY <2>1, <2>2, <2>3, <2>4, <2>6
  <2>. QED
    BY <2>5, <2>6
<1>3. ASSUME NEW t \in Threads, Step(t), ~Store(t) PROVE UNCHANGED store
  BY <1>3 DEF Step, Begin, ReadSwitch, Lookup, ReadEntry, CheckConflict, CheckLimit,
              RecordAttempt, Log, vars, store
<1>4. CASE Operate
  BY <1>1, <1>4, OperateTypes
<1>5. CASE UNCHANGED allVars
  BY <1>1, <1>5 DEF allVars, vars
<1>. QED
  BY <1>1, <1>2, <1>3, <1>4, <1>5 DEF ThreadsNext

LEMMA StoresAgreeInit == ThreadsInit => StoresAgree
<1>. SUFFICES ASSUME ThreadsInit, NEW s \in Submissions, Authentic(s)
              PROVE  /\ primary[s.proposal.id] = targetStore[TargetKey(s)].decision
                     /\ targetStore[TargetKey(s)] # NoEntry =>
                          targetStore[TargetKey(s)].proposal = s.proposal.id
  BY DEF StoresAgree
<1>1. TargetKey(s) \in Targets /\ s.proposal.id \in ProposalIds
      /\ s.proposal.id = DeriveExpectedProposalId(TargetKey(s)[1], TargetKey(s)[2])
  BY SubmissionFacts, AuthenticIdentity
<1>2. targetStore[TargetKey(s)] = EarlierEntry(TargetKey(s))
  BY <1>1 DEF ThreadsInit
<1>3. (\E i \in DOMAIN Earlier : Earlier[i].proposal.id = s.proposal.id) <=>
      (\E i \in DOMAIN Earlier : TargetKey(Earlier[i]) = TargetKey(s))
  BY <1>1, EarlierFacts, IdsAreInjective
<1>4. primary[s.proposal.id] =
        IF \E i \in DOMAIN Earlier : TargetKey(Earlier[i]) = TargetKey(s)
        THEN "APPROVED" ELSE NoDecision
  BY <1>1, <1>3 DEF ThreadsInit
<1>. QED
  BY <1>1, <1>2, <1>4, EarlierEntries DEF NoEntry

\* Whichever thread stores last, a decided proposal's target has its entry, with the
\* same decision: for any number of threads.
THEOREM StoresAlwaysAgree == ThreadsSpec => []StoresAgree
<1>1. TypeInvariant /\ StoresAgree /\ [ThreadsNext]_allVars => StoresAgree'
  BY StoresAgreeStep
<1>. QED
  BY <1>1, StoresAgreeInit, TypeInvariantHolds, PTL DEF ThreadsSpec

------------------------------------------------------------------------------
(* The switch: the threads that may still answer with an approval *)

Clearing ==
  {t \in Threads : \/ pc[t] \in {"lookup", "entry", "conflict", "limit", "record"}
                   \/ pc[t] \in {"log", "conclude"} /\ work[t].decision = "APPROVED"}

LateInvariant ==
  Suspended => Authorised - pulled + Cardinality(Clearing) <= Cardinality(Threads)

\* Groups of threads are finite, and no larger than all of them.
LEMMA Groups ==
  ASSUME NEW G \in SUBSET Threads
  PROVE  /\ IsFiniteSet(G) /\ Cardinality(G) \in Nat /\ Cardinality(Threads) \in Nat \ {0}
         /\ Cardinality(G) <= Cardinality(Threads)
         /\ \A F \in SUBSET G : Cardinality(F) <= Cardinality(G) /\ Cardinality(F) \in Nat
<1>1. IsFiniteSet(Threads) /\ Cardinality(Threads) \in Nat /\ Cardinality(Threads) # 0
  BY ThreadsAssumption, FS_CardinalityType, FS_EmptySet
<1>2. IsFiniteSet(G) /\ Cardinality(G) <= Cardinality(Threads) /\ Cardinality(G) \in Nat
  BY <1>1, FS_Subset, FS_CardinalityType
<1>3. \A F \in SUBSET G : Cardinality(F) <= Cardinality(G) /\ Cardinality(F) \in Nat
  BY <1>2, FS_Subset, FS_CardinalityType
<1>. QED
  BY <1>1, <1>2, <1>3

LEMMA DisjointGroups ==
  ASSUME NEW G \in SUBSET Threads, NEW H \in SUBSET Threads, G \cap H = {}
  PROVE  Cardinality(G) + Cardinality(H) <= Cardinality(Threads)
<1>1. IsFiniteSet(G) /\ IsFiniteSet(H) /\ Cardinality(G) \in Nat /\ Cardinality(H) \in Nat
  BY Groups
<1>2. Cardinality(G \cup H) = Cardinality(G) + Cardinality(H) - Cardinality(G \cap H)
  BY <1>1, FS_Union
<1>3. Cardinality(G \cap H) = 0
  BY FS_EmptySet
<1>4. Cardinality(G \cup H) <= Cardinality(Threads)
  BY Groups
<1>. QED
  BY <1>1, <1>2, <1>3, <1>4

LEMMA LateInit == ThreadsInit => LateInvariant
<1>. SUFFICES ASSUME ThreadsInit PROVE LateInvariant
  OBVIOUS
<1>1. Authorised - pulled = 0
  <2>1. {i \in DOMAIN audit : audit[i].eligible} = 1 .. Len(Earlier)
    BY EarlierFacts DEF ThreadsInit
  <2>2. Cardinality(1 .. Len(Earlier)) = Len(Earlier)
    BY EarlierFacts, FS_Interval
  <2>3. pulled = Len(Earlier)
    BY DEF ThreadsInit
  <2>4. Authorised = Len(Earlier)
    BY <2>1, <2>2 DEF Authorised
  <2>. QED
    BY <2>3, <2>4, EarlierFacts
<1>2. Clearing \in SUBSET Threads
  BY DEF Clearing
<1>. QED
  BY <1>1, <1>2, Groups DEF LateInvariant

\* While the switch is on nobody joins the threads that may still approve, and one that
\* does approve leaves them.
LEMMA LateStep ==
  ASSUME TypeInvariant, LateInvariant, [ThreadsNext]_allVars
  PROVE  LateInvariant'
<1>0. /\ Clearing \in SUBSET Threads /\ Clearing' \in SUBSET Threads
      /\ Authorised \in Nat /\ pulled \in Nat
  BY AuthorisedType DEF Clearing, TypeInvariant
<1>1. CASE /\ Authorised' = Authorised /\ pulled' = pulled
           /\ Suspended' => Suspended /\ Clearing' \subseteq Clearing
  BY <1>0, <1>1, Groups DEF LateInvariant
<1>2. ASSUME NEW t \in Threads, Step(t) PROVE LateInvariant'
  <2>1. UNCHANGED <<active, corrupted, pulled>> /\ Others(t)
    BY <1>2, StepMoves DEF Moves, Step, Begin, ReadSwitch, Lookup, ReadEntry, CheckConflict,
       CheckLimit, RecordAttempt, Log, Store, vars, killSwitch
  <2>2. Suspended' = Suspended
    BY <2>1 DEF Suspended
  <2>3. CASE Log(t)
    <3>1. CASE t \in Clearing /\ work[t].decision = "APPROVED"
      <4>1. Clearing' = Clearing \ {t}
        BY <2>1, <2>3, <3>1, LogMoves DEF Clearing, Others
      <4>2. Authorised' = Authorised + 1
        BY <2>3, <3>1, AuthorisedStep
      <4>3. Cardinality(Clearing') = Cardinality(Clearing) - 1 /\ Cardinality(Clearing) \in Nat
        BY <1>0, <3>1, <4>1, Groups, OneMore
      <4>. QED
        BY <1>0, <2>1, <2>2, <4>2, <4>3, Groups DEF LateInvariant
    <3>2. CASE work[t].decision # "APPROVED"
      <4>1. Clearing' \subseteq Clearing
        BY <2>1, <2>3, <3>2, LogMoves DEF Clearing, Others
      <4>. QED
        BY <1>1, <2>1, <2>2, <2>3, <3>2, <4>1, AuthorisedStep
    <3>. QED
      BY <2>3, <3>1, <3>2 DEF Log, At, Clearing
  <2>4. CASE ~Log(t)
    <3>1. Authorised' = Authorised
      BY <1>2, <2>4 DEF Step, Begin, ReadSwitch, Lookup, ReadEntry, CheckConflict,
         CheckLimit, RecordAttempt, Store, vars, Authorised
    <3>2. Suspended => (t \in Clearing' => t \in Clearing)
      <4>1. ASSUME NEW s \in Submissions, Begin(t, s) PROVE t \notin Clearing'
        BY <4>1, BeginMoves DEF Clearing
      <4>2. CASE ReadSwitch(t)
        BY <4>2, ReadSwitchMoves DEF Clearing
      <4>3. CASE Lookup(t) \/ ReadEntry(t)
        BY <4>3, LookupMoves, ReadEntryMoves DEF Clearing
      <4>4. CASE CheckConflict(t) \/ CheckLimit(t) \/ RecordAttempt(t)
        BY <4>4, CheckConflictMoves, CheckLimitMoves, RecordMoves DEF Clearing
      <4>5. CASE Store(t)
        BY <4>5, StoreMoves DEF Clearing
      <4>. QED
        BY <1>2, <2>4, <4>1, <4>2, <4>3, <4>4, <4>5 DEF Step
    <3>3. Suspended => Clearing' \subseteq Clearing
      BY <2>1, <3>2 DEF Clearing, Others
    <3>. QED
      BY <1>1, <2>1, <2>2, <3>1, <3>3 DEF LateInvariant
  <2>. QED
    BY <2>3, <2>4
<1>3. CASE Operate
  <2>1. /\ Clearing' = Clearing /\ Authorised' = Authorised
    BY <1>3, OperateTypes DEF Clearing, Authorised
  <2>2. CASE (Activate \/ SetCorrupted) /\ pulled' = Authorised
    BY <1>0, <2>1, <2>2, Groups DEF LateInvariant
  <2>3. CASE (Deactivate \/ Tick) /\ pulled' = pulled
    <3>1. Suspended' => Suspended
      BY <2>3 DEF Deactivate, Tick, Suspended, killSwitch
    <3>. QED
      BY <1>1, <2>1, <2>3, <3>1
  <2>. QED
    BY <1>3, <2>2, <2>3 DEF Operate, threads
<1>4. CASE UNCHANGED allVars
  <2>1. UNCHANGED <<active, corrupted, audit, pc, work, pulled>>
    BY <1>4 DEF allVars, vars, threads, killSwitch
  <2>. QED
    BY <2>1, <1>1 DEF Clearing, Authorised, Suspended
<1>. QED
  BY <1>2, <1>3, <1>4 DEF ThreadsNext

\* After the switch is pulled no more results are authorised than there are threads.
THEOREM LateApprovalsStayBounded == ThreadsSpec => []LateApprovalsAreBounded
<1>1. TypeInvariant /\ LateInvariant => LateApprovalsAreBounded
  <2>. SUFFICES ASSUME TypeInvariant, LateInvariant, Suspended
                PROVE  Authorised - pulled <= Cardinality(Threads)
    BY DEF LateApprovalsAreBounded
  <2>1. Authorised \in Nat /\ pulled \in Nat /\ Clearing \in SUBSET Threads
    BY AuthorisedType DEF TypeInvariant, Clearing
  <2>. QED
    BY <2>1, Groups DEF LateInvariant
<1>2. TypeInvariant /\ LateInvariant /\ [ThreadsNext]_allVars => LateInvariant'
  BY LateStep
<1>. QED
  BY <1>1, <1>2, LateInit, TypeInvariantHolds, PTL DEF ThreadsSpec

------------------------------------------------------------------------------
(* The decision store *)

Working(t, k) == pc[t] # "idle" /\ TargetKey(work[t].input) = k

Storing(k) == {t \in Threads : Working(t, k) /\ pc[t] = "store"}

\* Threads that found no decision and may still approve.
Deciding(k) ==
  {t \in Threads : Working(t, k) /\ \/ pc[t] \in {"conflict", "limit", "record"}
                                    \/ pc[t] = "conclude" /\ work[t].decision = "APPROVED"}

FreshFor(k) ==
  {i \in Logged : TargetKey(audit[i].input) = k /\ ~audit[i].replay /\ Approved(i)}

FreshInvariant ==
  \A k \in Targets :
    IF targetStore[k] = NoEntry THEN Cardinality(FreshFor(k)) <= Cardinality(Storing(k))
    ELSE Cardinality(FreshFor(k)) + Cardinality(Deciding(k)) <= Cardinality(Threads)

\* What these groups are made of.
LEMMA FreshGroups ==
  ASSUME TypeInvariant, NEW k
  PROVE  /\ Storing(k) \in SUBSET Threads /\ Deciding(k) \in SUBSET Threads
         /\ IsFiniteSet(FreshFor(k)) /\ FreshFor(k) \subseteq Logged
         /\ Cardinality(FreshFor(k)) \in Nat
         /\ Cardinality(Storing(k)) + Cardinality(Deciding(k)) <= Cardinality(Threads)
<1>1. /\ Storing(k) \in SUBSET Threads /\ Deciding(k) \in SUBSET Threads
      /\ Storing(k) \cap Deciding(k) = {}
  BY DEF Storing, Deciding
<1>2. FreshFor(k) \subseteq Logged /\ IsFiniteSet(Logged)
  BY LoggedIsFinite DEF TypeInvariant, FreshFor
<1>3. IsFiniteSet(FreshFor(k)) /\ Cardinality(FreshFor(k)) \in Nat
  BY <1>2, FS_Subset, FS_CardinalityType
<1>4. Cardinality(Storing(k)) + Cardinality(Deciding(k)) <= Cardinality(Threads)
  BY <1>1, DisjointGroups
<1>. QED
  BY <1>1, <1>2, <1>3, <1>4

LEMMA FreshInit == ThreadsInit => FreshInvariant
<1>. SUFFICES ASSUME ThreadsInit, NEW k \in Targets
              PROVE  IF targetStore[k] = NoEntry
                     THEN Cardinality(FreshFor(k)) <= Cardinality(Storing(k))
                     ELSE Cardinality(FreshFor(k)) + Cardinality(Deciding(k))
                            <= Cardinality(Threads)
  BY DEF FreshInvariant
<1>1. TypeInvariant
  BY TypeInvariantInit
<1>2. Storing(k) = {} /\ Deciding(k) = {} /\ Cardinality({}) = 0
  BY FS_EmptySet DEF ThreadsInit, Storing, Deciding, Working
<1>3. FreshFor(k) = {i \in DOMAIN Earlier : TargetKey(Earlier[i]) = k}
  BY DEF ThreadsInit, FreshFor, Logged, Approved
<1>4. targetStore[k] = EarlierEntry(k)
  BY DEF ThreadsInit
<1>5. CASE FreshFor(k) = {}
  <2>1. Cardinality(Threads) \in Nat
    BY <1>1, <1>2, Groups
  <2>. QED
    BY <1>2, <1>5, <2>1
<1>6. CASE FreshFor(k) # {}
  <2>1. PICK i \in DOMAIN Earlier : TargetKey(Earlier[i]) = k
    BY <1>3, <1>6
  <2>2. FreshFor(k) = {i}
    BY <1>3, <2>1, EarlierAssumption
  <2>3. Cardinality(FreshFor(k)) = 1
    BY <2>2, FS_Singleton
  <2>4. targetStore[k] # NoEntry
    BY <1>4, <2>1, EarlierEntries DEF NoEntry, NoDecision
  <2>5. Cardinality(Threads) \in Nat \ {0}
    BY <1>1, <1>2, Groups
  <2>. QED
    BY <1>2, <2>3, <2>4, <2>5
<1>. QED
  BY <1>5, <1>6

\* A thread that finds no decision works on a target that has none.
LEMMA LookupOfOpen ==
  ASSUME TypeInvariant, StoresAgree, NEW t \in Threads, Lookup(t), pc'[t] = "conflict"
  PROVE  targetStore[TargetKey(work[t].input)] = NoEntry
<1>. DEFINE s == work[t].input
<1>1. pc[t] = "lookup" /\ primary[s.proposal.id] = NoDecision
  BY LookupMoves
<1>2. s \in Submissions /\ TargetKey(s) \in Targets /\ Authentic(s)
  BY <1>1, WorkFacts DEF TypeInvariant, WorkOK, Admission
<1>3. targetStore[TargetKey(s)].decision = NoDecision
  BY <1>1, <1>2 DEF StoresAgree
<1>4. targetStore[TargetKey(s)] \in Entries \cup {NoEntry}
  BY <1>2 DEF TypeInvariant, GatewayTypeOK
<1>. QED
  BY <1>3, <1>4 DEF Entries, StoredDecisions, NoDecision

\* A step that neither logs nor stores adds to the deciding threads of an open target only.
LEMMA FreshQuiet ==
  ASSUME TypeInvariant, StoresAgree, NEW k \in Targets, NEW t \in Threads, Step(t),
         ~Log(t), ~Store(t)
  PROVE  /\ FreshFor(k)' = FreshFor(k) /\ Storing(k)' = Storing(k)
         /\ targetStore' = targetStore
         /\ targetStore[k] # NoEntry => Deciding(k)' \subseteq Deciding(k)
<1>1. audit' = audit /\ targetStore' = targetStore
  BY DEF Step, Begin, ReadSwitch, Lookup, ReadEntry, CheckConflict, CheckLimit,
         RecordAttempt, vars, store
<1>2. Others(t)
  BY StepMoves DEF Moves
<1>3. /\ pc[t] # "store" /\ pc'[t] # "store"
      /\ targetStore[k] # NoEntry /\ t \in Deciding(k)' => t \in Deciding(k)
  <2>1. ASSUME NEW s \in Submissions, Begin(t, s)
        PROVE  pc[t] # "store" /\ pc'[t] # "store" /\ t \notin Deciding(k)'
    BY <2>1, BeginMoves DEF Deciding
  <2>2. CASE ReadSwitch(t)
    BY <2>2, ReadSwitchMoves DEF Deciding
  <2>3. CASE Lookup(t)
    BY <2>3, LookupMoves, LookupOfOpen DEF Deciding, Working, Kept
  <2>4. CASE ReadEntry(t)
    BY <2>4, ReadEntryMoves DEF Deciding
  <2>5. CASE CheckConflict(t)
    BY <2>5, CheckConflictMoves DEF Deciding, Working, Kept
  <2>6. CASE CheckLimit(t)
    BY <2>6, CheckLimitMoves DEF Deciding, Working, Kept
  <2>7. CASE RecordAttempt(t)
    BY <2>7, RecordMoves DEF Deciding, Working, Kept
  <2>. QED
    BY <2>1, <2>2, <2>3, <2>4, <2>5, <2>6, <2>7 DEF Step
<1>4. FreshFor(k)' = FreshFor(k)
  BY <1>1 DEF FreshFor, Logged, Approved
<1>5. Storing(k)' = Storing(k)
  BY <1>2, <1>3 DEF Storing, Working, Others
<1>6. targetStore[k] # NoEntry => Deciding(k)' \subseteq Deciding(k)
  BY <1>2, <1>3 DEF Deciding, Working, Others
<1>. QED
  BY <1>1, <1>4, <1>5, <1>6

\* Logging a fresh decision moves its thread from the deciding to the storing ones.
LEMMA FreshLog ==
  ASSUME TypeInvariant, NEW k \in Targets, NEW t \in Threads, Log(t)
  PROVE  \/ /\ FreshFor(k)' = FreshFor(k) /\ Storing(k)' = Storing(k)
            /\ Deciding(k)' = Deciding(k)
         \/ /\ t \notin Storing(k) /\ Storing(k)' = Storing(k) \cup {t}
            /\ Deciding(k)' = Deciding(k) \ {t}
            /\ \/ FreshFor(k)' = FreshFor(k)
               \/ /\ t \in Deciding(k)
                  /\ \E n : n \notin FreshFor(k) /\ FreshFor(k)' = FreshFor(k) \cup {n}
<1>1. PICK n : n = Len(audit) + 1
  OBVIOUS
<1>2. /\ Logged' = Logged \cup {n} /\ n \notin Logged
      /\ \A i \in Logged : audit'[i] = audit[i]
      /\ audit'[n].input = work[t].input /\ audit'[n].decision = work[t].decision
      /\ audit'[n].replay = work[t].replay
  BY <1>1, LogStep
<1>3. Others(t)
  BY LogMoves DEF Moves
<1>4. FreshFor(k)' =
        IF /\ TargetKey(work[t].input) = k /\ work[t].decision = "APPROVED" /\ ~work[t].replay
        THEN FreshFor(k) \cup {n} ELSE FreshFor(k)
  BY <1>2 DEF FreshFor, Approved
<1>5. n \notin FreshFor(k)
  BY <1>2 DEF FreshFor
<1>6. CASE pc[t] = "log" /\ pc'[t] = "idle"
  <2>1. work[t].decision = "APPROVED" => work[t].replay
    BY <1>6 DEF TypeInvariant, WorkOK
  <2>2. Storing(k)' = Storing(k) /\ Deciding(k)' = Deciding(k)
    BY <1>3, <1>6 DEF Storing, Deciding, Working, Others
  <2>. QED
    BY <1>4, <2>1, <2>2
<1>7. CASE pc[t] = "conclude" /\ pc'[t] = "store" /\ work'[t] = work[t]
  <2>1. CASE TargetKey(work[t].input) # k
    <3>1. Storing(k)' = Storing(k) /\ Deciding(k)' = Deciding(k)
      BY <1>3, <1>7, <2>1 DEF Storing, Deciding, Working, Others
    <3>. QED
      BY <1>4, <2>1, <3>1
  <2>2. CASE TargetKey(work[t].input) = k
    <3>1. t \notin Storing(k) /\ Storing(k)' = Storing(k) \cup {t}
      BY <1>3, <1>7, <2>2 DEF Storing, Working, Others
    <3>2. Deciding(k)' = Deciding(k) \ {t}
      BY <1>3, <1>7, <2>2 DEF Deciding, Working, Others
    <3>3. work[t].decision = "APPROVED" => t \in Deciding(k)
      BY <1>7, <2>2 DEF Deciding, Working
    <3>. QED
      BY <1>4, <1>5, <3>1, <3>2, <3>3
  <2>. QED
    BY <2>1, <2>2
<1>. QED
  BY <1>6, <1>7, LogMoves

LEMMA FreshStep ==
  ASSUME TypeInvariant, TypeInvariant', StoresAgree, FreshInvariant, [ThreadsNext]_allVars
  PROVE  FreshInvariant'
<1>. SUFFICES ASSUME NEW k \in Targets
              PROVE  IF targetStore'[k] = NoEntry
                     THEN Cardinality(FreshFor(k)') <= Cardinality(Storing(k)')
                     ELSE Cardinality(FreshFor(k)') + Cardinality(Deciding(k)')
                            <= Cardinality(Threads)
  BY DEF FreshInvariant
<1>1. /\ IF targetStore[k] = NoEntry THEN Cardinality(FreshFor(k)) <= Cardinality(Storing(k))
         ELSE Cardinality(FreshFor(k)) + Cardinality(Deciding(k)) <= Cardinality(Threads)
      /\ Storing(k) \in SUBSET Threads /\ Deciding(k) \in SUBSET Threads
      /\ IsFiniteSet(FreshFor(k)) /\ Cardinality(FreshFor(k)) \in Nat
      /\ Cardinality(Storing(k)) + Cardinality(Deciding(k)) <= Cardinality(Threads)
  BY FreshGroups DEF FreshInvariant
<1>2. /\ Cardinality(Storing(k)) \in Nat /\ Cardinality(Deciding(k)) \in Nat
      /\ Cardinality(Threads) \in Nat
      /\ IsFiniteSet(Storing(k)) /\ IsFiniteSet(Deciding(k))
  BY <1>1, Groups
<1>3. CASE /\ FreshFor(k)' = FreshFor(k) /\ Storing(k)' = Storing(k)
           /\ targetStore' = targetStore
           /\ targetStore[k] # NoEntry => Deciding(k)' \subseteq Deciding(k)
  BY <1>1, <1>2, <1>3, Groups
<1>4. ASSUME NEW t \in Threads, Log(t),
             t \notin Storing(k), Storing(k)' = Storing(k) \cup {t},
             Deciding(k)' = Deciding(k) \ {t},
             \/ FreshFor(k)' = FreshFor(k)
             \/ /\ t \in Deciding(k)
                /\ \E n : n \notin FreshFor(k) /\ FreshFor(k)' = FreshFor(k) \cup {n}
      PROVE  IF targetStore'[k] = NoEntry
             THEN Cardinality(FreshFor(k)') <= Cardinality(Storing(k)')
             ELSE Cardinality(FreshFor(k)') + Cardinality(Deciding(k)') <= Cardinality(Threads)
  <2>1. targetStore' = targetStore
    BY <1>4 DEF Log, store
  <2>2. Cardinality(Storing(k)') = Cardinality(Storing(k)) + 1
    BY <1>2, <1>4, OneMore
  <2>3. CASE FreshFor(k)' = FreshFor(k)
    <3>1. Deciding(k)' \subseteq Deciding(k)
      BY <1>4
    <3>2. Cardinality(Deciding(k)') <= Cardinality(Deciding(k)) /\ Cardinality(Deciding(k)') \in Nat
      BY <1>1, <3>1, Groups
    <3>. QED
      BY <1>1, <1>2, <2>1, <2>2, <2>3, <3>2
  <2>4. CASE /\ t \in Deciding(k)
             /\ \E n : n \notin FreshFor(k) /\ FreshFor(k)' = FreshFor(k) \cup {n}
    <3>1. Cardinality(FreshFor(k)') = Cardinality(FreshFor(k)) + 1
      BY <1>1, <2>4, OneMore
    <3>2. Cardinality(Deciding(k)') = Cardinality(Deciding(k)) - 1
      BY <1>2, <1>4, <2>4, OneMore
    <3>. QED
      BY <1>1, <1>2, <2>1, <2>2, <3>1, <3>2
  <2>. QED
    BY <1>4, <2>3, <2>4
<1>5. ASSUME NEW t \in Threads, Log(t)
      PROVE  IF targetStore'[k] = NoEntry
             THEN Cardinality(FreshFor(k)') <= Cardinality(Storing(k)')
             ELSE Cardinality(FreshFor(k)') + Cardinality(Deciding(k)') <= Cardinality(Threads)
  <2>1. targetStore' = targetStore
    BY <1>5 DEF Log, store
  <2>. QED
    BY <1>3, <1>4, <1>5, <2>1, FreshLog
<1>6. ASSUME NEW t \in Threads, Store(t)
      PROVE  IF targetStore'[k] = NoEntry
             THEN Cardinality(FreshFor(k)') <= Cardinality(Storing(k)')
             ELSE Cardinality(FreshFor(k)') + Cardinality(Deciding(k)') <= Cardinality(Threads)
  <2>1. /\ pc[t] = "store" /\ pc'[t] = "idle" /\ Others(t)
    BY <1>6, StoreMoves DEF Moves
  <2>2. FreshFor(k)' = FreshFor(k)
    BY <1>6 DEF Store, FreshFor, Logged, Approved
  <2>3. Deciding(k)' = Deciding(k)
    BY <2>1 DEF Deciding, Working, Others
  <2>4. CASE TargetKey(work[t].input) = k
    <3>1. targetStore'[k] # NoEntry
      BY <1>6, <2>4, StoreStepFacts DEF TypeInvariant, GatewayTypeOK
    <3>. QED
      BY <1>1, <1>2, <2>2, <2>3, <3>1
  <2>5. CASE TargetKey(work[t].input) # k
    <3>1. targetStore'[k] = targetStore[k]
      BY <1>6, <2>5, StoreStepFacts DEF TypeInvariant, GatewayTypeOK
    <3>2. Storing(k)' = Storing(k)
      BY <2>1, <2>5 DEF Storing, Working, Others
    <3>. QED
      BY <1>1, <2>2, <2>3, <3>1, <3>2
  <2>. QED
    BY <2>4, <2>5
<1>7. ASSUME NEW t \in Threads, Step(t), ~Log(t), ~Store(t)
      PROVE  IF targetStore'[k] = NoEntry
             THEN Cardinality(FreshFor(k)') <= Cardinality(Storing(k)')
             ELSE Cardinality(FreshFor(k)') + Cardinality(Deciding(k)') <= Cardinality(Threads)
  BY <1>3, <1>7, FreshQuiet
<1>8. CASE Operate \/ UNCHANGED allVars
  <2>1. UNCHANGED <<audit, pc, work, targetStore>>
    BY <1>8, OperateTypes DEF allVars, vars, threads, store
  <2>2. FreshFor(k)' = FreshFor(k) /\ Storing(k)' = Storing(k) /\ Deciding(k)' = Deciding(k)
    BY <2>1 DEF FreshFor, Logged, Approved, Storing, Deciding, Working
  <2>. QED
    BY <1>3, <2>1, <2>2
<1>. QED
  BY <1>5, <1>6, <1>7, <1>8 DEF ThreadsNext

\* A target has no more fresh approvals than there are threads.
THEOREM FreshDecisionsStayBounded == ThreadsSpec => []FreshDecisionsAreBounded
<1>1. TypeInvariant /\ FreshInvariant => FreshDecisionsAreBounded
  <2>. SUFFICES ASSUME TypeInvariant, FreshInvariant, NEW k \in Targets
                PROVE  Cardinality(FreshFor(k)) <= Cardinality(Threads)
    BY DEF FreshDecisionsAreBounded, FreshFor
  <2>1. /\ Cardinality(FreshFor(k)) \in Nat
        /\ Storing(k) \in SUBSET Threads /\ Deciding(k) \in SUBSET Threads
    BY FreshGroups
  <2>2. /\ Cardinality(Storing(k)) \in Nat /\ Cardinality(Deciding(k)) \in Nat
        /\ Cardinality(Storing(k)) <= Cardinality(Threads) /\ Cardinality(Threads) \in Nat
    BY <2>1, Groups
  <2>. QED
    BY <2>1, <2>2 DEF FreshInvariant
<1>2. TypeInvariant /\ TypeInvariant' /\ StoresAgree /\ FreshInvariant /\ [ThreadsNext]_allVars
        => FreshInvariant'
  BY FreshStep
<1>. QED
  BY <1>1, <1>2, FreshInit, TypeInvariantHolds, StoresAlwaysAgree, PTL DEF ThreadsSpec

------------------------------------------------------------------------------
(* The limit of a customer c, in the window that begins at a *)

Within(time, a) == a <= time /\ time <= a + Window

Serving(t, c, a) ==
  pc[t] # "idle" /\ work[t].input.target.customer = c /\ Within(work[t].time, a)

LoggedIn(c, a) ==
  {i \in Logged : Approved(i) /\ audit[i].input.target.customer = c /\ Within(audit[i].time, a)}
Waiting(c, a) ==
  {t \in Threads : Serving(t, c, a) /\ pc[t] \in {"switch", "lookup", "conflict", "limit"}}
Granting(c, a) == {t \in Threads : Serving(t, c, a) /\ pc[t] = "record"}
Leaving(c, a) ==
  {t \in Threads : Serving(t, c, a) /\ pc[t] = "conclude" /\ work[t].decision = "APPROVED"}
Held(c, a) == {x \in customerTimes[c] : Within(x.time, a)}

Out(c, a) == Cardinality(LoggedIn(c, a)) + Cardinality(Leaving(c, a))

\* Either every approval of the window is still held, and then a check that passes
\* leaves room for what the other threads were let through before; or the window is
\* over, and only the threads that began in it can add to it.
CustomerBound(c, a) ==
  \/ /\ Out(c, a) <= Cardinality(Held(c, a))
     /\ Out(c, a) + Cardinality(Granting(c, a)) <= 3 * RateLimit + Cardinality(Threads) - 1
  \/ /\ now > a + Window
     /\ Out(c, a) + Cardinality(Granting(c, a)) + Cardinality(Waiting(c, a))
          <= 3 * RateLimit + 2 * (Cardinality(Threads) - 1)

\* Attempts are told apart by the number of their evaluation.
Unrecorded == {"switch", "lookup", "entry", "conflict", "limit", "record"}

Numbered ==
  /\ \A t, u \in Threads : pc[t] # "idle" /\ pc[u] # "idle" /\ t # u =>
       work[t].evaluation # work[u].evaluation
  /\ \A c \in Customers : \A x \in customerTimes[c] :
       /\ x.evaluation <= begun
       /\ \A t \in Threads : pc[t] \in Unrecorded => work[t].evaluation # x.evaluation

LimitInvariant ==
  /\ Numbered
  /\ \A c \in Customers : IsFiniteSet(customerTimes[c])
  /\ \A c \in Customers, a \in Int : CustomerBound(c, a)

\* No attempt is recorded, and the thread begins nothing new.
LEMMA NumberedQuiet ==
  ASSUME TypeInvariant, Numbered, NEW t \in Threads, Others(t), begun' = begun,
         \A c \in Customers : customerTimes'[c] \subseteq customerTimes[c],
         pc'[t] # "idle" => pc[t] # "idle" /\ Kept(t),
         pc'[t] \in Unrecorded => pc[t] \in Unrecorded
  PROVE  Numbered'
<1>1. \A u \in Threads : pc'[u] # "idle" =>
        pc[u] # "idle" /\ work'[u].evaluation = work[u].evaluation
  BY DEF Others, Kept
<1>2. \A u \in Threads : pc'[u] \in Unrecorded =>
        pc[u] \in Unrecorded /\ work'[u].evaluation = work[u].evaluation
  BY <1>1 DEF Others, Unrecorded
<1>3. ASSUME NEW v \in Threads, NEW u \in Threads, pc'[v] # "idle", pc'[u] # "idle", v # u
      PROVE  work'[v].evaluation # work'[u].evaluation
  BY <1>1, <1>3 DEF Numbered
<1>4. ASSUME NEW c \in Customers, NEW x \in customerTimes'[c]
      PROVE  /\ x.evaluation <= begun'
             /\ \A u \in Threads : pc'[u] \in Unrecorded => work'[u].evaluation # x.evaluation
  <2>1. x \in customerTimes[c]
    BY <1>4
  <2>. QED
    BY <1>2, <2>1 DEF Numbered
<1>. QED
  BY <1>3, <1>4 DEF Numbered

LEMMA NumberedStep ==
  ASSUME TypeInvariant, Numbered, [ThreadsNext]_allVars
  PROVE  Numbered'
<1>0. GatewayTypeOK
  BY DEF TypeInvariant
<1>1. ASSUME NEW t \in Threads, NEW s \in Submissions, Begin(t, s) PROVE Numbered'
  <2>1. /\ pc'[t] = "switch" /\ work'[t].evaluation = begun + 1 /\ Others(t)
        /\ begun' = begun + 1 /\ customerTimes' = customerTimes
    BY <1>1, BeginMoves DEF Moves, Started, Begin, vars, limiter
  <2>2. \A u \in Threads : u # t /\ pc'[u] # "idle" =>
          pc[u] # "idle" /\ work'[u].evaluation = work[u].evaluation
            /\ work[u].evaluation # begun + 1
    <3>. SUFFICES ASSUME NEW u \in Threads, u # t, pc'[u] # "idle"
                  PROVE  pc[u] # "idle" /\ work'[u].evaluation = work[u].evaluation
                           /\ work[u].evaluation # begun + 1
      OBVIOUS
    <3>1. pc[u] # "idle" /\ work'[u] = work[u]
      BY <2>1 DEF Others
    <3>. QED
      BY <3>1, WorkFacts
  <2>3. ASSUME NEW v \in Threads, NEW u \in Threads, pc'[v] # "idle", pc'[u] # "idle", v # u
        PROVE  work'[v].evaluation # work'[u].evaluation
    BY <2>1, <2>2, <2>3 DEF Numbered
  <2>4. ASSUME NEW c \in Customers, NEW x \in customerTimes'[c]
        PROVE  /\ x.evaluation <= begun'
               /\ \A u \in Threads :
                    pc'[u] \in Unrecorded => work'[u].evaluation # x.evaluation
    <3>1. x \in Attempts /\ begun \in Nat /\ x.evaluation <= begun
      BY <1>0, <2>1, <2>4 DEF GatewayTypeOK, Numbered, TypeInvariant
    <3>2. x.evaluation \in Nat
      BY <3>1 DEF Attempts
    <3>3. ASSUME NEW u \in Threads, pc'[u] \in Unrecorded, u # t
          PROVE  work'[u].evaluation # x.evaluation
      <4>1. pc[u] = pc'[u] /\ work'[u] = work[u]
        BY <2>1, <3>3 DEF Others
      <4>. QED
        BY <2>1, <2>4, <3>3, <4>1 DEF Numbered
    <3>. QED
      BY <2>1, <3>1, <3>2, <3>3
  <2>. QED
    BY <2>3, <2>4 DEF Numbered
<1>2. ASSUME NEW t \in Threads, RecordAttempt(t) PROVE Numbered'
  <2>. DEFINE x == [time |-> work[t].time, evaluation |-> work[t].evaluation]
  <2>1. /\ pc[t] = "record" /\ pc'[t] = "conclude" /\ Others(t) /\ Kept(t)
        /\ begun' = begun
    BY <1>2, RecordMoves DEF Moves, RecordAttempt
  <2>2. \A c \in Customers : customerTimes'[c] \subseteq customerTimes[c] \cup {x}
    BY <1>0, <1>2 DEF RecordAttempt, GatewayTypeOK
  <2>3. x.evaluation = work[t].evaluation /\ x.evaluation <= begun
    BY <2>1, WorkFacts
  <2>. HIDE DEF x
  <2>4. \A u \in Threads : pc'[u] # "idle" =>
          pc[u] # "idle" /\ work'[u].evaluation = work[u].evaluation
    BY <2>1 DEF Others, Kept
  <2>5. ASSUME NEW v \in Threads, NEW u \in Threads, pc'[v] # "idle", pc'[u] # "idle", v # u
        PROVE  work'[v].evaluation # work'[u].evaluation
    BY <2>4, <2>5 DEF Numbered
  <2>6. ASSUME NEW c \in Customers, NEW y \in customerTimes'[c]
        PROVE  /\ y.evaluation <= begun'
               /\ \A u \in Threads :
                    pc'[u] \in Unrecorded => work'[u].evaluation # y.evaluation
    <3>1. ASSUME NEW u \in Threads, pc'[u] \in Unrecorded
          PROVE  u # t /\ pc[u] = pc'[u] /\ work'[u] = work[u] /\ pc[u] # "idle"
      BY <2>1, <3>1 DEF Others, Unrecorded
    <3>2. CASE y \in customerTimes[c]
      BY <2>1, <3>1, <3>2 DEF Numbered
    <3>3. CASE y = x
      BY <2>1, <2>3, <3>1, <3>3 DEF Numbered
    <3>. QED
      BY <2>2, <2>6, <3>2, <3>3
  <2>. QED
    BY <2>5, <2>6 DEF Numbered
<1>3. ASSUME NEW t \in Threads, Step(t), ~RecordAttempt(t),
             \A s \in Submissions : ~Begin(t, s)
      PROVE  Numbered'
  <2>1. Others(t) /\ begun' = begun
    BY <1>3, StepMoves
       DEF Moves, Step, ReadSwitch, Lookup, ReadEntry, CheckConflict, CheckLimit, Log, Store
  <2>2. \A c \in Customers : customerTimes'[c] \subseteq customerTimes[c]
    <3>1. CASE CheckLimit(t)
      BY <1>0, <3>1 DEF CheckLimit, Counted, GatewayTypeOK
    <3>2. CASE customerTimes' = customerTimes
      BY <3>2
    <3>. QED
      BY <1>3, <3>1, <3>2 DEF Step, ReadSwitch, Lookup, ReadEntry, CheckConflict, Log, Store,
         vars, limiter
  <2>3. /\ pc'[t] # "idle" => pc[t] # "idle" /\ Kept(t)
        /\ pc'[t] \in Unrecorded => pc[t] \in Unrecorded
    <3>1. CASE ReadSwitch(t) \/ Lookup(t) \/ ReadEntry(t)
      BY <3>1, ReadSwitchMoves, LookupMoves, ReadEntryMoves DEF Unrecorded
    <3>2. CASE CheckConflict(t) \/ CheckLimit(t)
      BY <3>2, CheckConflictMoves, CheckLimitMoves DEF Unrecorded
    <3>3. CASE Log(t) \/ Store(t)
      BY <3>3, LogMoves, StoreMoves DEF Unrecorded, Kept
    <3>. QED
      BY <1>3, <3>1, <3>2, <3>3 DEF Step
  <2>. QED
    BY <2>1, <2>2, <2>3, NumberedQuiet
<1>4. CASE Operate \/ UNCHANGED allVars
  <2>1. UNCHANGED <<pc, work, begun, customerTimes>>
    BY <1>4, OperateTypes DEF allVars, vars, threads, limiter
  <2>. QED
    BY <2>1 DEF Numbered
<1>. QED
  BY <1>1, <1>2, <1>3, <1>4 DEF ThreadsNext

LEMMA TimesStayFinite ==
  ASSUME TypeInvariant, \A c \in Customers : IsFiniteSet(customerTimes[c]),
         [ThreadsNext]_allVars, NEW c \in Customers
  PROVE  IsFiniteSet(customerTimes'[c])
<1>0. GatewayTypeOK
  BY DEF TypeInvariant
<1>1. CASE customerTimes'[c] \subseteq customerTimes[c]
  BY <1>1, FS_Subset
<1>2. ASSUME NEW t \in Threads, RecordAttempt(t) PROVE IsFiniteSet(customerTimes'[c])
  <2>1. PICK x : \/ customerTimes'[c] = customerTimes[c]
                 \/ customerTimes'[c] = customerTimes[c] \cup {x}
    BY <1>0, <1>2 DEF RecordAttempt, GatewayTypeOK
  <2>. QED
    BY <2>1, OneMore
<1>3. ASSUME NEW t \in Threads, CheckLimit(t)
      PROVE  customerTimes'[c] \subseteq customerTimes[c]
  BY <1>0, <1>3 DEF CheckLimit, Counted, GatewayTypeOK
<1>4. ASSUME NEW t \in Threads, Step(t), ~RecordAttempt(t), ~CheckLimit(t)
      PROVE  customerTimes' = customerTimes
  BY <1>4 DEF Step, Begin, ReadSwitch, Lookup, ReadEntry, CheckConflict, Log, Store,
              vars, limiter
<1>5. CASE Operate \/ UNCHANGED allVars
  BY <1>1, <1>5, OperateTypes DEF limiter, allVars, vars
<1>. QED
  BY <1>1, <1>2, <1>3, <1>4, <1>5 DEF ThreadsNext

\* The sets the bound counts.
LEMMA BoundGroups ==
  ASSUME TypeInvariant, NEW c \in Customers, NEW a \in Int, IsFiniteSet(customerTimes[c])
  PROVE  /\ LoggedIn(c, a) \subseteq Logged /\ IsFiniteSet(LoggedIn(c, a))
         /\ Held(c, a) \subseteq customerTimes[c] /\ IsFiniteSet(Held(c, a))
         /\ Waiting(c, a) \in SUBSET Threads /\ Leaving(c, a) \in SUBSET Threads
         /\ Granting(c, a) \in SUBSET Threads
         /\ IsFiniteSet(Waiting(c, a)) /\ IsFiniteSet(Leaving(c, a))
         /\ IsFiniteSet(Granting(c, a))
         /\ Cardinality(LoggedIn(c, a)) \in Nat /\ Cardinality(Held(c, a)) \in Nat
         /\ Cardinality(Waiting(c, a)) \in Nat /\ Cardinality(Leaving(c, a)) \in Nat
         /\ Cardinality(Granting(c, a)) \in Nat /\ Cardinality(Threads) \in Nat \ {0}
         /\ Out(c, a) \in Nat
<1>1. LoggedIn(c, a) \subseteq Logged /\ IsFiniteSet(Logged)
  BY LoggedIsFinite DEF TypeInvariant, LoggedIn
<1>2. Held(c, a) \subseteq customerTimes[c]
  BY DEF Held
<1>3. /\ Waiting(c, a) \in SUBSET Threads /\ Leaving(c, a) \in SUBSET Threads
      /\ Granting(c, a) \in SUBSET Threads
  BY DEF Waiting, Leaving, Granting
<1>4. IsFiniteSet(LoggedIn(c, a)) /\ IsFiniteSet(Held(c, a))
  BY <1>1, <1>2, FS_Subset
<1>5. Cardinality(LoggedIn(c, a)) \in Nat /\ Cardinality(Held(c, a)) \in Nat
  BY <1>4, FS_CardinalityType
<1>6. Cardinality(Leaving(c, a)) \in Nat
  BY <1>3, Groups
<1>7. Out(c, a) \in Nat
  BY <1>5, <1>6 DEF Out
<1>. QED
  BY <1>1, <1>2, <1>3, <1>4, <1>5, <1>7, Groups

\* Steps that add no approval, and none that waits once the window is over.
LEMMA BoundQuiet ==
  ASSUME TypeInvariant, NEW c \in Customers, NEW a \in Int, IsFiniteSet(customerTimes[c]),
         CustomerBound(c, a),
         LoggedIn(c, a)' = LoggedIn(c, a), Leaving(c, a)' = Leaving(c, a),
         Granting(c, a)' = Granting(c, a), Held(c, a)' = Held(c, a),
         now <= now', now \in Nat, now' \in Nat,
         now > a + Window => Waiting(c, a)' \subseteq Waiting(c, a)
  PROVE  CustomerBound(c, a)'
<1>1. Out(c, a)' = Out(c, a)
  BY DEF Out
<1>2. Waiting(c, a)' \subseteq Waiting(c, a) =>
        Cardinality(Waiting(c, a)') <= Cardinality(Waiting(c, a))
          /\ Cardinality(Waiting(c, a)') \in Nat
  BY BoundGroups, Groups
<1>3. a + Window \in Int /\ RateLimit \in Nat
  BY GatewayAssumption
<1>4. CASE Out(c, a) <= Cardinality(Held(c, a))
           /\ Out(c, a) + Cardinality(Granting(c, a)) <= 3 * RateLimit + Cardinality(Threads) - 1
  BY <1>1, <1>4 DEF CustomerBound
<1>5. CASE /\ now > a + Window
           /\ Out(c, a) + Cardinality(Granting(c, a)) + Cardinality(Waiting(c, a))
                <= 3 * RateLimit + 2 * (Cardinality(Threads) - 1)
  <2>1. now' > a + Window
    BY <1>3, <1>5
  <2>2. Out(c, a) + Cardinality(Granting(c, a)) + Cardinality(Waiting(c, a)')
          <= 3 * RateLimit + 2 * (Cardinality(Threads) - 1)
    <3>1. /\ Cardinality(Waiting(c, a)') <= Cardinality(Waiting(c, a))
          /\ Cardinality(Waiting(c, a)') \in Nat
      BY <1>2, <1>5
    <3>2. /\ Out(c, a) \in Nat /\ Cardinality(Granting(c, a)) \in Nat
          /\ Cardinality(Waiting(c, a)) \in Nat /\ Cardinality(Threads) \in Nat
      BY BoundGroups
    <3>. QED
      BY <1>3, <1>5, <3>1, <3>2
  <2>. QED
    BY <1>1, <2>1, <2>2 DEF CustomerBound
<1>. QED
  BY <1>4, <1>5 DEF CustomerBound

\* The limit check of a thread outside the window: it may end the window for the rest.
LEMMA BoundPruned ==
  ASSUME TypeInvariant, NEW c \in Customers, NEW a \in Int, IsFiniteSet(customerTimes[c]),
         CustomerBound(c, a), NEW t \in Threads, t \notin Waiting(c, a),
         LoggedIn(c, a)' = LoggedIn(c, a), Leaving(c, a)' = Leaving(c, a),
         Granting(c, a)' = Granting(c, a), Waiting(c, a)' = Waiting(c, a),
         now' = now, now > a + Window
  PROVE  CustomerBound(c, a)'
<1>1. Out(c, a)' = Out(c, a)
  BY DEF Out
<1>2. RateLimit \in Nat
  BY GatewayAssumption
<1>3. Cardinality(Waiting(c, a)) <= Cardinality(Threads) - 1
  <2>1. Waiting(c, a) \subseteq Threads \ {t}
    BY BoundGroups
  <2>2. IsFiniteSet(Threads \ {t}) /\ Cardinality(Threads \ {t}) = Cardinality(Threads) - 1
    BY ThreadsAssumption, OneMore
  <2>. QED
    BY <2>1, <2>2, FS_Subset
<1>4. Out(c, a) + Cardinality(Granting(c, a)) + Cardinality(Waiting(c, a))
        <= 3 * RateLimit + 2 * (Cardinality(Threads) - 1)
  BY <1>2, <1>3, BoundGroups DEF CustomerBound
<1>. QED
  BY <1>1, <1>4 DEF CustomerBound

\* A check passed within the window.
LEMMA BoundGranted ==
  ASSUME TypeInvariant, NEW c \in Customers, NEW a \in Int, IsFiniteSet(customerTimes[c]),
         CustomerBound(c, a), NEW t \in Threads,
         LoggedIn(c, a)' = LoggedIn(c, a), Leaving(c, a)' = Leaving(c, a),
         Held(c, a)' = Held(c, a), Cardinality(Held(c, a)) < 3 * RateLimit,
         t \in Waiting(c, a), Waiting(c, a)' = Waiting(c, a) \ {t},
         t \notin Granting(c, a), Granting(c, a)' = Granting(c, a) \cup {t},
         now' = now
  PROVE  CustomerBound(c, a)'
<1>1. Out(c, a)' = Out(c, a)
  BY DEF Out
<1>2. RateLimit \in Nat
  BY GatewayAssumption
<1>3. /\ Cardinality(Granting(c, a)') = Cardinality(Granting(c, a)) + 1
      /\ Cardinality(Waiting(c, a)') = Cardinality(Waiting(c, a)) - 1
  BY BoundGroups, OneMore
<1>4. Cardinality(Granting(c, a)') <= Cardinality(Threads)
  <2>1. Granting(c, a)' \in SUBSET Threads
    BY BoundGroups
  <2>. QED
    BY <2>1, Groups
<1>5. CASE Out(c, a) <= Cardinality(Held(c, a))
  <2>1. Out(c, a) + Cardinality(Granting(c, a)') <= 3 * RateLimit + Cardinality(Threads) - 1
    BY <1>2, <1>3, <1>4, <1>5, BoundGroups
  <2>. QED
    BY <1>1, <1>5, <2>1 DEF CustomerBound
<1>6. CASE /\ now > a + Window
           /\ Out(c, a) + Cardinality(Granting(c, a)) + Cardinality(Waiting(c, a))
                <= 3 * RateLimit + 2 * (Cardinality(Threads) - 1)
  <2>1. Out(c, a) + Cardinality(Granting(c, a)') + Cardinality(Waiting(c, a)')
          <= 3 * RateLimit + 2 * (Cardinality(Threads) - 1)
    BY <1>2, <1>3, <1>6, BoundGroups
  <2>. QED
    BY <1>1, <1>6, <2>1 DEF CustomerBound
<1>. QED
  BY <1>5, <1>6 DEF CustomerBound

\* An attempt recorded, and an approval logged, within the window.
LEMMA BoundRecorded ==
  ASSUME TypeInvariant, NEW c \in Customers, NEW a \in Int, IsFiniteSet(customerTimes[c]),
         CustomerBound(c, a), NEW t \in Threads, NEW x,
         LoggedIn(c, a)' = LoggedIn(c, a), Waiting(c, a)' = Waiting(c, a),
         x \notin Held(c, a), Held(c, a)' = Held(c, a) \cup {x},
         t \in Granting(c, a), Granting(c, a)' = Granting(c, a) \ {t},
         t \notin Leaving(c, a), Leaving(c, a)' = Leaving(c, a) \cup {t},
         now' = now
  PROVE  CustomerBound(c, a)'
<1>1. /\ Cardinality(Held(c, a)') = Cardinality(Held(c, a)) + 1
      /\ Cardinality(Leaving(c, a)') = Cardinality(Leaving(c, a)) + 1
      /\ Cardinality(Granting(c, a)') = Cardinality(Granting(c, a)) - 1
  BY BoundGroups, OneMore
<1>2. Out(c, a)' = Out(c, a) + 1
  BY <1>1, BoundGroups DEF Out
<1>3. RateLimit \in Nat /\ a + Window \in Int
  BY GatewayAssumption
<1>4. Out(c, a)' + Cardinality(Granting(c, a)') = Out(c, a) + Cardinality(Granting(c, a))
  BY <1>1, <1>2, BoundGroups
<1>. QED
  BY <1>1, <1>2, <1>3, <1>4, BoundGroups DEF CustomerBound

LEMMA BoundLogged ==
  ASSUME TypeInvariant, NEW c \in Customers, NEW a \in Int, IsFiniteSet(customerTimes[c]),
         CustomerBound(c, a), NEW t \in Threads, NEW n,
         n \notin LoggedIn(c, a), LoggedIn(c, a)' = LoggedIn(c, a) \cup {n},
         t \in Leaving(c, a), Leaving(c, a)' = Leaving(c, a) \ {t},
         Granting(c, a)' = Granting(c, a), Waiting(c, a)' = Waiting(c, a),
         Held(c, a)' = Held(c, a), now' = now
  PROVE  CustomerBound(c, a)'
<1>1. /\ Cardinality(LoggedIn(c, a)') = Cardinality(LoggedIn(c, a)) + 1
      /\ Cardinality(Leaving(c, a)') = Cardinality(Leaving(c, a)) - 1
  BY BoundGroups, OneMore
<1>2. Out(c, a)' = Out(c, a)
  BY <1>1, BoundGroups DEF Out
<1>. QED
  BY <1>2 DEF CustomerBound

\* What check, record and log do to the groups of one customer and window.
LEMMA LimitStep ==
  ASSUME TypeInvariant, NEW c \in Customers, NEW a \in Int, IsFiniteSet(customerTimes[c]),
         CustomerBound(c, a), NEW t \in Threads, CheckLimit(t)
  PROVE  CustomerBound(c, a)'
<1>. DEFINE w == work[t].time
            mine == work[t].input.target.customer = c
            counted == Counted(customerTimes[c], w)
<1>1. /\ pc[t] = "limit" /\ Others(t) /\ Kept(t)
      /\ pc'[t] = "record" \/ (pc'[t] = "log" /\ work'[t].decision # "APPROVED")
  BY CheckLimitMoves DEF Moves
<1>2. w \in Nat /\ w <= now /\ now \in Nat /\ Window \in Nat /\ a + Window \in Int
  BY <1>1, WorkFacts, GatewayAssumption
<1>3. /\ audit' = audit /\ now' = now
      /\ customerTimes \in [Customers -> SUBSET Attempts]
      /\ customerTimes'[c] = customerTimes[c] \/ (mine /\ customerTimes'[c] = counted)
      /\ pc'[t] = "record" /\ mine => Cardinality(counted) < 3 * RateLimit
  <2>1. audit' = audit /\ now' = now /\ customerTimes \in [Customers -> SUBSET Attempts]
    BY DEF CheckLimit, TypeInvariant, GatewayTypeOK
  <2>2. customerTimes'[c] = customerTimes[c] \/ (mine /\ customerTimes'[c] = counted)
    BY <2>1 DEF CheckLimit
  <2>3. pc'[t] = "record" /\ mine => ~ (Cardinality(counted) >= 3 * RateLimit)
    BY <1>1 DEF CheckLimit, Answer, Goto, TypeInvariant
  <2>4. IsFiniteSet(counted)
    BY FS_Subset DEF Counted
  <2>5. Cardinality(counted) \in Nat /\ 3 * RateLimit \in Nat
    BY <2>4, FS_CardinalityType, GatewayAssumption
  <2>. QED
    BY <2>1, <2>2, <2>3, <2>5
<1>4. LoggedIn(c, a)' = LoggedIn(c, a)
  BY <1>3 DEF LoggedIn, Logged, Approved
<1>5. Leaving(c, a)' = Leaving(c, a)
  BY <1>1 DEF Leaving, Serving, Others
<1>6. t \notin Granting(c, a)
      /\ Granting(c, a)' = IF pc'[t] = "record" /\ mine /\ Within(w, a)
                           THEN Granting(c, a) \cup {t} ELSE Granting(c, a)
  BY <1>1 DEF Granting, Serving, Others, Kept
<1>7. /\ Waiting(c, a)' = Waiting(c, a) \ {t}
      /\ t \in Waiting(c, a) <=> mine /\ Within(w, a)
  BY <1>1 DEF Waiting, Serving, Others, Kept
<1>8. CASE mine /\ w > a + Window
  <2>1. t \notin Waiting(c, a) /\ ~Within(w, a)
    BY <1>2, <1>7, <1>8 DEF Within
  <2>2. now > a + Window
    BY <1>2, <1>8
  <2>3. Waiting(c, a)' = Waiting(c, a) /\ Granting(c, a)' = Granting(c, a)
    BY <1>6, <1>7, <2>1
  <2>. QED
    BY <1>3, <1>4, <1>5, <2>1, <2>2, <2>3, BoundPruned
<1>9. CASE ~ (mine /\ w > a + Window)
  <2>1. mine => \A x \in Held(c, a) : x \in counted
    <3>. SUFFICES ASSUME mine, NEW x \in Held(c, a) PROVE x \in counted
      OBVIOUS
    <3>1. x \in customerTimes[c] /\ a <= x.time
      BY DEF Held, Within
    <3>2. x.time \in Nat
      BY <1>3, <3>1 DEF Attempts
    <3>3. x.time >= w - Window
      BY <1>2, <1>9, <3>1, <3>2
    <3>. QED
      BY <3>1, <3>3 DEF Counted
  <2>2. counted \subseteq customerTimes[c]
    BY DEF Counted
  <2>3. Held(c, a)' = Held(c, a)
    <3>1. Held(c, a)' = {x \in customerTimes'[c] : Within(x.time, a)}
      BY DEF Held, Within
    <3>2. CASE customerTimes'[c] = customerTimes[c]
      BY <3>1, <3>2 DEF Held
    <3>3. CASE mine /\ customerTimes'[c] = counted
      BY <2>1, <2>2, <3>1, <3>3 DEF Held
    <3>. QED
      BY <1>3, <3>2, <3>3
  <2>4. CASE pc'[t] = "record" /\ mine /\ Within(w, a)
    <3>1. Cardinality(Held(c, a)) < 3 * RateLimit
      <4>1. Held(c, a) \subseteq counted
        BY <2>1, <2>4
      <4>2. IsFiniteSet(counted)
        BY <2>2, FS_Subset
      <4>3. Cardinality(Held(c, a)) <= Cardinality(counted) /\ Cardinality(counted) \in Nat
        BY <4>1, <4>2, FS_Subset, FS_CardinalityType
      <4>. QED
        BY <1>3, <2>4, <4>3, BoundGroups, GatewayAssumption
    <3>2. t \in Waiting(c, a) /\ Granting(c, a)' = Granting(c, a) \cup {t}
      BY <1>6, <1>7, <2>4
    <3>. QED
      BY <1>3, <1>4, <1>5, <1>6, <1>7, <2>3, <3>1, <3>2, BoundGranted
  <2>5. CASE ~ (pc'[t] = "record" /\ mine /\ Within(w, a))
    <3>1. Granting(c, a)' = Granting(c, a) /\ Waiting(c, a)' \subseteq Waiting(c, a)
      BY <1>6, <1>7, <2>5
    <3>2. now <= now' /\ now' \in Nat
      BY <1>2, <1>3
    <3>. QED
      BY <1>2, <1>4, <1>5, <2>3, <3>1, <3>2, BoundQuiet
  <2>. QED
    BY <2>4, <2>5
<1>. QED
  BY <1>8, <1>9

LEMMA RecordStep ==
  ASSUME TypeInvariant, Numbered, NEW c \in Customers, NEW a \in Int,
         IsFiniteSet(customerTimes[c]), CustomerBound(c, a), NEW t \in Threads,
         RecordAttempt(t)
  PROVE  CustomerBound(c, a)'
<1>. DEFINE w == work[t].time
            x == [time |-> w, evaluation |-> work[t].evaluation]
            mine == work[t].input.target.customer = c
<1>1. /\ pc[t] = "record" /\ pc'[t] = "conclude" /\ work'[t].decision = "APPROVED"
      /\ Others(t) /\ Kept(t)
  BY RecordMoves DEF Moves
<1>2. /\ audit' = audit /\ now' = now /\ now \in Nat
      /\ customerTimes'[c] = IF mine THEN customerTimes[c] \cup {x} ELSE customerTimes[c]
  BY <1>1, WorkFacts DEF RecordAttempt, TypeInvariant, GatewayTypeOK
<1>3. x \notin customerTimes[c]
  BY <1>1 DEF Numbered, Unrecorded
<1>4. LoggedIn(c, a)' = LoggedIn(c, a)
  BY <1>2 DEF LoggedIn, Logged, Approved
<1>5. Waiting(c, a)' = Waiting(c, a)
  BY <1>1 DEF Waiting, Serving, Others
<1>6. CASE mine /\ Within(w, a)
  <2>1. /\ t \in Granting(c, a) /\ Granting(c, a)' = Granting(c, a) \ {t}
        /\ t \notin Leaving(c, a) /\ Leaving(c, a)' = Leaving(c, a) \cup {t}
    BY <1>1, <1>6 DEF Granting, Leaving, Serving, Others, Kept
  <2>2. x \notin Held(c, a) /\ Held(c, a)' = Held(c, a) \cup {x}
    BY <1>2, <1>3, <1>6 DEF Held, Within
  <2>. QED
    BY <1>2, <1>4, <1>5, <2>1, <2>2, BoundRecorded
<1>7. CASE ~ (mine /\ Within(w, a))
  <2>1. Granting(c, a)' = Granting(c, a) /\ Leaving(c, a)' = Leaving(c, a)
    BY <1>1, <1>7 DEF Granting, Leaving, Serving, Others, Kept
  <2>2. Held(c, a)' = Held(c, a)
    BY <1>2, <1>7 DEF Held, Within
  <2>3. now <= now' /\ now' \in Nat
    BY <1>2
  <2>. QED
    BY <1>2, <1>4, <1>5, <2>1, <2>2, <2>3, BoundQuiet
<1>. QED
  BY <1>6, <1>7

LEMMA LogBound ==
  ASSUME TypeInvariant, NEW c \in Customers, NEW a \in Int, IsFiniteSet(customerTimes[c]),
         CustomerBound(c, a), NEW t \in Threads, Log(t)
  PROVE  CustomerBound(c, a)'
<1>n. PICK n : n = Len(audit) + 1
  OBVIOUS
<1>1. /\ Logged' = Logged \cup {n} /\ n \notin Logged
      /\ \A i \in Logged : audit'[i] = audit[i]
      /\ audit'[n].input = work[t].input /\ audit'[n].time = work[t].time
      /\ audit'[n].decision = work[t].decision /\ audit'[n].replay = work[t].replay
  BY <1>n, LogStep
<1>2. /\ customerTimes' = customerTimes /\ now' = now /\ now \in Nat
      /\ pc[t] \in {"log", "conclude"}
  BY WorkFacts DEF Log, At, limiter
<1>3. Others(t) /\ \/ pc[t] = "log" /\ pc'[t] = "idle"
                   \/ pc[t] = "conclude" /\ pc'[t] = "store"
  BY LogMoves DEF Moves
<1>. DEFINE counts == /\ work[t].input.target.customer = c /\ Within(work[t].time, a)
                      /\ work[t].decision = "APPROVED" /\ ~work[t].replay
<1>4. LoggedIn(c, a)' = IF counts THEN LoggedIn(c, a) \cup {n} ELSE LoggedIn(c, a)
  <2>1. Approved(n)' <=> work[t].decision = "APPROVED" /\ ~work[t].replay
    BY <1>1 DEF Approved
  <2>2. \A i \in Logged : Approved(i)' <=> Approved(i)
    BY <1>1 DEF Approved
  <2>. QED
    BY <1>1, <2>1, <2>2 DEF LoggedIn, Within
<1>5. /\ Granting(c, a)' = Granting(c, a) /\ Waiting(c, a)' = Waiting(c, a)
      /\ Held(c, a)' = Held(c, a)
  BY <1>2, <1>3 DEF Granting, Waiting, Held, Serving, Others, Within
<1>6. Leaving(c, a)' = Leaving(c, a) \ {t} /\ (t \in Leaving(c, a) <=> counts)
  <2>1. Leaving(c, a)' = Leaving(c, a) \ {t}
    BY <1>3 DEF Leaving, Serving, Others
  <2>2. CASE pc[t] = "log"
    BY <2>1, <2>2 DEF Leaving, TypeInvariant, WorkOK
  <2>3. CASE pc[t] = "conclude"
    BY <2>1, <2>3 DEF Leaving, Serving, TypeInvariant, WorkOK, Conclusion
  <2>. QED
    BY <1>2, <2>1, <2>2, <2>3
<1>7. CASE counts
  <2>1. n \notin LoggedIn(c, a)
    BY <1>1 DEF LoggedIn
  <2>. QED
    BY <1>2, <1>4, <1>5, <1>6, <1>7, <2>1, BoundLogged
<1>8. CASE ~counts
  <2>1. now <= now' /\ now' \in Nat /\ Leaving(c, a)' = Leaving(c, a)
    BY <1>2, <1>6, <1>8
  <2>. QED
    BY <1>2, <1>4, <1>5, <1>8, <2>1, BoundQuiet
<1>. QED
  BY <1>7, <1>8

\* The other sections of a thread, the operator and the clock.
LEMMA OtherBound ==
  ASSUME TypeInvariant, NEW c \in Customers, NEW a \in Int, IsFiniteSet(customerTimes[c]),
         CustomerBound(c, a), NEW t \in Threads, Step(t),
         ~CheckLimit(t), ~RecordAttempt(t), ~Log(t)
  PROVE  CustomerBound(c, a)'
<1>1. /\ audit' = audit /\ customerTimes' = customerTimes /\ now' = now
  BY DEF Step, Begin, ReadSwitch, Lookup, ReadEntry, CheckConflict, Store, vars, limiter
<1>2. now \in Nat /\ Window \in Nat
  BY GatewayAssumption DEF TypeInvariant, GatewayTypeOK
<1>3. Others(t)
  BY StepMoves DEF Moves
<1>4. LoggedIn(c, a)' = LoggedIn(c, a) /\ Held(c, a)' = Held(c, a)
  BY <1>1 DEF LoggedIn, Held, Logged, Approved, Within
<1>5. /\ t \notin Leaving(c, a) /\ t \notin Leaving(c, a)'
      /\ t \notin Granting(c, a) /\ t \notin Granting(c, a)'
      /\ now > a + Window /\ t \in Waiting(c, a)' => t \in Waiting(c, a)
  <2>1. ASSUME NEW s \in Submissions, Begin(t, s)
        PROVE  /\ t \notin Leaving(c, a) /\ t \notin Leaving(c, a)'
               /\ t \notin Granting(c, a) /\ t \notin Granting(c, a)'
               /\ now > a + Window => t \notin Waiting(c, a)'
    <3>0. pc[t] = "idle" /\ pc'[t] = "switch" /\ work'[t] = Started(s)
      BY <2>1, BeginMoves
    <3>1. pc[t] = "idle" /\ pc'[t] = "switch" /\ work'[t].time = now
      BY <3>0 DEF Started
    <3>2. now > a + Window => ~Within(now, a)
      BY <1>2 DEF Within
    <3>. QED
      BY <3>1, <3>2 DEF Leaving, Granting, Waiting, Serving, Within
  <2>2. CASE ReadSwitch(t)
    BY <2>2, ReadSwitchMoves DEF Leaving, Granting, Waiting, Serving, Kept
  <2>3. CASE Lookup(t)
    BY <2>3, LookupMoves DEF Leaving, Granting, Waiting, Serving, Kept
  <2>4. CASE ReadEntry(t)
    BY <2>4, ReadEntryMoves DEF Leaving, Granting, Waiting, Serving, Kept
  <2>5. CASE CheckConflict(t)
    BY <2>5, CheckConflictMoves DEF Leaving, Granting, Waiting, Serving, Kept
  <2>6. CASE Store(t)
    BY <2>6, StoreMoves DEF Leaving, Granting, Waiting, Serving
  <2>. QED
    BY <2>1, <2>2, <2>3, <2>4, <2>5, <2>6 DEF Step
<1>6. Leaving(c, a)' = Leaving(c, a)
  BY <1>3, <1>5 DEF Leaving, Serving, Others
<1>7. Granting(c, a)' = Granting(c, a)
  BY <1>3, <1>5 DEF Granting, Serving, Others
<1>8. now > a + Window => Waiting(c, a)' \subseteq Waiting(c, a)
  BY <1>3, <1>5 DEF Waiting, Serving, Others
<1>9. now <= now' /\ now' \in Nat
  BY <1>1, <1>2
<1>. QED
  BY <1>2, <1>4, <1>6, <1>7, <1>8, <1>9, BoundQuiet

LEMMA LimitInvariantStep ==
  ASSUME TypeInvariant, LimitInvariant, [ThreadsNext]_allVars
  PROVE  LimitInvariant'
<1>1. Numbered' /\ \A c \in Customers : IsFiniteSet(customerTimes'[c])
  BY NumberedStep, TimesStayFinite DEF LimitInvariant
<1>2. ASSUME NEW c \in Customers, NEW a \in Int PROVE CustomerBound(c, a)'
  <2>1. IsFiniteSet(customerTimes[c]) /\ CustomerBound(c, a) /\ Numbered
    BY DEF LimitInvariant
  <2>2. ASSUME NEW t \in Threads, Step(t) PROVE CustomerBound(c, a)'
    BY <2>1, <2>2, LimitStep, RecordStep, LogBound, OtherBound
  <2>3. CASE Operate \/ UNCHANGED allVars
    <3>1. UNCHANGED <<pc, work, audit, customerTimes>> /\ now <= now'
      BY <2>3, OperateTypes DEF allVars, vars, threads, limiter, TypeInvariant, GatewayTypeOK
    <3>2. now \in Nat /\ now' \in Nat
      <4>1. TypeInvariant'
        BY TypeInvariantStep
      <4>. QED
        BY <4>1, GatewayAssumption DEF TypeInvariant, GatewayTypeOK
    <3>3. /\ LoggedIn(c, a)' = LoggedIn(c, a) /\ Leaving(c, a)' = Leaving(c, a)
          /\ Granting(c, a)' = Granting(c, a) /\ Held(c, a)' = Held(c, a)
          /\ Waiting(c, a)' = Waiting(c, a)
      BY <3>1 DEF LoggedIn, Leaving, Granting, Held, Waiting, Serving, Logged, Approved, Within
    <3>. QED
      BY <2>1, <3>1, <3>2, <3>3, BoundQuiet
  <2>. QED
    BY <2>2, <2>3 DEF ThreadsNext
<1>. QED
  BY <1>1, <1>2 DEF LimitInvariant

\* The attempts of the earlier approvals are as many as these.
LEMMA EarlierTimesCount ==
  ASSUME NEW E \in SUBSET DOMAIN Earlier
  PROVE  /\ IsFiniteSet(EarlierTimes(E)) /\ Cardinality(EarlierTimes(E)) = Cardinality(E)
         /\ Cardinality(E) \in Nat /\ Cardinality(E) <= Len(Earlier)
<1>. DEFINE T == EarlierTimes(E)
            f == [i \in E |-> [time |-> 0, evaluation |-> i]]
<1>1. IsFiniteSet(1 .. Len(Earlier)) /\ Cardinality(1 .. Len(Earlier)) = Len(Earlier)
  <2>1. Len(Earlier) \in Nat
    BY EarlierFacts
  <2>. QED
    BY <2>1, FS_Interval
<1>2. /\ IsFiniteSet(E) /\ Cardinality(E) \in Nat /\ Cardinality(E) <= Len(Earlier)
  BY <1>1, EarlierFacts, FS_Subset, FS_CardinalityType
<1>3. f \in Bijection(E, T)
  <2>1. f \in [E -> T] /\ \A x \in T : \E i \in E : f[i] = x
    BY DEF EarlierTimes
  <2>2. \A i, j \in E : f[i] = f[j] => i = j
    OBVIOUS
  <2>. QED
    BY <2>1, <2>2 DEF Bijection, Injection, Surjection, IsInjective
<1>4. IsFiniteSet(T) /\ Cardinality(T) = Cardinality(E)
  BY <1>2, <1>3, FS_Bijection DEF ExistsBijection
<1>. QED
  BY <1>2, <1>4

LEMMA LimitInvariantInit == ThreadsInit => LimitInvariant
<1>. SUFFICES ASSUME ThreadsInit PROVE LimitInvariant
  OBVIOUS
<1>. DEFINE E(c) == {i \in DOMAIN Earlier : Earlier[i].target.customer = c}
<1>1. /\ \A c \in Customers : customerTimes[c] = EarlierTimes(E(c))
      /\ \A t \in Threads : pc[t] = "idle"
      /\ begun = Len(Earlier)
  BY DEF ThreadsInit
<1>2. \A c \in Customers : E(c) \in SUBSET DOMAIN Earlier
  OBVIOUS
<1>3. Numbered
  BY <1>1, EarlierFacts DEF Numbered, EarlierTimes, Unrecorded
<1>4. ASSUME NEW c \in Customers PROVE IsFiniteSet(customerTimes[c])
  BY <1>1, <1>2, EarlierTimesCount
<1>5. ASSUME NEW c \in Customers, NEW a \in Int PROVE CustomerBound(c, a)
  <2>1. Leaving(c, a) = {} /\ Granting(c, a) = {} /\ Cardinality({}) = 0
    BY <1>1, FS_EmptySet DEF Leaving, Granting, Serving
  <2>2. /\ LoggedIn(c, a) = IF Within(0, a) THEN E(c) ELSE {}
        /\ Held(c, a) = IF Within(0, a) THEN EarlierTimes(E(c)) ELSE {}
    <3>1. LoggedIn(c, a) = {i \in DOMAIN Earlier :
                              Earlier[i].target.customer = c /\ Within(0, a)}
      BY DEF ThreadsInit, LoggedIn, Logged, Approved
    <3>2. Held(c, a) = {x \in EarlierTimes(E(c)) : Within(x.time, a)}
      BY <1>1 DEF Held
    <3>3. \A x \in EarlierTimes(E(c)) : x.time = 0
      BY DEF EarlierTimes
    <3>. QED
      BY <3>1, <3>2, <3>3
  <2>3. /\ Cardinality(LoggedIn(c, a)) = Cardinality(Held(c, a))
        /\ Cardinality(LoggedIn(c, a)) \in 0 .. Len(Earlier)
    BY <1>2, <2>1, <2>2, EarlierTimesCount, EarlierFacts
  <2>4. Len(Earlier) <= 3 * RateLimit /\ 3 * RateLimit \in Nat /\ Len(Earlier) \in Nat
    BY EarlierAssumption, EarlierFacts, GatewayAssumption
  <2>5. Cardinality(Threads) \in Nat \ {0}
    BY <2>1, Groups
  <2>. QED
    BY <2>1, <2>3, <2>4, <2>5 DEF CustomerBound, Out
<1>. QED
  BY <1>3, <1>4, <1>5 DEF LimitInvariant

\* However the checks and the recorded attempts of the threads interleave, and whichever
\* clock they prune by, a customer has at most two approvals more in a window for every
\* other thread.
THEOREM OvershootStaysBounded == ThreadsSpec => []OvershootIsBounded
<1>1. TypeInvariant /\ LimitInvariant => OvershootIsBounded
  <2>. SUFFICES ASSUME TypeInvariant, LimitInvariant, NEW i \in Logged, Approved(i)
                PROVE  Cardinality({j \in WindowOf(i) : audit[j].input.target.customer =
                                                         audit[i].input.target.customer})
                         <= 3 * RateLimit + 2 * (Cardinality(Threads) - 1)
    BY DEF OvershootIsBounded
  <2>. DEFINE c == audit[i].input.target.customer
              a == audit[i].time - Window
  <2>1. audit[i] \in Results
    BY LoggedIsFinite DEF TypeInvariant
  <2>2. c \in Customers /\ audit[i].time \in Int /\ a \in Int /\ a + Window = audit[i].time
    BY <2>1, SubmissionFacts, GatewayAssumption DEF Results
  <2>3. {j \in WindowOf(i) : audit[j].input.target.customer = c} = LoggedIn(c, a)
    <3>1. ASSUME NEW j \in Logged
          PROVE  audit[j].time \in audit[i].time - Window .. audit[i].time
                   <=> Within(audit[j].time, a)
      <4>1. audit[j].time \in Int
        BY LoggedIsFinite DEF TypeInvariant, Results
      <4>. QED
        BY <2>2, <4>1 DEF Within
    <3>. QED
      BY <3>1 DEF WindowOf, LoggedIn
  <2>4. IsFiniteSet(customerTimes[c]) /\ CustomerBound(c, a)
    BY <2>2 DEF LimitInvariant
  <2>. HIDE DEF c, a
  <2>5. /\ Cardinality(LoggedIn(c, a)) \in Nat /\ Cardinality(Leaving(c, a)) \in Nat
        /\ Cardinality(Granting(c, a)) \in Nat /\ Cardinality(Waiting(c, a)) \in Nat
        /\ Cardinality(Threads) \in Nat \ {0} /\ RateLimit \in Nat
    BY <2>2, <2>4, BoundGroups, GatewayAssumption
  <2>6. Cardinality(LoggedIn(c, a)) <= 3 * RateLimit + 2 * (Cardinality(Threads) - 1)
    BY <2>4, <2>5 DEF CustomerBound, Out
  <2>. QED
    BY <2>3, <2>6 DEF c
<1>2. TypeInvariant /\ LimitInvariant /\ [ThreadsNext]_allVars => LimitInvariant'
  BY LimitInvariantStep
<1>. QED
  BY <1>1, <1>2, LimitInvariantInit, TypeInvariantHolds, PTL DEF ThreadsSpec
==============================================================================
