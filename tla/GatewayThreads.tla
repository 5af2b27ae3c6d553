---------------------------- MODULE GatewayThreads -----------------------------
(***************************************************************************)
(* The safety gateway called by several threads. Kill switch, decision     *)
(* store, rate limiter and audit log each have a lock of their own, and    *)
(* evaluate_proposal takes them one after the other and never two at once: *)
(* every locked section is a step, and threads interleave between them.    *)
(* The data, the checks and the stores are those of SafetyGateway, whose   *)
(* evaluation of one proposal is here a sequence of steps.                 *)
(***************************************************************************)
EXTENDS SafetyGateway

CONSTANTS
  Threads,   (* threads that evaluate proposals on one gateway                *)
  Earlier    (* the submissions approved before the threads begin, in order   *)

ASSUME ThreadsAssumption == IsFiniteSet(Threads) /\ Threads # {}

\* What was approved one after the other is authentic, within policy and limits, and
\* for distinct targets.
ASSUME EarlierAssumption ==
  /\ Earlier \in Seq(Submissions) /\ Len(Earlier) <= MaxEvaluations
  /\ Len(Earlier) <= 3 * RateLimit /\ (Earlier # <<>> => RateLimit > 0)
  /\ \A i \in DOMAIN Earlier :
       /\ Authentic(Earlier[i]) /\ WithinPolicy(Earlier[i]) /\ ~NeedsReview(Earlier[i])
       /\ \A j \in DOMAIN Earlier :
            TargetKey(Earlier[i]) = TargetKey(Earlier[j]) => i = j

VARIABLES
  pc,      (* thread -> the section it enters next                       *)
  work,    (* thread -> what it is evaluating and has found out so far   *)
  begun,   (* evaluations begun                                          *)
  pulled   (* history: authorisations when the switch was last activated *)

threads == <<pc, work, begun, pulled>>
allVars == <<vars, threads>>

------------------------------------------------------------------------------

\* The local variables of an evaluation: now_epoch is read once, at the start.
\* The evaluation's number tells attempts of one instant apart.
Started(s) ==
  [input |-> s, time |-> now, evaluation |-> begun + 1, existing |-> NoDecision,
   decision |-> NoDecision, replay |-> FALSE]

Idle == [input |-> <<>>]

Authorised == Cardinality({i \in DOMAIN audit : audit[i].eligible})

At(t, section) == pc[t] = section
Goto(t, section) == pc' = [pc EXCEPT ![t] = section]

\* The evaluation has its answer: "log" writes it to the audit log only,
\* "conclude" writes it there and then stores it as the target's decision.
Answer(t, decision, replay, section) ==
  /\ work' = [work EXCEPT ![t].decision = decision, ![t].replay = replay]
  /\ Goto(t, section)

Continue(t, section) == Goto(t, section) /\ UNCHANGED work

Begin(t, s) ==
  /\ At(t, "idle") /\ begun < MaxEvaluations
  /\ begun' = begun + 1
  /\ work' = [work EXCEPT ![t] = Started(s)]
  /\ Goto(t, "switch")
  /\ UNCHANGED <<vars, pulled>>

Rejection == IF Suspended THEN "KILL_SWITCH_ACTIVE" ELSE "INVALID_PROPOSAL"

\* Faulty variant: a decided proposal is answered before the switch is read.
ReadSwitchOfFresh(t) ==
  LET s == work[t].input IN
  /\ At(t, "switch")
  /\ IF (Suspended /\ ExistingDecision(s) = NoDecision) \/ ~Authentic(s)
     THEN Answer(t, Rejection, FALSE, "log")
     ELSE Continue(t, "lookup")
  /\ UNCHANGED <<vars, begun, pulled>>

\* Stage 1, and stages 2 to 4, which read nothing that is shared.
ReadSwitch(t) ==
  LET s == work[t].input IN
  /\ At(t, "switch")
  /\ IF Suspended \/ ~Authentic(s)
     THEN Answer(t, Rejection, FALSE, "log")
     ELSE Continue(t, "lookup")
  /\ UNCHANGED <<vars, begun, pulled>>

\* get_existing_decision
Lookup(t) ==
  LET existing == ExistingDecision(work[t].input) IN
  /\ At(t, "lookup")
  /\ work' = [work EXCEPT ![t].existing = existing]
  /\ Goto(t, IF existing = NoDecision THEN "conflict" ELSE "entry")
  /\ UNCHANGED <<vars, begun, pulled>>

Differs(entry, s) == entry.action # s.proposal.action \/ entry.amount # s.proposal.amount

\* get_stored_target_entry: the entry may be a later one than the decision found.
ReadEntry(t) ==
  LET s == work[t].input
      entry == targetStore[TargetKey(s)] IN
  /\ At(t, "entry")
  /\ \/ entry # NoEntry /\ Differs(entry, s) /\ Answer(t, "BLOCKED", FALSE, "log")
     \/ ~(entry # NoEntry /\ Differs(entry, s)) /\ Answer(t, work[t].existing, TRUE, "log")
  /\ UNCHANGED <<vars, begun, pulled>>

\* check_target_conflict, and the policy stages, which read nothing that is shared.
CheckConflict(t) ==
  LET s == work[t].input
      entry == targetStore[TargetKey(s)]
      conflict == entry.decision = "APPROVED" /\ entry.proposal # s.proposal.id /\ Differs(entry, s)
  IN
  /\ At(t, "conflict")
  /\ CASE conflict -> Answer(t, "BLOCKED", FALSE, "log")
       [] ~conflict /\ NeedsReview(s) -> Answer(t, "REQUIRES_REVIEW", FALSE, "conclude")
       [] ~conflict /\ ~NeedsReview(s) ->
            IF WithinPolicy(s) THEN Continue(t, "limit")
            ELSE Answer(t, "BLOCKED", FALSE, "conclude")
  /\ UNCHANGED <<vars, begun, pulled>>

\* Times that count for an evaluation begun at "time": also later ones.
Counted(times, time) == {a \in times : a.time >= time - Window}

\* Faulty variant: the customer's limit is not asked.
CheckTargetLimit(t) ==
  LET s == work[t].input
      target == Counted(targetTimes[TargetKey(s)], work[t].time)
      limited == Cardinality(target) >= RateLimit
  IN
  /\ At(t, "limit")
  /\ targetTimes' = [targetTimes EXCEPT ![TargetKey(s)] = target]
  /\ \/ limited /\ Answer(t, "RATE_LIMITED", FALSE, "log")
     \/ ~limited /\ Continue(t, "record")
  /\ UNCHANGED <<killSwitch, now, store, customerTimes, audit, begun, pulled>>

\* is_rate_limited: what is older than this evaluation's window is dropped, also
\* when another thread that began earlier would still have counted it.
CheckLimit(t) ==
  LET s == work[t].input
      target == Counted(targetTimes[TargetKey(s)], work[t].time)
      customer == Counted(customerTimes[s.target.customer], work[t].time)
      targetLimited == Cardinality(target) >= RateLimit
      limited == targetLimited \/ Cardinality(customer) >= 3 * RateLimit
  IN
  /\ At(t, "limit")
  /\ targetTimes' = [targetTimes EXCEPT ![TargetKey(s)] = target]
  /\ customerTimes' = IF targetLimited THEN customerTimes
                      ELSE [customerTimes EXCEPT ![s.target.customer] = customer]
  /\ \/ limited /\ Answer(t, "RATE_LIMITED", FALSE, "log")
     \/ ~limited /\ Continue(t, "record")
  /\ UNCHANGED <<killSwitch, now, store, audit, begun, pulled>>

\* Faulty variant: the evaluation goes on without its answer.
RecordAttemptUndecided(t) ==
  LET s == work[t].input
      attempt == [time |-> work[t].time, evaluation |-> work[t].evaluation] IN
  /\ At(t, "record")
  /\ targetTimes' = [targetTimes EXCEPT ![TargetKey(s)] = @ \cup {attempt}]
  /\ customerTimes' = [customerTimes EXCEPT ![s.target.customer] = @ \cup {attempt}]
  /\ Continue(t, "conclude")
  /\ UNCHANGED <<killSwitch, now, store, audit, begun, pulled>>

\* record_attempt
RecordAttempt(t) ==
  LET s == work[t].input
      attempt == [time |-> work[t].time, evaluation |-> work[t].evaluation] IN
  /\ At(t, "record")
  /\ targetTimes' = [targetTimes EXCEPT ![TargetKey(s)] = @ \cup {attempt}]
  /\ customerTimes' = [customerTimes EXCEPT ![s.target.customer] = @ \cup {attempt}]
  /\ Answer(t, "APPROVED", FALSE, "conclude")
  /\ UNCHANGED <<killSwitch, now, store, audit, begun, pulled>>

\* _record_audit
Log(t) ==
  LET w == work[t] IN
  /\ At(t, "log") \/ At(t, "conclude")
  /\ audit' = Append(audit, [Result(w.input, w.decision, w.decision = "APPROVED", w.replay)
                             EXCEPT !.time = w.time])
  /\ Goto(t, IF At(t, "log") THEN "idle" ELSE "store")
  /\ work' = IF At(t, "log") THEN [work EXCEPT ![t] = Idle] ELSE work
  /\ UNCHANGED <<killSwitch, now, store, limiter, begun, pulled>>

\* Faulty variants: the target's first entry is kept; nothing is stored.
StoreFirst(t) ==
  LET s == work[t].input IN
  /\ At(t, "store")
  /\ IF targetStore[TargetKey(s)] = NoEntry THEN RecordDecision(s, work[t].decision)
     ELSE /\ primary' = [primary EXCEPT ![s.proposal.id] = work[t].decision]
          /\ UNCHANGED targetStore
  /\ Goto(t, "idle") /\ work' = [work EXCEPT ![t] = Idle]
  /\ UNCHANGED <<killSwitch, now, limiter, audit, begun, pulled>>

StoreNothing(t) ==
  /\ At(t, "store")
  /\ Goto(t, "idle") /\ work' = [work EXCEPT ![t] = Idle]
  /\ UNCHANGED <<vars, begun, pulled>>

\* record_decision: both stores under one lock.
Store(t) ==
  /\ At(t, "store")
  /\ RecordDecision(work[t].input, work[t].decision)
  /\ Goto(t, "idle") /\ work' = [work EXCEPT ![t] = Idle]
  /\ UNCHANGED <<killSwitch, now, limiter, audit, begun, pulled>>

\* The operator, and the clock. Corruption suspends as activation does.
Operate ==
  \/ (Activate \/ SetCorrupted) /\ pulled' = Authorised /\ UNCHANGED <<pc, work, begun>>
  \/ (Deactivate \/ Tick) /\ UNCHANGED threads

\* The attempts recorded for earlier approvals, at time 0.
EarlierTimes(evaluations) == {[time |-> 0, evaluation |-> i] : i \in evaluations}

\* What record_decision stored for the earlier approvals.
EarlierEntry(k) ==
  LET for == {i \in DOMAIN Earlier : TargetKey(Earlier[i]) = k} IN
  IF for = {} THEN NoEntry
  ELSE LET s == Earlier[CHOOSE i \in for : TRUE] IN
       [proposal |-> s.proposal.id, action |-> s.proposal.action,
        amount |-> s.target.amount, decision |-> "APPROVED"]

ThreadsInit ==
  /\ active \in BOOLEAN /\ corrupted = FALSE /\ now = 0
  /\ primary = [p \in ProposalIds |->
       IF \E i \in DOMAIN Earlier : Earlier[i].proposal.id = p THEN "APPROVED" ELSE NoDecision]
  /\ targetStore = [k \in Targets |-> EarlierEntry(k)]
  /\ targetTimes = [k \in Targets |->
       EarlierTimes({i \in DOMAIN Earlier : TargetKey(Earlier[i]) = k})]
  /\ customerTimes = [c \in Customers |->
       EarlierTimes({i \in DOMAIN Earlier : Earlier[i].target.customer = c})]
  /\ audit = [i \in DOMAIN Earlier |-> [input |-> Earlier[i], time |-> 0,
       decision |-> "APPROVED", eligible |-> TRUE, replay |-> FALSE]]
  /\ pc = [t \in Threads |-> "idle"]
  /\ work = [t \in Threads |-> Idle]
  /\ begun = Len(Earlier) /\ pulled = Len(Earlier)

Step(t) ==
  \/ \E s \in Submissions : Begin(t, s)
  \/ ReadSwitch(t) \/ Lookup(t) \/ ReadEntry(t) \/ CheckConflict(t)
  \/ CheckLimit(t) \/ RecordAttempt(t) \/ Log(t) \/ Store(t)

ThreadsNext == (\E t \in Threads : Step(t)) \/ Operate

ThreadsSpec == ThreadsInit /\ [][ThreadsNext]_allVars

------------------------------------------------------------------------------
(* What the locks give, and how far the rest can go wrong *)

Sections == {"idle", "switch", "lookup", "entry", "conflict", "limit", "record", "log",
             "conclude", "store"}

ThreadsTypeOK ==
  /\ pc \in [Threads -> Sections]
  /\ \A t \in Threads :
       IF pc[t] = "idle" THEN work[t] = Idle
       ELSE /\ work[t].input \in Submissions /\ work[t].time \in 0 .. now
            /\ work[t].evaluation \in 1 .. begun
            /\ pc[t] \in {"log", "conclude", "store"} <=> work[t].decision # NoDecision
  /\ begun \in 0 .. MaxEvaluations
  /\ pulled \in 0 .. Authorised

\* The stores never disagree, whichever thread stores last, although decisions for
\* one target may be made twice: a decided proposal's target has its entry, with the
\* same decision. (record_decision writes both under one lock.)
StoresAgree ==
  \A s \in Submissions : Authentic(s) =>
    LET entry == targetStore[TargetKey(s)] IN
    /\ primary[s.proposal.id] = entry.decision
    /\ entry # NoEntry => entry.proposal = s.proposal.id

Logged == DOMAIN audit
Approved(i) == audit[i].decision = "APPROVED" /\ ~audit[i].replay

\* The approvals that fall into the window of approval i.
WindowOf(i) ==
  {j \in Logged : Approved(j) /\ audit[j].time \in audit[i].time - Window .. audit[i].time}

\* A customer's limit is exceeded in a closed window by two approvals at most for
\* every other thread: one passes the check before the others have recorded their
\* attempts, and one may find attempts gone that a later evaluation has dropped while
\* an earlier one still counts them. (is_rate_limited and record_attempt lock apart, and
\* the first drops by its caller's clock. A target is bounded by its fresh decisions.)
OvershootIsBounded ==
  \A i \in Logged : Approved(i) =>
    LET ofCustomer == {j \in WindowOf(i) :
                         audit[j].input.target.customer = audit[i].input.target.customer}
    IN Cardinality(ofCustomer) <= 3 * RateLimit + 2 * (Cardinality(Threads) - 1)

\* Once the switch is pulled, what still comes out authorised had read it before: no
\* more results than there are threads, replays included, until it is released.
LateApprovalsAreBounded == Suspended => Authorised - pulled <= Cardinality(Threads)

\* A target has no more fresh approvals than there are threads: two threads may both
\* find no decision, but nobody does after the first has stored his.
FreshDecisionsAreBounded ==
  \A k \in Targets :
    Cardinality({i \in Logged : /\ TargetKey(audit[i].input) = k /\ ~audit[i].replay
                                /\ Approved(i)}) <= Cardinality(Threads)
==============================================================================
