------------------------------ MODULE MCThreads -------------------------------
(* A small instance of the safety gateway under threads for TLC. *)
EXTENDS GatewayThreads, TLC

ThreadSymmetry == Permutations(Threads)

Valid(id, action, code) ==
  [proposal |-> [id |-> <<"proposal", "payment", id>>, kind |-> "payment", target |-> id,
                 action |-> action, amount |-> 100, currency |-> "INR",
                 current |-> TRUE, escalated |-> FALSE],
   target   |-> [kind |-> "payment", id |-> id, customer |-> "alice", amount |-> 100,
                 currency |-> "INR", attempts |-> 1, history |-> 4, success |-> 8000,
                 code |-> code],
   approval |-> NoApproval]

\* One contested target, for which two actions are proposed and one is refused.
Retry    == Valid("t1", "RETRY_PAYMENT", "gateway_timeout")
Revised  == Valid("t1", "REQUEST_PAYMENT_METHOD_UPDATE", "gateway_timeout")
Stolen   == Valid("t1", "RETRY_PAYMENT", "stolen_card")

\* Two payments of the customer that were approved before.
Before == <<Valid("t3", "RETRY_PAYMENT", "gateway_timeout"),
            Valid("t4", "RETRY_PAYMENT", "gateway_timeout")>>

\* Payments of the same customer that are alike, for a rush at its limit.
Rush(n) == Valid(<<"p1", "p2", "p3">>[n], "RETRY_PAYMENT", "gateway_timeout")
Rushed == {Rush(n) : n \in 1 .. 3}

AllPayments == {Retry, Revised, Stolen, Before[1], Before[2]} \cup Rushed

\* What the threads have evaluated or are evaluating.
Taken ==
  {work[t].input : t \in {u \in Threads : pc[u] # "idle"}}
    \cup {audit[i].input : i \in Len(Before) + 1 .. Len(audit)}

\* The payments of the rush are alike, so it is enough to take them in one order.
InOrder == \A n \in {2, 3} : Rush(n) \in Taken => Rush(n - 1) \in Taken

\* Two scenarios: three evaluations of the contested target and of a replay, while the
\* operator works the switch and the clock stands; or four of the rush, which the operator
\* stays out of and whose first answer starts the clock.
Scenarios ==
  \/ begun <= 5 /\ Taken \subseteq {Retry, Revised, Stolen, Before[1]} /\ now = 0
  \/ Taken \subseteq Rushed /\ InOrder /\ ~Suspended /\ (Len(audit) = Len(Before) => now = 0)
==============================================================================
