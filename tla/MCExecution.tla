----------------------------- MODULE MCExecution -----------------------------
(* Small instances of the execution layer for TLC. *)
EXTENDS ExecutionProperties, TLC

\* A request in which proposal, target and gateway result agree.
Valid(target, action, amount) ==
  [proposal |-> [id |-> <<"proposal", target>>, target |-> target, action |-> action,
                 amount |-> amount, currency |-> "INR", current |-> TRUE],
   target   |-> [id |-> target, amount |-> amount, currency |-> "INR", attempts |-> 1],
   gateway  |-> [decision |-> "APPROVED", eligible |-> TRUE,
                 reason |-> "APPROVED_FOR_EXECUTION_LAYER", proposal |-> <<"proposal", target>>,
                 target |-> target, current |-> TRUE],
   key      |-> NoKey]

Retry1 == Valid("t1", "RETRY_PAYMENT", 100)
Retry2 == Valid("t2", "RETRY_PAYMENT", 100)
Later1 == Valid("t1", "RETRY_LATER", 100)

\* Requests the recheck refuses, each for one reason.
Altered    == [Retry1 EXCEPT !.proposal.amount = 200]
Blocked    == [Retry1 EXCEPT !.gateway.decision = "BLOCKED", !.gateway.eligible = FALSE,
                             !.gateway.reason = "BLOCK_NON_EXECUTABLE_ACTION"]
Foreign    == [Retry1 EXCEPT !.gateway.proposal = <<"proposal", "t2">>]
Exhausted  == [Retry1 EXCEPT !.target.attempts = 3]
Abandoned  == [Retry1 EXCEPT !.proposal.action = "NO_ACTION"]

\* The same proposal submitted under a key the caller chose.
Relabelled == [Retry1 EXCEPT !.key = <<"supplied", "again">>]

TwoTargets == {Retry1, Retry2, Later1}
OneTarget == {Retry1}
SuppliedKey == {Retry1, Relabelled, Altered, Blocked, Foreign, Exhausted, Abandoned}

Exact(type) ==
  [type |-> type, amount |-> "exact", currency |-> "exact", flaw |-> "none", named |-> TRUE]

PaidAndFailed == {Exact("order.paid"), Exact("payment.failed")}
PaidOnly == {Exact("order.paid")}
OddEvents ==
  PaidAndFailed \cup
  { [Exact("payment.captured") EXCEPT !.amount = "other"],
    [Exact("payment.captured") EXCEPT !.currency = "other"],
    [Exact("payment_link.paid") EXCEPT !.amount = "absent", !.currency = "absent"],
    [Exact("order.paid") EXCEPT !.named = FALSE],
    Exact("refund.created") }
FlawedEvents ==
  PaidAndFailed \cup {[Exact("order.paid") EXCEPT !.flaw = f] : f \in {"signature", "json"}}

\* At least one of two events is ordinary: it says what happened to the order it names.
\* Which of the two comes first does not matter, as delivery is free in time and order.
Ordinary(e) ==
  e.type \in {"order.paid", "payment.failed"} /\ e.flaw = "none" /\ e.refs # {}

OneOddEvent == \A e \in events : Ordinary(e) \/ e.id = 1

CallSymmetry == Permutations(Calls)
==============================================================================
