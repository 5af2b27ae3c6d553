------------------------------ MODULE MCGateway -------------------------------
(* Small instances of the safety gateway for TLC. *)
EXTENDS GatewayProperties, TLC

CONSTANT Peers   (* interchangeable payments of one customer *)

PeerSymmetry == Permutations(Peers)

\* A submission in which proposal and target agree, for a customer in good standing.
Valid(id, action, amount) ==
  [proposal |-> [id |-> <<"proposal", "payment", id>>, kind |-> "payment", target |-> id,
                 action |-> action, amount |-> amount, currency |-> "INR",
                 current |-> TRUE, escalated |-> FALSE],
   target   |-> [kind |-> "payment", id |-> id, customer |-> "alice", amount |-> amount,
                 currency |-> "INR", attempts |-> 1, history |-> 4, success |-> 8000,
                 code |-> "gateway_timeout"],
   approval |-> NoApproval]

Approval(s, verdict) ==
  [s EXCEPT !.approval = [proposal |-> s.proposal.id, target |-> s.proposal.target,
                          approved |-> verdict, signed |-> TRUE]]

Retry1  == Valid("t1", "RETRY_PAYMENT", 100)
Revised == Valid("t1", "REQUEST_PAYMENT_METHOD_UPDATE", 100)
Large   == Valid("t2", "RETRY_PAYMENT", 600)

\* Inputs stages 2 to 4 reject, each for one reason.
Outdated   == [Retry1 EXCEPT !.proposal.current = FALSE]
Mislabeled == [Large EXCEPT !.proposal.id = Retry1.proposal.id]
Overstated == [Retry1 EXCEPT !.proposal.amount = 200]

\* Inputs the policy blocks.
Abandoned == Valid("t1", "NO_ACTION", 100)
Exhausted == [Retry1 EXCEPT !.target.attempts = 3]
Chronic   == [Revised EXCEPT !.target.success = 2000, !.target.code = "generic_decline"]
Fraud     == [Retry1 EXCEPT !.target.code = "stolen_card"]
Unproven  == [Retry1 EXCEPT !.target.success = 5000, !.target.code = "generic_decline"]

Escalated == [Retry1 EXCEPT !.proposal.escalated = TRUE]
Undecided == Valid("t2", "HUMAN_REVIEW", 600)
Repriced  == Valid("t1", "RETRY_PAYMENT", 600)

OneTarget == {Retry1, Revised, Exhausted, Chronic, Fraud, Unproven, Abandoned, Escalated,
              Repriced, Overstated}

Approvals ==
  {Retry1, Repriced, Approval(Repriced, TRUE), Large, Approval(Large, TRUE),
   Approval(Large, FALSE), [Large EXCEPT !.approval = Approval(Retry1, TRUE).approval],
   Undecided, Mislabeled, Outdated}

\* Payments of one customer, and one of another.
Accounts ==
  {Valid(id, "RETRY_PAYMENT", 100) : id \in Peers} \cup
  {[Valid("t5", "RETRY_PAYMENT", 100) EXCEPT !.target.customer = "bob"]}

AllSubmissions == OneTarget \cup Approvals

Reviewed == {Large, Approval(Large, TRUE)}

Refused == {Abandoned, Retry1}
==============================================================================
