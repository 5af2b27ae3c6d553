-------------------------- MODULE AuthorizationLedger --------------------------
(***************************************************************************)
(* What the safety gateway promises to the execution layer about what it   *)
(* authorises: a target is cleared by one voucher, for one action and one  *)
(* amount, and all that is acted on later is what a voucher says. Nothing  *)
(* is promised about targets that were not cleared: whether a proposal     *)
(* refused or sent to review may come back is not a matter of the ledger.  *)
(***************************************************************************)

CONSTANTS
  Targets,  (* payments and subscriptions                    *)
  Terms,    (* the <<action, amount>> a target may be cleared for *)
  Numbers   (* of the evaluations that issue vouchers        *)

VARIABLES
  vouchers,  (* what was cleared, by which evaluation        *)
  honoured   (* the <<target, terms>> acted on               *)

ledger == <<vouchers, honoured>>

\* A first authorisation. Repeating one leaves the ledger as it is.
Clear(n, k, terms) ==
  /\ \A v \in vouchers : v.target # k
  /\ vouchers' = vouchers \cup {[number |-> n, target |-> k, terms |-> terms]}
  /\ honoured' = honoured \cup {<<k, terms>>}

LedgerInit == vouchers = {} /\ honoured = {}

LedgerNext == \E n \in Numbers, k \in Targets, terms \in Terms : Clear(n, k, terms)

LedgerSpec == LedgerInit /\ [][LedgerNext]_ledger
==============================================================================
