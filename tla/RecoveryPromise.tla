--------------------------- MODULE RecoveryPromise ---------------------------
(***************************************************************************)
(* What the execution layer promises about one idempotency key, whatever   *)
(* callers, the payment provider and webhooks do: the provider is asked at *)
(* most once, revenue is reported at most once and only after the provider *)
(* was asked, and an execution that was closed or confirmed stays so.      *)
(***************************************************************************)
EXTENDS Integers

CONSTANT Keys

VARIABLES
  phase,    (* key -> how far its execution has come           *)
  charges,  (* key -> requests the provider was given          *)
  credits   (* key -> times its amount was reported recovered  *)

promise == <<phase, charges, credits>>

Phases == {"open", "parked", "pending", "unconfirmed", "closed", "confirmed"}

PromiseTypeOK ==
  /\ phase \in [Keys -> Phases]
  /\ charges \in [Keys -> 0..1]
  /\ credits \in [Keys -> 0..1]

Move(k, from, to) == phase[k] = from /\ phase' = [phase EXCEPT ![k] = to]

Park(k) == Move(k, "open", "parked") /\ UNCHANGED <<charges, credits>>

Charge(k) ==
  /\ Move(k, "open", "pending")
  /\ charges' = [charges EXCEPT ![k] = @ + 1]
  /\ UNCHANGED credits

Settle(k) ==
  /\ \E to \in {"unconfirmed", "closed"} : Move(k, "pending", to)
  /\ UNCHANGED <<charges, credits>>

Credit(k) ==
  /\ Move(k, "unconfirmed", "confirmed")
  /\ credits' = [credits EXCEPT ![k] = @ + 1]
  /\ UNCHANGED charges

Close(k) == Move(k, "unconfirmed", "closed") /\ UNCHANGED <<charges, credits>>

PromiseInit ==
  /\ phase = [k \in Keys |-> "open"]
  /\ charges = [k \in Keys |-> 0]
  /\ credits = [k \in Keys |-> 0]

PromiseNext == \E k \in Keys : Park(k) \/ Charge(k) \/ Settle(k) \/ Credit(k) \/ Close(k)

PromiseSpec == PromiseInit /\ [][PromiseNext]_promise

\* Every request handed to the provider is settled.
FairPromiseSpec == PromiseSpec /\ \A k \in Keys : WF_promise(Settle(k))
==============================================================================
