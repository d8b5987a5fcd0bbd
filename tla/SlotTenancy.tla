---------------------------- MODULE SlotTenancy ----------------------------
(***************************************************************************)
(* What a semaphore address allocator promises, whatever its bookkeeping.  *)
(*                                                                         *)
(* Tenants 1, 2, ... arrive in the order of their first operation.  Each   *)
(* needs one of the hardware Slots over the window [first, last) of        *)
(* operation numbers.  A tenant is admitted to a slot only after the       *)
(* window of every earlier tenant of that slot has closed; it is turned    *)
(* away only when no slot qualifies, and then nobody else is admitted.     *)
(***************************************************************************)
EXTENDS Integers

CONSTANT Slots      \* the hardware slots

VARIABLES first,    \* first[s]: the operation that opens the window of s
          last,     \* last[s]: the operation before which its slot is held
          home,     \* home[s]: the slot of every admitted tenant
          turnedAway

vars == <<first, last, home, turnedAway>>

Tenants  == DOMAIN first
Admitted == DOMAIN home

Init ==
  /\ Admitted = {}
  /\ turnedAway = FALSE

(* Slot a is vacant at operation number op. *)
Vacant(a, op) == \A t \in Admitted : home[t] = a => last[t] <= op

(* The windows are settled before the first tenant is admitted. *)
Settle ==
  /\ Admitted = {}
  /\ ~turnedAway
  /\ UNCHANGED <<first, home, turnedAway>>

Admit(s, a) ==
  /\ ~turnedAway
  /\ Admitted = 1 .. s - 1
  /\ Vacant(a, first[s])
  /\ home' = [t \in 1 .. s |-> IF t = s THEN a ELSE home[t]]
  /\ UNCHANGED <<first, last, turnedAway>>

TurnAway(s) ==
  /\ ~turnedAway
  /\ Admitted = 1 .. s - 1
  /\ \A a \in Slots : ~Vacant(a, first[s])
  /\ turnedAway' = TRUE
  /\ UNCHANGED <<first, last, home>>

Next ==
  \/ Settle
  \/ \E s \in Tenants : \E a \in Slots : Admit(s, a)
  \/ \E s \in Tenants : TurnAway(s)

Spec == Init /\ [][Next]_vars
=============================================================================
