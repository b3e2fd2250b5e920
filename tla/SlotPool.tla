------------------------------ MODULE SlotPool -------------------------------
(***************************************************************************)
(* What max_concurrent promises, without counters, mutexes or guards: every *)
(* key has a pool of slots, a client gets one only while fewer than the cap *)
(* it was shown are taken, and gives back the one it has.                  *)
(***************************************************************************)
EXTENDS Naturals, FiniteSets

CONSTANTS Keys, Clients, Caps

VARIABLE holders    \* the clients that hold a slot of each key

Init == holders = [k \in Keys |-> {}]

Acquire(k, c) ==
  /\ \A l \in Keys : c \notin holders[l]
  /\ \E cap \in Caps : Cardinality(holders[k]) < cap
  /\ holders' = [holders EXCEPT ![k] = @ \cup {c}]

Release(k, c) ==
  /\ c \in holders[k]
  /\ holders' = [holders EXCEPT ![k] = @ \ {c}]

Next == \E k \in Keys, c \in Clients : Acquire(k, c) \/ Release(k, c)

Spec == Init /\ [][Next]_holders

=============================================================================
