------------------------------- MODULE MCLedger -------------------------------
(***************************************************************************)
(* Instances of Ledger for TLC.                                            *)
(***************************************************************************)
EXTENDS Ledger, TLC

CONSTANTS u1, u2, c1, c2, k1

MCAmounts == {2, -1}
Symmetry == Permutations(Users) \cup Permutations(Calls)

=============================================================================
