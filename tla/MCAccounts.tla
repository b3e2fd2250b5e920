------------------------------ MODULE MCAccounts ------------------------------
(* Accounts on a small instance: users, passwords, the address and the logins *)
(* are model values.                                                          *)
EXTENDS Accounts, TLC

CONSTANTS root, bob, pw1, pw2, ip1, l1, l2, l3

Symmetry == Permutations(Passwords) \cup Permutations(Attempts)

=============================================================================
