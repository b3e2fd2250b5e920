------------------------------ MODULE MCFailover ------------------------------
(* Failover on small instances.  p1 speaks openai and may be called twice by  *)
(* one call, the other channels once.                                         *)
EXTENDS Failover, TLC

CONSTANTS p1, p2, p3, r1, r2, key1

MCCap == [p \in Providers |-> IF p = p1 THEN 2 ELSE 1]

MCOpenAi == {p1}

Symmetry == Permutations(Requests)

=============================================================================
