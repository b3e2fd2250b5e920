----------------------------- MODULE MCKeyLimits ------------------------------
(* KeyLimits on a small instance: the key and the requests are model values. *)
EXTENDS KeyLimits

CONSTANTS k1, r1, r2, r3

=============================================================================
