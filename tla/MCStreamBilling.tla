--------------------------- MODULE MCStreamBilling ----------------------------
(* StreamBilling on small instances: streams are model values. *)
EXTENDS StreamBilling, TLC

CONSTANTS s1, s2

Symmetry == Permutations(Streams)

=============================================================================
