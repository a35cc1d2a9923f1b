--------------------------- MODULE MCRunProjection ---------------------------
(* Instances of RunProjection for TLC. *)
EXTENDS RunProjection

CONSTANTS t1, s1, s2

=============================================================================
