-------------------------- MODULE MCCustomerAnswer --------------------------
(* Instances of CustomerAnswer for TLC. *)
EXTENDS CustomerAnswer

CONSTANTS p1, p2, s1, s2

=============================================================================
