---------------------------- MODULE MCBudgetLease ----------------------------
(* Instances of BudgetLease for TLC. *)
EXTENDS BudgetLease

CONSTANTS model1, model2, source1, source2

\* A model call reserves more than a source; all four do not fit together.
MCCharge == [c \in Calls |-> IF c \in Sources THEN 1 ELSE 2]

=============================================================================
