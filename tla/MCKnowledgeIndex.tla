-------------------------- MODULE MCKnowledgeIndex --------------------------
(***************************************************************************)
(* KnowledgeIndex for TLC: document a with two versions, document b with    *)
(* one.  A behaviour either starts with all three processed, and is about   *)
(* publications and rollbacks that cross, or uploads one, and is about the  *)
(* attempts to process it.                                                  *)
(***************************************************************************)
EXTENDS KnowledgeIndex

CONSTANTS a1, a2, b1

MCDocOf == [v \in {a1, a2, b1} |-> IF v = b1 THEN "b" ELSE "a"]

Nothing == [ready |-> {}, new |-> {}, attempts |-> 0, releases |-> 0,
            rollbacks |-> 0, tabs |-> 0, faults |-> 0]

Crossing   == [Nothing EXCEPT !.ready = {a1, a2, b1}, !.releases = 3, !.rollbacks = 1]
Growing    == [Nothing EXCEPT !.ready = {b1}, !.new = {a1}, !.attempts = 1, !.releases = 2,
                             !.rollbacks = 1, !.tabs = 1]
Processing == [Nothing EXCEPT !.new = {a1}, !.attempts = 2, !.releases = 1, !.tabs = 2]
Crashing   == [Processing EXCEPT !.faults = 1]

AllPlans   == {Crossing, Growing, Processing, Crashing}
OneVersion == {Processing}
=============================================================================
