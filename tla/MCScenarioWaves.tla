--------------------------- MODULE MCScenarioWaves ---------------------------
(* Instances of ScenarioWaves for TLC. *)
EXTENDS ScenarioWaves

\* Two sources of inputs and two tasks behind them; three tasks ready at once and
\* one behind the first; and a chain, the longest way.
MCGraphs ==
    {[t \in Tasks |-> IF t = 4 THEN {1} ELSE {}],
     [t \in Tasks |-> IF t = 3 THEN {1} ELSE IF t = 4 THEN {1, 2} ELSE {}],
     [t \in Tasks |-> {t - 1} \cap Tasks]}

MCParent == [d \in Dims |-> IF d = "iterations" THEN 10 ELSE 9]

\* More iterations than there are, or fewer; the same for tokens.
MCRequests ==
    {[t \in Tasks |-> [d \in Dims |-> IF d = "iterations" THEN 1 ELSE 2]],
     [t \in Tasks |-> [d \in Dims |-> IF d = "iterations" THEN 3 ELSE t % 3]]}

MCCap == [a \in Agents |-> [d \in Dims |->
            IF a = "narrow" THEN 1 ELSE IF d = "iterations" THEN 2 ELSE 9]]

MCCandidates == [t \in Tasks |->
    CASE t = 1 -> <<"narrow", "wide">> [] t = 2 -> <<"wide", "narrow">> [] OTHER -> <<"wide">>]

=============================================================================
