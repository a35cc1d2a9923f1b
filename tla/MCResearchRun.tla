--------------------------- MODULE MCResearchRun ---------------------------
(* An instance of ResearchRun for TLC: two events, each told by one claim of  *)
(* its own kind, and three briefs.                                            *)
EXTENDS ResearchRun

CONSTANTS e1, e2, k1, k2

MCClaims == {<<e1, k1>>, <<e2, k2>>}

\* count_policy "exact" and "at_most" with a minimum of one.
Exactly(n, keys) == [facets |-> keys, need |-> n, limit |-> n]
UpTo(n, keys) == [facets |-> keys, need |-> 1, limit |-> n]

MCBriefs == {Exactly(2, {}), UpTo(2, {k1}), UpTo(1, {})}
=============================================================================
