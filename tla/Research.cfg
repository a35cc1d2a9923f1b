\* One Run with up to three rounds, every interruption at every point.
SPECIFICATION FairSpec
CONSTANTS
    e1 = e1
    e2 = e2
    k1 = k1
    k2 = k2
    None = None
    Events = {e1, e2}
    Keys = {k1, k2}
    Claims <- MCClaims
    Briefs <- MCBriefs
    MaxRefill = 2
INVARIANTS
    ResearchInvariant
    HonestOutcome
PROPERTIES
    EndIsFinal
    ResearchConcludes
\* An ended Run whose worker has ended does nothing more.
CHECK_DEADLOCK FALSE
