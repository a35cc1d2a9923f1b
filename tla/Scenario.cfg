\* Four tasks in three graphs, two at a time; 1 and 2 do the research and
\* have two candidates each.
SPECIFICATION FairSpec
CONSTANTS
    Tasks = {1, 2, 3, 4}
    Dims = {"iterations", "tokens"}
    Vital = {"iterations"}
    Parent <- MCParent
    Graphs <- MCGraphs
    Requests <- MCRequests
    Required = {1, 2}
    Producers = {3, 4}
    Agents = {"narrow", "wide"}
    Candidates <- MCCandidates
    Cap <- MCCap
    MaxParallel = 2
INVARIANTS
    DepsDelivered
    BudgetInvariant
    WavesSuffice
    VerdictHonest
PROPERTIES
    NeverGrows
    Concludes
\* A scenario with a verdict stops.
CHECK_DEADLOCK FALSE
