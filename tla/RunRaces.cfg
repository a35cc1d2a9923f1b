\* One Run, three callers that create, cancel and resume it in any order, one restart.
SPECIFICATION Spec
CONSTANTS
    r1 = r1
    r2 = r2
    c1 = c1
    c2 = c2
    c3 = c3
    None = None
    Runs = {r1}
    Callers = {c1, c2, c3}
    MaxWaits = 2
    MaxRestarts = 1
SYMMETRY Symmetric
INVARIANTS
    SingleExecution
    LogAgrees
    CancelRetriesSuffice
    LockedSnapshotCurrent
    UsageKept
PROPERTIES
    KeepsContract
\* Once every Run has ended, requests change nothing: the system may stop.
CHECK_DEADLOCK FALSE
