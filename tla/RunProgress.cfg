\* Progress of one Run under fair scheduling, without a restart.
SPECIFICATION FairSpec
CONSTANTS
    r1 = r1
    r2 = r2
    c1 = c1
    c2 = c2
    c3 = c3
    None = None
    Runs = {r1}
    Callers = {c1, c2}
    MaxWaits = 2
    MaxRestarts = 0
PROPERTIES
    CancelTerminates
    RunSettles
\* Once every Run has ended, requests change nothing: the system may stop.
CHECK_DEADLOCK FALSE
