\* One page whose connection never breaks, a store that never fails.
SPECIFICATION Spec
CONSTANTS
    t1 = t1
    s1 = s1
    s2 = s2
    None = None
    Tabs = {t1}
    Sessions = {s1, s2}
    MaxReconnects = 3
    MaxDrops = 0
    StoreFails = FALSE
INVARIANTS
    FailedMeansFailed
\* A settled Run with no page that follows it stops.
CHECK_DEADLOCK FALSE
