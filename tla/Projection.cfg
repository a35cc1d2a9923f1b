\* One page whose connections break or which is loaded anew twice, so that old sessions
\* go on beside its new one; two reconnects, failing stores.
SPECIFICATION FairSpec
CONSTANTS
    t1 = t1
    s1 = s1
    s2 = s2
    None = None
    Tabs = {t1}
    Sessions = {s1, s2}
    MaxReconnects = 2
    MaxDrops = 2
    StoreFails = TRUE
INVARIANTS
    RowInvariant
PROPERTIES
    NeverUndone
    RowSettles
\* A settled Run with no page that follows it stops.
CHECK_DEADLOCK FALSE
