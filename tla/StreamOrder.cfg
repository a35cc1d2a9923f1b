\* Two readers with two reconnects each, three connections lost, three events.
SPECIFICATION FairSpec
CONSTANTS
    u1 = u1
    u2 = u2
    Clients = {u1, u2}
    MaxReconnects = 2
    MaxEvents = 3
    MaxDrops = 3
INVARIANTS
    NothingMissed
PROPERTIES
    InOrder
    EndReaches
\* A closed stream with no reader left stops.
CHECK_DEADLOCK FALSE
