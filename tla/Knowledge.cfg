SPECIFICATION WatchedSpec
CHECK_DEADLOCK FALSE
CONSTANTS
    a1 = a1
    a2 = a2
    b1 = b1
    None = None
    Versions = {a1, a2, b1}
    DocOf <- MCDocOf
    Plans <- AllPlans
INVARIANTS IndexInvariant Answerable
PROPERTIES NothingLost TaskSettles PublicationEnds
