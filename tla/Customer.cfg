SPECIFICATION FairSpec
CONSTANTS
    p1 = p1
    p2 = p2
    s1 = s1
    s2 = s2
    Pages = {p1}
    Sessions = {s1, s2}
    MaxReconnects = 1
    MaxLog = 3
    Nobody = Nobody
INVARIANTS
    StoreInvariant
    EndsAlike
    
PROPERTIES
    AnswerStored
CHECK_DEADLOCK FALSE
