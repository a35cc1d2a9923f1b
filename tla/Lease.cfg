\* Two model calls and two requests to sources; one more unit than fits is wanted.
SPECIFICATION LeaseSpec
CONSTANTS
    model1 = model1
    model2 = model2
    source1 = source1
    source2 = source2
    Calls = {model1, model2, source1, source2}
    Sources = {source1, source2}
    Charge <- MCCharge
    Limit = 6
    OutputReserve = 1
    Excess = 1
INVARIANTS
    LedgerInvariant
    HonestDelivered
PROPERTIES
    NothingAfterTheEnd
\* A Run that has ended, with nothing in flight, stops.
CHECK_DEADLOCK FALSE
