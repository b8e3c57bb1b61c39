CONSTANTS
    w1 = w1
    w2 = w2
    RequestCapacity = 2
    ItemCapacity = 2
    Workers = {w1, w2}
    Cancellable = {0}
    MaxGeneration = 2
    MaxBatch = 2
SPECIFICATION OrderlySpec
SYMMETRY Same
INVARIANTS TypeOK InFlightHasLane ReadyIsOwn BatchFinishes
PROPERTY ImplementsSlots
CHECK_DEADLOCK FALSE
