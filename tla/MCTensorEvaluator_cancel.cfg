CONSTANTS
    w1 = w1
    w2 = w2
    RequestCapacity = 1
    ItemCapacity = 1
    Workers = {w1}
    Cancellable = {0}
    MaxGeneration = 1
    MaxBatch = 1
SPECIFICATION OrderlySpec
INVARIANT CancelledIsNotReady
CHECK_DEADLOCK FALSE
