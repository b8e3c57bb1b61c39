CONSTANTS
    RequestCapacity = 3
    ItemCapacity = 2
    Workers <- TwoLanes
    Cancellable = {0, 1, 2}
    MaxGeneration = 1
    MaxBatch = 2
SPECIFICATION CohortSpec
INVARIANT RoundsSettle
PROPERTIES BlockLeaves CallsInOrder
CHECK_DEADLOCK FALSE
