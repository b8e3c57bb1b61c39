CONSTANTS
    c1 = c1
    c2 = c2
    c3 = c3
    Calls <- TwoCalls
    Ids = {1, 2, 3, 4}
    MaxFaults = 0
    MaxTransfers = 1
    Overlap = TRUE
SPECIFICATION Spec
INVARIANTS DependencySafe
CHECK_DEADLOCK FALSE
