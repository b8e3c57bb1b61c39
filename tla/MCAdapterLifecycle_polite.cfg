CONSTANTS
    c1 = c1
    c2 = c2
    c3 = c3
    Calls <- TwoCalls
    Ids = {1, 2, 3, 4}
    MaxFaults = 2
    MaxTransfers = 1
    Overlap = FALSE
SPECIFICATION Spec
INVARIANTS TypeOK DependencySafe NothingLost HonestReport FlagsMatch ClosesAlone
PROPERTIES QuarantineStays
CHECK_DEADLOCK FALSE
