SPECIFICATION Spec
CONSTANTS
    c1 = c1
    Ports = {c1}
    Requests <- Unnumbered
    Targets <- Targets2
    Width = 2
    MaxEpoch = 3
    MaxPublication = 3
    MaxRounds = 4
    MaxUploads = 3
INVARIANT AcceptedInOrder
CHECK_DEADLOCK FALSE
