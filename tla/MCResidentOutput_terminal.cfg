SPECIFICATION Spec
CONSTANTS
    o1 = o1
    terminal = terminal
    Observers = {o1}
    Terminal = terminal
    Foci <- TwoFoci
    MaxPublication = 2
    MaxEpoch = 1
    Attempts = 3
INVARIANTS
    TerminalDelivered
