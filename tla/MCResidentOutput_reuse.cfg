SPECIFICATION ReaderFairSpec
CONSTANTS
    o1 = o1
    terminal = terminal
    Observers = {o1}
    Terminal = terminal
    Foci <- ReusedFoci
    MaxPublication = 3
    MaxEpoch = 2
    Attempts = 2
INVARIANTS
    TypeOK
    BorrowedByExactlyOne
    CurrentSlotServable
    ReadyAnswerIsOnePublication
    SpareRecovers
PROPERTIES
    BorrowedSlotImmutable
    ImplementsRegister
    ReadersAnswer
    SpareReturns
