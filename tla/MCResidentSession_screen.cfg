SPECIFICATION FairSpec
CONSTANTS
    c1 = c1
    Ports = {c1}
    Requests <- Screening
    Targets <- Targets1
    Width = 2
    MaxEpoch = 3
    MaxPublication = 3
    MaxRounds = 3
    MaxUploads = 3
INVARIANTS TypeOK AnsweredInOrder AcceptedInOrder AnswersHold ReplyIsAnAnswer
PROPERTIES PendingResolved FirstCauseStays
CHECK_DEADLOCK FALSE
