\* Sends and retries of distinct messages, on every kind of SDK build.
CONSTANTS
    Text = {t}
    File = {f}
    FailedEchoWindow = 1
    MaxOp = 3
    MaxNet = 2
    MaxClock = 2
    NoBody = NoBody
    Offers = {"prepare", "status", "plain"}
    DistinctBodies = TRUE
SPECIFICATION FairSpec
INVARIANT TypeOK
INVARIANT UniqueIds
INVARIANT ShownSentIsPublished
INVARIANT PendingIsWorkedOn
PROPERTY ConfirmedIsFinal
PROPERTY FailureShows
PROPERTY ImplementsOutbox
PROPERTY PendingSendEnds
CHECK_DEADLOCK FALSE
