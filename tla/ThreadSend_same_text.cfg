\* The same words sent twice.
CONSTANTS
    Text = {t}
    File = {}
    FailedEchoWindow = 1
    MaxOp = 2
    MaxNet = 2
    MaxClock = 2
    NoBody = NoBody
    Offers = {"prepare"}
    DistinctBodies = FALSE
SPECIFICATION Spec
PROPERTY FailureShows
CHECK_DEADLOCK FALSE
