\* A retry whose publish hangs.
CONSTANTS
    Text = {t}
    File = {}
    FailedEchoWindow = 1
    MaxOp = 2
    MaxNet = 1
    MaxClock = 1
    NoBody = NoBody
    Offers = {"prepare"}
    DistinctBodies = TRUE
SPECIFICATION FairSpec
PROPERTY HungPublishEnds
CHECK_DEADLOCK FALSE
