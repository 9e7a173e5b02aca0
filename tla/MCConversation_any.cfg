\* A hook that is given two counterparties, against every order of its tasks.
CONSTANTS
    Peer = {p, q}
    NoPeer = NoPeer
    MaxRun = 2
    MaxTask = 3
    MaxSend = 1
    MaxNet = 2
SPECIFICATION Spec
SYMMETRY Symmetry
INVARIANT TypeOK
INVARIANT UniqueIds
INVARIANT SettledOnce
INVARIANT AckedOnce
INVARIANT LoadingEnds
PROPERTY LeftStaysUnread
CHECK_DEADLOCK FALSE
