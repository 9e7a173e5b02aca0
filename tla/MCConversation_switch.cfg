\* The counterparty changes while the first run of the effect is suspended.
CONSTANTS
    Peer = {p, q}
    NoPeer = NoPeer
    MaxRun = 2
    MaxTask = 3
    MaxSend = 1
    MaxNet = 2
SPECIFICATION Spec
SYMMETRY Symmetry
INVARIANT SendsToPeer
CHECK_DEADLOCK FALSE
