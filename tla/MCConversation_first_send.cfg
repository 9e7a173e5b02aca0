\* The first send into a new DM.
CONSTANTS
    Peer = {p}
    NoPeer = NoPeer
    MaxRun = 1
    MaxTask = 2
    MaxSend = 1
    MaxNet = 1
SPECIFICATION Spec
PROPERTY FirstSendKeepsBubble
CHECK_DEADLOCK FALSE
