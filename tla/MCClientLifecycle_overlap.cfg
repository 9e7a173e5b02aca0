\* Hosts that start a second call while a switch is suspended.
CONSTANTS
    Addr = {a, b}
    NoAddr = NoAddr
    Caller = {c1, c2}
    MaxGen = 4
    TimeoutEnabled = TRUE
    HostSerializes = FALSE
SPECIFICATION Spec
INVARIANT SingleFlight
