\* Hosts that wait for a switch, a sign-out and a reset to finish.
CONSTANTS
    Addr = {a, b}
    NoAddr = NoAddr
    Caller = {c1, c2}
    MaxGen = 4
    TimeoutEnabled = TRUE
    HostSerializes = TRUE
SPECIFICATION Spec
SYMMETRY Symmetry
PROPERTY ImplementsSession
INVARIANT ReadyMatchesWallet
INVARIANT SingleFlight
INVARIANT SignedOutStaysOut
INVARIANT ActiveClientAlive
