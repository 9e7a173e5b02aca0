\* A retry in flight while the wallet signs out and another one fails.
CONSTANTS
    Addr = {a, b}
    NoAddr = NoAddr
    Caller = {c1, c2}
    MaxGen = 4
    TimeoutEnabled = TRUE
    HostSerializes = TRUE
SPECIFICATION Spec
SYMMETRY Symmetry
INVARIANT RetryRerunsFailure
