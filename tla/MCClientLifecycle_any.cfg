\* Hosts that call whenever they like: what holds without any discipline of theirs.  No
\* symmetry, since one property is of liveness.
CONSTANTS
    Addr = {a, b}
    NoAddr = NoAddr
    Caller = {c1, c2}
    MaxGen = 3
    TimeoutEnabled = TRUE
    HostSerializes = FALSE
SPECIFICATION FairSpec
INVARIANT TypeOK
INVARIANT SnapshotFresh
INVARIANT EntryPaired
INVARIANT StatusIsOwn
INVARIANT PersistedFollowsClient
PROPERTY ClientNeverReplaced
PROPERTY InitializingEnds
