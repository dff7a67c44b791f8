SPECIFICATION Spec
CONSTANTS
    Node = {n1, n2}
    Skew <- MCSkew
    TTL = 1
    Entry = {e1}
    MaxTime = 2
    NoNode = NoNode
    Gone = Gone
    n1 = n1  n2 = n2
INVARIANTS
    TypeOK FreshLeaderOwnsLock EntriesSound
PROPERTY FinishedStays
CHECK_DEADLOCK FALSE
