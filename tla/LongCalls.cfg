SPECIFICATION LongCallsSpec
CONSTANTS
    x = x  y = y
    RSession = {s1, s2}
    TierCall = {c1, c2}
    Backup = {"b1", "b2"}
    Sha = {x, y}
    BlocksIn <- Manifests
    Policy <- Policies
    Never = 2
    LastDay = 1
    TierRuns = 2
SYMMETRY Alike
INVARIANTS LongCallsTypeOK RecoverySound TiersSound
CHECK_DEADLOCK FALSE
