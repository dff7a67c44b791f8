SPECIFICATION VmSpec
CONSTANTS
    Disks <- TwoDisks
    Capacity = 3
    ReadChunk = 2
    GuestWrites = 2
INVARIANT FullSnapshotRestores
CHECK_DEADLOCK FALSE
