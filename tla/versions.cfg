SPECIFICATION Spec
CONSTANTS
    None = None
    MaxKey = 3
    TreeOf <- Trees
    Levels = 3
    Trigger = 2
    Spills <- Both
    Written = {1}
    MaxSeq = 3
    MaxReaders = 1
    MaxFaults = 1
INVARIANTS
    TypeOK
    SnapshotReads
    FilesDurable
    Layered
CHECK_DEADLOCK FALSE
