SPECIFICATION Spec
CONSTANTS
    None = None
    MaxKey = 3
    TreeOf <- OneTree
    Levels = 3
    Trigger = 2
    Spills <- NoSpill
    Written = {1, 2, 3}
    MaxSeq = 4
    MaxReaders = 0
    MaxFaults = 0
INVARIANT
    DeadFilesSwept
CHECK_DEADLOCK FALSE
