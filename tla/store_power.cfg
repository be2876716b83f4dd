CONSTANTS
    Zero = Zero
    MaxSlot = 3
    MaxInode = 12
    Limit = 2
    Trigger = 2
    MaxTxn = 3
    MaxOpens = 2
    MaxFlushes = 1
    MaxLog = 5
    MaxFile = 4
    Kills = TRUE
    SyncFails = TRUE
    Mix = FALSE
SPECIFICATION Spec
INVARIANTS TypeOK PageCacheComplete OpenSound LogNamed
PROPERTY KeepsPromise
CHECK_DEADLOCK FALSE
