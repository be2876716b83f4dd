\* A sync fails, the store is closed and opened again, and then power is lost.
CONSTANTS
    Zero = Zero
    MaxSlot = 3
    MaxInode = 12
    Limit = 2
    Trigger = 2
    MaxTxn = 2
    MaxOpens = 3
    MaxFlushes = 1
    MaxLog = 5
    MaxFile = 4
    Kills = FALSE
    SyncFails = TRUE
    Mix = TRUE
SPECIFICATION Spec
INVARIANT AckedSurvive
CHECK_DEADLOCK FALSE
