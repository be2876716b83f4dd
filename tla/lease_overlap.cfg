\* An owner may close cleanly while one that it replaced is only paused.
CONSTANTS
    m1 = m1
    m2 = m2
    Machines = {m1, m2}
    None = None
    Renew = 1
    Trust = 2
    Dead = 4
    Settle = 4
    IoMax = 1
    TakeMax = 1
    WriteMax = 1
    Overlap = TRUE
    SettleCrash = FALSE
    MaxOpens = 2
    MaxBoots = 0
    MaxCounter = 5
SYMMETRY Symmetry
SPECIFICATION Spec
INVARIANT TakenNeverWrites
CHECK_DEADLOCK FALSE
