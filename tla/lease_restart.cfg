\* An opener may die between its claim and its settling read, and start again.
CONSTANTS
    m1 = m1
    m2 = m2
    Machines = {m1, m2}
    None = None
    Renew = 1
    Trust = 2
    Dead = 4
    Settle = 4
    IoMax = 1
    TakeMax = 1
    WriteMax = 1
    Overlap = FALSE
    SettleCrash = TRUE
    MaxOpens = 2
    MaxBoots = 1
    MaxCounter = 5
SYMMETRY Symmetry
SPECIFICATION Spec
INVARIANT OneWriter
CHECK_DEADLOCK FALSE
