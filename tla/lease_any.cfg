\* The shipped order of the timings, an owner that closes or tears the lease while one
\* it replaced still runs, and openers that die while they settle.
CONSTANTS
    m1 = m1
    m2 = m2
    Machines = {m1, m2}
    None = None
    Renew = 1
    Trust = 2
    Dead = 4
    Settle = 1
    IoMax = 1
    TakeMax = 1
    WriteMax = 1
    Overlap = TRUE
    SettleCrash = TRUE
    MaxOpens = 2
    MaxBoots = 1
    MaxCounter = 4
SYMMETRY Symmetry
SPECIFICATION Spec
INVARIANTS TypeOK StaleWindow
CHECK_DEADLOCK FALSE
