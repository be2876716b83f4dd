\* Nothing bounds the time from the read that ends the settling, or from the
\* write that takes the lease, to the clock reading that confirms it.
CONSTANTS
    m1 = m1
    m2 = m2
    Machines = {m1, m2}
    None = None
    Renew = 1
    Trust = 2
    Dead = 4
    Settle = 4
    IoMax = 1
    TakeMax = 5
    WriteMax = 1
    Overlap = FALSE
    SettleCrash = FALSE
    MaxOpens = 2
    MaxBoots = 1
    MaxCounter = 5
SYMMETRY Symmetry
SPECIFICATION Spec
INVARIANT OneWriter
CHECK_DEADLOCK FALSE
