\* Owners may stall for any time outside a write. The settling outlasts the
\* trust an owner places in its last confirmation.
CONSTANTS
    m1 = m1
    m2 = m2
    Machines = {m1, m2}
    None = None
    Renew = 1
    Trust = 2
    Dead = 4
    Settle = 4
    IoMax = 1
    TakeMax = 1
    WriteMax = 1
    Overlap = FALSE
    SettleCrash = FALSE
    MaxOpens = 2
    MaxBoots = 1
    MaxCounter = 5
SYMMETRY Symmetry
SPECIFICATION Spec
INVARIANTS OneWriter TakenNeverWrites
CHECK_DEADLOCK FALSE
