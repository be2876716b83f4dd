CONSTANTS
    c1 = c1
    c2 = c2
    Conns = {c1}
    None = None
    Sends <- AnySends
    MaxReqs <- AnyReqs
    MaxQueue = 2
SPECIFICATION Spec
CHECK_DEADLOCK FALSE
INVARIANTS TypeOK InOrder Atomic
