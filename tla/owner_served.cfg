CONSTANTS
    c1 = c1
    c2 = c2
    Conns = {c1, c2}
    None = None
    Sends <- TurnSends
    MaxReqs <- TurnReqs
    MaxQueue = 1
SPECIFICATION Spec
CHECK_DEADLOCK FALSE
PROPERTY Served
