CONSTANTS
    Client = {c1, c2}
    Server = {s1, s2, s3}
    None = None
    Elsewhere = Elsewhere
    Attempts = 5
    Lingers = FALSE
    MaxReqs = 1
    MaxFaults = 0
SPECIFICATION Spec
INVARIANT NoFalseRefusal
CHECK_DEADLOCK FALSE
