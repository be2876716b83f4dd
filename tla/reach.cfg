CONSTANTS
    Client = {c1, c2}
    Server = {s1, s2, s3}
    None = None
    Elsewhere = Elsewhere
    Attempts = 5
    Lingers = TRUE
    MaxReqs = 2
    MaxFaults = 1
SPECIFICATION Spec
INVARIANTS TypeOK Reachable AtMostOnce NoFalseRefusal
PROPERTIES ReachEnds OwnerLeaves
CHECK_DEADLOCK FALSE
