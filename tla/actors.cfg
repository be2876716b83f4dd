SPECIFICATION Spec
CONSTANTS
    Proc = {r, a}
    Root = r
    None = none
    Tags = {"x", "y"}
    BoxMax = 2
    MaxSends = 2
    MaxRefs = 1
    MaxKills = 1
    MaxGiven = 1
    Outcomes = {"error"}
    Timed = TRUE
INVARIANTS TypeOK ExactlyOnce OneDown ReasonTrue
PROPERTIES OldestFirst Woken SpawnEnds
CHECK_DEADLOCK FALSE
