SPECIFICATION Spec
CONSTANTS
    Proc = {r, a, b}
    Root = r
    None = none
    Tags = {"x"}
    BoxMax = 1
    MaxSends = 0
    MaxRefs = 0
    MaxKills = 0
    MaxGiven = 0
    Outcomes = {"normal"}
    Timed = TRUE
INVARIANTS CleanupReaches
CHECK_DEADLOCK FALSE
