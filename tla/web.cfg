SPECIFICATION Spec
CONSTANTS
    c1 = c1
    c2 = c2
    Conn = {c1, c2}
    Leaving <- EachItsWay
    Parts = 2
    Programs <- Both
    Kinds = {"plain", "stream"}
    MaxOps = 1
INVARIANTS TypeOK OwnAnswer
PROPERTIES NeverSilent Answered TermEnds
CHECK_DEADLOCK FALSE
