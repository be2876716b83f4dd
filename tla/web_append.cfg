SPECIFICATION Spec
CONSTANTS
    c1 = c1
    c2 = c2
    Conn = {c1, c2}
    Leaving <- AllReset
    Parts = 1
    Programs <- Plain
    Kinds = {"plain"}
    MaxOps = 1
INVARIANTS ServiceSurvives
CHECK_DEADLOCK FALSE
