SPECIFICATION Spec
CONSTANTS
    Requests = {r1, r2}
    Contents = {c1}
    MaxOf <- Orderly
    Refs = {"slug", "token"}
    Faults = {}
    Null = Null
SYMMETRY Symmetry
INVARIANTS TooLateIsTrue
CHECK_DEADLOCK FALSE
