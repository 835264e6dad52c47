SPECIFICATION Spec
CONSTANTS
    Requests = {r1, r2}
    Contents = {c1}
    MaxOf <- AnyTwo
    Refs = {"token"}
    Faults = {"storage", "database", "death"}
    Null = Null
SYMMETRY Symmetry
INVARIANTS IInv LogTruthful TooLateIsTrue
PROPERTIES StatusMoves
CHECK_DEADLOCK FALSE
