SPECIFICATION Spec
CONSTANTS
    Factures = {f1, f2}
    r1 = r1
    r2 = r2
    Requests = {r1, r2}
    Issuers = {r1}
    MaxEdits = 1
    MaxAbandoned = 1
    Null = Null
SYMMETRY Symmetry
INVARIANTS PapersAgree
CHECK_DEADLOCK FALSE
