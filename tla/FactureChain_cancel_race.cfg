SPECIFICATION Spec
CONSTANTS
    Factures = {f1}
    r1 = r1
    r2 = r2
    Requests = {r1, r2}
    Issuers = {r1, r2}
    MaxEdits = 0
    MaxAbandoned = 0
    Null = Null
SYMMETRY Symmetry
PROPERTIES IssuedNeverCancelled
CHECK_DEADLOCK FALSE
