SPECIFICATION Spec
CONSTANTS
    Requests = {r1, r2, r3}
    Contents = {c1}
    MaxOf <- Orderly
    Refs = {"token"}
    Faults = {"storage"}
    Null = Null
SYMMETRY Symmetry
INVARIANTS PapersKept InvoiceOfAccepted
CHECK_DEADLOCK FALSE
