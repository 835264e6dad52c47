SPECIFICATION Spec
CONSTANTS
    Pages = {p1}
    Requests = {r1, r2}
    MaxAttempts = 1
    MaxCodes = 2
    MaxKeys = 1
    Client = Client
    Wrong = Wrong
    Null = Null
INVARIANTS
    SignedByMailbox
    ShownIsTrue
SYMMETRY Symmetry
CHECK_DEADLOCK FALSE
