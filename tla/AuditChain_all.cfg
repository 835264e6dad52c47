SPECIFICATION FairSpec
CONSTANTS
    Events = {e1, e2}
    Writers = {w1, w2, w3}
    MaxSeq = 4
    Null = Null
INVARIANTS JournalInv
PROPERTIES ImplementsLog CallsEnd
CHECK_DEADLOCK FALSE
