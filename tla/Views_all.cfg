SPECIFICATION Spec
CONSTANTS
    Docs = {one, two}
    Tabs = {one, two}
    Windows = {one, two}
    Flushes = {f1, f2}
    Claims = {c1, c2}
    Signers = {s1}
    MaxQuotes = 2
    Null = Null
    Rows = {r1, r2, mine}
    Own = mine
    Requests = {one, two}
    MaxReads = 2
    Unread = Unread
    MonthsShown = 3
    LastMonth = 3
    MaxInvoices = 2
    NotRead = NotRead
    Events = {one, two}
    Writers = {w1}
    MaxSeq = 3
    MaxChanges = 2
INVARIANTS
    
    
    ClaimsAreSigned
    
    LogoKept
    
    
    JournalDetectsChanges
SYMMETRY Symmetry
CHECK_DEADLOCK FALSE
