SPECIFICATION FairSpec
CONSTANTS
    Factures = {f1, f2}
    r1 = r1
    r2 = r2
    Requests = {r1, r2}
    Issuers = {r1, r2}
    MaxEdits = 0
    MaxAbandoned = 0
    Null = Null
INVARIANTS IInv ChainSound AuditTruthful NoOrphanPdf
PROPERTIES LockedForGood RequestsEnd
CHECK_DEADLOCK FALSE
