SPECIFICATION Spec
CONSTANTS
    Keys = {k1, k2}
    SyncMaxFailures = 2
    MaxPdfs <- MaxPdfsDef
    MaxDeaths = 1
    Devis = {d1, d2}
    Runs = {c1, c2}
INVARIANTS
    
    RemindedOnce
PROPERTIES
    QueueDrains
CHECK_DEADLOCK FALSE
