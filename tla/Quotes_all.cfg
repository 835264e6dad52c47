SPECIFICATION Spec
CONSTANTS
    Requests = {r1, r2}
    Keys = {k1}
    Sources = {s1}
    Plan = "FREE"
    Quota = 1
    MonthsPerYear = 1
    MaxMonth = 1
    MaxDevis = 3
    Null = Null
    Items <- ItemsDef
    Prices <- PricesDef
    MaxItems = 2
    NoQuote = NoQuote
    Papers <- PapersDef
    Devis = {d1, d2, d3}
    Factures = {f1}
    Tokens <- TokensDef
    Senders = {r1, r2}
    MaxDeleted = 1
    NoLink = NoLink
INVARIANTS
    ServerInv
    OncePerKey
    QuotaKept
    QuoteAgrees
    
    LinkLeadsHome
SYMMETRY Symmetry
CHECK_DEADLOCK FALSE
