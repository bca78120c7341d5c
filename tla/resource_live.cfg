SPECIFICATION FairSpec
CONSTANTS
    h1 = h1
    h2 = h2
    n1 = n1
    n2 = n2
    d1 = d1
    d2 = d2
    Handlers = {h1, h2}
    Ops = {"Create", "Update", "Delete", "Get", "List"}
    Texts = {n1, n2, d1, d2, Blank}
    Blank = Blank
    Payloads <- TwoPayloads
    Prefix = "app_service-"
    NoRow = NoRow
    MaxId = 1
    PoolSize = 1
    Faults = {"fail", "lost"}
PROPERTIES
    EveryRequestAnswered
