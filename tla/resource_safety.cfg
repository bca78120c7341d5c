SPECIFICATION HistorySpec
CONSTANTS
    h1 = h1
    h2 = h2
    n1 = n1
    n2 = n2
    d1 = d1
    d2 = d2
    Handlers = {h1, h2}
    Ops = {"Create", "Update", "Delete", "Get", "List"}
    Texts = {n1, n2, d1, d2, Blank}
    Blank = Blank
    Payloads <- ThreePayloads
    Prefix = "app_service-"
    NoRow = NoRow
    MaxId = 2
    PoolSize = 2
    Faults = {"fail", "lost"}
INVARIANTS
    TypeOK
    InstanceMatchesId
    RowsAreUntorn
    IdsComeFromSequence
    VouchedNamesUnique
PROPERTIES
    DeadIdsStayDead
    RequestsSpareOtherRows
    CatalogRefined
