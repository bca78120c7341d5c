SPECIFICATION Spec
CONSTANTS
    h1 = h1
    h2 = h2
    n1 = n1
    n2 = n2
    d1 = d1
    d2 = d2
    Handlers = {h1}
    Ops = {"Create", "Update", "Delete"}
    Texts = {n1, n2, d1, d2, Blank}
    Blank = Blank
    Payloads <- ThreePayloads
    Prefix = "app_service-"
    NoRow = NoRow
    MaxId = 2
    PoolSize = 2
    Faults = {}
PROPERTIES
    UpdateByIdOnly
