SPECIFICATION Spec
CONSTANTS
    r1 = r1
    r2 = r2
    Requests <- TwoRequests
    PingLimit = 3
    DrainLimit = 2
PROPERTIES
    DrainHonoured
