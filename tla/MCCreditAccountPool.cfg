SPECIFICATION CreditFairSpec
CONSTANTS
    a = a
    b = b
    s1 = s1
    Callers = {a, b}
    Sessions = {s1}
    Nobody = Nobody
    NoSession = NoSession
    PoolMax = 2
    StartCents = 100
    Prices = {50, 100}
    PackCents = 100
    MaxOps = 2
    MaxFaults = 0
CHECK_DEADLOCK FALSE
PROPERTIES
    LedgerNeverBlocks
