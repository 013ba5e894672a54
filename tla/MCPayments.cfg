SPECIFICATION PaymentSpec
CONSTANTS
    a = a
    b = b
    s1 = s1
    q1 = q1
    q2 = q2
    i1 = i1
    w1 = w1
    w2 = w2
    r1 = r1
    r2 = r2
    Callers = {a, b}
    Sessions = {s1}
    Nobody = Nobody
    NoSession = NoSession
    PoolMax = 3
    StartCents = 100
    Prices = {50, 100}
    PackCents = 100
    MaxOps = 4
    MaxFaults = 1
    NAccounts = 2
    ListRequests = {q1, q2}
    Slots = {s1}
    ListBudget = 3
    MaxPaid = 3
    ListAttempts = 2
    MaxListFaults = 1
    Watched = {i1}
    Schedulers = {w1, w2}
    WatchRuns = {r1, r2}
    WatchAttempts = 2
    Wallet = 2
    MaxPutOffs = 1
CHECK_DEADLOCK FALSE
INVARIANTS
    CreditTypeOK
    GrantedOnce
    LedgerExplainsBalance
    ListKeepsItsBooks
    WatchKeepsItsItems
PROPERTIES
    CallsEnd
    NothingIsForgotten
