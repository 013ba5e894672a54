SPECIFICATION JobFairSpec
CONSTANTS
    w1 = w1
    c1 = c1
    c2 = c2
    p1 = p1
    p2 = p2
    MaxTasks = 1
    MaxAttempts = 2
    Workers = {w1}
    Embedded = {w1}
    Coroutines = {c1, c2}
    MaxConcurrent = 2
    Pollers = {p1}
    MaxFaults = 1
    MaxRetries = 1
INVARIANTS
    JobTypeOK
    RefundedOncePerGrant
    NothingFree
    JobAgreesWithTask
PROPERTIES
    ChargeSettles
