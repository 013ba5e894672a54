SPECIFICATION FanFairSpec
CONSTANTS
    w1 = w1
    c1 = c1
    c2 = c2
    p1 = p1
    MaxTasks = 3
    MaxAttempts = 2
    Workers = {w1}
    Embedded = {w1}
    Coroutines = {c1, c2}
    MaxConcurrent = 2
    MaxItems = 2
    Readers = {}
    MaxFaults = 0
    MaxRetries = 0
INVARIANTS
    CountersExact
    OneRowPerItem
PROPERTIES
    EveryItemCounted
