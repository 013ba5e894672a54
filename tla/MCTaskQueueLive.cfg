SPECIFICATION FairSpec
CONSTANTS
    w1 = w1
    w2 = w2
    c1 = c1
    c2 = c2
    c3 = c3
    MaxTasks = 1
    MaxAttempts = 2
    Workers = {w1, w2}
    Embedded = {w2}
    Coroutines = {c1}
    MaxConcurrent = 1
    MaxFaults = 3
    MaxRetries = 0
PROPERTIES
    EveryTaskSettles
    ShutdownEnds
