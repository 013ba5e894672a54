SPECIFICATION HangSpec
CONSTANTS
    w1 = w1
    w2 = w2
    c1 = c1
    c2 = c2
    c3 = c3
    MaxTasks = 2
    MaxAttempts = 2
    Workers = {w1}
    Embedded = {w1}
    Coroutines = {c1}
    MaxConcurrent = 1
    MaxFaults = 0
    MaxRetries = 0
PROPERTIES
    HungTaskIsReaped
