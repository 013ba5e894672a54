SPECIFICATION ApiFairSpec
CONSTANTS
    k1 = k1
    Clients = {k1}
    MaxRetries = 1
    MaxSends = 3
    StartBalance = 3
    MaxFaults = 2
CHECK_DEADLOCK FALSE
INVARIANTS
    ApiTypeOK
    PaidOncePerKey
    AnswersAgree
    ErrorsAreFree
PROPERTIES
    CallEnds
