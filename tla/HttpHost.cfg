SPECIFICATION HttpFairSpec
CONSTANTS
    Requests = {r1, r2, m1}
    Mutations = {m1}
    ReadSlots = 2
    MaxAttempts = 2
    Deadline = 2
    Ttl = 1
    MaxConcurrency = 2
    Remote = FALSE
    HasToken = TRUE
INVARIANTS
    HttpTypeOK
    StaleReadsExpire
    LeaversDoNoHarm
PROPERTIES
    SlotComesBack
CHECK_DEADLOCK FALSE
