SPECIFICATION FairSpec
CONSTANTS
    Reads = {r1, r2, r3}
    Mutations = {m1, m2, m3}
    Urgent = {r3, m3}
    FirstDocument = d1
    SecondDocument = d2
    DocumentKeys <- MCDocumentKeys
    Priority <- MCPriority
    Key <- MCKey
    MaxConcurrentReads = 1
    MaxQueueDepth = 2
INVARIANTS
    SchedulerTypeOK
    LanesAreCounted
    LanesNeverStall
PROPERTIES
    EveryTaskSettles
CHECK_DEADLOCK FALSE
