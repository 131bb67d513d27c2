SPECIFICATION FairSpec
CONSTANTS
    First = first
    Retry = retry
    Clash = clash
    Second = second
    Third = third
    Fourth = fourth
    Read = read
    NoKey = NoKey
    Requests <- MCRequests
    Reads = {read}
    Deadlined = {second}
    RequestId <- MCRequestId
    Key <- MCKey
    Action <- MCAction
    MaxQueuedCommands = 1
    MaxIdempotencyEntries = 3
    MaxSent = 4
INVARIANTS
    RouterTypeOK
    CancelReachesIt
    KeyRunsOnce
    ClientEndsItsWork
PROPERTIES
    NothingBeginsForTheGone
    EveryRequestAnswered
CHECK_DEADLOCK FALSE
