SPECIFICATION FairSpec
CONSTANTS
    Fixture <- MCFixture
    Operations = {o1, o2}
    Fields = {feed}
    Values = {x, y}
    Tokens = {1, 2}
    Keys = {k1}
    NoKey = NoKey
    MaxLedger = 1
    Ttl = 1
    MaxTime = 1
    Callers = {mutator, verifier}
    Mutator = mutator
    MaxQueueDepth = 1
INVARIANTS
    FlowTypeOK
    VerifiedChangeStands
PROPERTIES
    ChangesAsApproved
    MutationSettles
    KeyKeepsItsMeaning
CHECK_DEADLOCK FALSE
