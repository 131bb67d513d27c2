SPECIFICATION Spec
CONSTANTS
    Fixture <- MCFixture
    Operations = {o1, o2}
    Fields = {feed}
    Values = {x, y}
    Tokens = {1, 2}
    Keys = {}
    NoKey = NoKey
    MaxLedger = 2
    Ttl = 1
    MaxTime = 1
    Callers = {mutator, verifier}
    Mutator = mutator
    MaxQueueDepth = 1
INVARIANT OperatorApprovesMutations
CHECK_DEADLOCK FALSE
