SPECIFICATION BridgeFairSpec
CONSTANTS
    Calls = {c1, c2, c3}
    FailureThreshold = 2
    Cooldown = 1
    RequiredHalfOpenSuccesses = 2
    MaxQueuedWrites = 3
    Modes = {"throw", "warn"}
INVARIANTS
    BridgeTypeOK
    OneProbe
    CountTellsState
    GivenUpIsCancelled
PROPERTIES
    RecoversWhenHealthy
    CallsSettle
CHECK_DEADLOCK FALSE
