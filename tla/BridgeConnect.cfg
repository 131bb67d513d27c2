SPECIFICATION BridgeSpec
CONSTANTS
    Calls = {c1, c2}
    FailureThreshold = 2
    Cooldown = 1
    RequiredHalfOpenSuccesses = 2
    MaxQueuedWrites = 2
    Modes = {"throw"}
INVARIANTS
    ServerOutlivesFailedConnect
CHECK_DEADLOCK FALSE
