SPECIFICATION Spec
CONSTANTS
    LastEntry = 4
    MaxRotatedFiles = 2
    MaxFileBytes = 2
    MaxFaults = 0
    MaxCrashes = 0
INVARIANT RotationPreservesChain
CHECK_DEADLOCK FALSE
