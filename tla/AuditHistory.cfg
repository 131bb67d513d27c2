SPECIFICATION HistorySpec
CONSTANTS
    LastEntry = 5
    MaxRotatedFiles = 2
    MaxFileBytes = 2
    MaxFaults = 1
    MaxCrashes = 1
INVARIANTS
    TypeOK
    AckedIsStored
    UndamagedLogVerifies
    HistoryMissesNothing
    HistoryAlarmIsReal
PROPERTIES
    RotationDropsOnlyOldest
    CorruptLogIsFrozen
    CriticalRecordSettles
    KeepsItsPromise
CHECK_DEADLOCK FALSE
