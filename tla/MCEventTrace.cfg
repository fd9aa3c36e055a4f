SPECIFICATION Spec
CONSTANTS
    Width = 3
    Unit = 2
    Entries = {0, 1, 2, 3, 4, 7}
    MaxNEntries = 5
    DurationsU64 = {0, 1, 2, 5}
    DurationsF64 = {0, 1, 3, 4}
INVARIANTS
    TypeOK
    ListIsUnderWay
    DepthIsPeak
CHECK_DEADLOCK FALSE
