SPECIFICATION Spec
CONSTANTS
    MaxPages = 3
    PerPage = 2
    MaxWrites = 3
INVARIANTS
    ScanExact
    FreeListSound
    OverrunOnlyRefilled
CHECK_DEADLOCK FALSE
