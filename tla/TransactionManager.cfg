SPECIFICATION Spec
CONSTANTS
    Txns = {t1, t2}
    TableIds = {tabA, tabB}
    RecordIds = {}
    Sessions = {s1, s2}
    Rows = 1
    Values = {0, 1}
    None = None
    MaxWrites = 2
SYMMETRY Symmetry
INVARIANTS
    StrictLocks
    SerializableReads
    RollbackExact
PROPERTIES
    LockSpec
    StoreSpec
CHECK_DEADLOCK FALSE
