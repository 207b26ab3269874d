SPECIFICATION LockSpec
CONSTANTS
    Txns = {t1, t2, t3}
    TableIds = {tab}
    RecordIds = {rec}
SYMMETRY Symmetry
INVARIANTS
    GrantedCompatible
    OneRequestPerTxn
    LockSetMatchesQueues
    LockTableExact
    GroupModeDecides
PROPERTY TwoPhase
CHECK_DEADLOCK FALSE
