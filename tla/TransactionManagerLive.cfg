\* Scans and write loops of two rows; no symmetry, for liveness.
SPECIFICATION FairSpec
CONSTANTS
    Txns = {t1, t2}
    TableIds = {tabA}
    RecordIds = {}
    Sessions = {s1, s2}
    Rows = 2
    Values = {0}
    None = None
    MaxWrites = 2
PROPERTY
    StatementEnds
CHECK_DEADLOCK FALSE
