\* The comment above the automatic commit against the write() error path.
SPECIFICATION Spec
CONSTANTS
    Txns = {t1, t2}
    TableIds = {tabA}
    RecordIds = {}
    Sessions = {s1, s2}
    Rows = 1
    Values = {0}
    None = None
    MaxWrites = 1
INVARIANT SingleStatementEnds
CHECK_DEADLOCK FALSE
