SPECIFICATION Spec
CONSTANTS
    Tables = {tabA}
    MaxPages = 1
    PerPage = 1
    Values = {v1, v2}
    None = None
    MaxTxns = 2
    Bounds <- MCAborted
INVARIANT CommittedSurvives
CHECK_DEADLOCK FALSE
