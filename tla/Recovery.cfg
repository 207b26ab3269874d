SPECIFICATION Spec
CONSTANTS
    Tables = {tabA}
    MaxPages = 2
    PerPage = 2
    Values = {v1, v2}
    None = None
    MaxTxns = 3
    Bounds <- MCBounds
INVARIANTS
    WriteAheadLog
    Recovered
    StartFailsOnly
CHECK_DEADLOCK FALSE
