SPECIFICATION Spec
CONSTANTS
    Frames = {0, 1}
    Fds = {3}
    Files = {tableA, tableB}
    Clients = {c1, c2}
    None = None
    MaxPages = 3
    MaxTotal = 3
    MaxPins = 2
    MaxVersion = 1
    MaxLsn = 2
SYMMETRY Symmetry
INVARIANTS
    TypeOK
    PageTableExact
    PinsProtect
    FramesAccounted
    NoLostWrite
    WriteAheadLog
CHECK_DEADLOCK FALSE
