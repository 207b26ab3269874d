CONSTANTS
    IntMin <- MCIntMin
    IntMax = 6
    BigMin <- MCBigMin
    BigMax = 20
    FloatBits = 2
    DoubleBits = 4
    Schema <- MCSchema
    JoinBlock = 2
    Scenarios <- MCScenarios
    Databases <- MCDatabases
    Repertoire <- MCRepertoire
    MaxChanges = 3
    MaxFaults = 1
SPECIFICATION Spec
CHECK_DEADLOCK FALSE
INVARIANTS
    TypeOK
    QueryExact
    FailsOnly
    IndexesExact
    DmlExact
    RollbackRestores
