SPECIFICATION FairSpec
CONSTANTS
    TableNames = {"t"}
    IndexNames = {"i", "j", "long"}
    TooLong = {"long"}
    TableOf <- MCTableOf
    FileOf <- MCFileOf
    Sessions = {"s1", "s2"}
    Clients = {"c1", "c2"}
    MaxFd = 9
    Bounds <- MCBounds
INVARIANTS CatalogConsistent Restartable IndexNumbered HandOver
PROPERTIES DdlOutcome Answered
CHECK_DEADLOCK FALSE
