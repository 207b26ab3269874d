CONSTANTS
    Order = 3
    Keys = {1, 2, 4, 5, 6, 8, 9, 10, 12, 13, 14, 16}
    Loads <- MCLoads
    Bounds = {3, 8, 13}
    MaxOps = 4
SPECIFICATION Spec
INVARIANTS
    TreeShape
    SearchExact
    RangeExact
PROPERTY
    IndexSpec
CHECK_DEADLOCK FALSE
