SPECIFICATION Spec
CONSTANTS
    FIELD_P = 37
    CURVE_D = 2
    L = 5
    BASEPOINT_TABLE_SIZE = 136
    BasePoints <- MCBasePoints
INVARIANTS
    EntriesExact
CHECK_DEADLOCK FALSE
