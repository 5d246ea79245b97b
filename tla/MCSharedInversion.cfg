SPECIFICATION Spec
CONSTANTS
    FIELD_P = 29
    CURVE_D = 3
    L = 3
    DALEK_BATCH = 4
    Results <- MCResults
INVARIANTS
    EncodingsExact
    OrdersExact
