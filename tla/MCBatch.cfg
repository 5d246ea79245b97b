SPECIFICATION Spec
CONSTANTS
    LANES = 2
    USIZE_MAX = 1023
    Batches <- MCBatches
INVARIANTS EveryInputOnce
PROPERTIES EveryCallReturns
