SPECIFICATION Spec
CONSTANTS
    DIGITS = 6
    LIMB_RADIX = 32
    SCALAR_LFACTOR = 5
    SCALAR_L <- MCOrder
    SCALAR_R <- MCR
    SCALAR_RR <- MCRR
    Hashes <- MCHashes
INVARIANTS
    PackingExact
    ColumnsFit
    DigitsExact
