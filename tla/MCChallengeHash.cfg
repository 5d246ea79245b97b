SPECIFICATION Spec
CONSTANTS
    LANES = 2
    USIZE_MAX = 2047
    MessageLengths <- MCLengths
    IV <- MCIV
    K <- MCK
    Content <- MCContent
INVARIANTS
    DigestsExact
    ReadsInside
    DigestsAreSha512
