SPECIFICATION Spec
CONSTANTS
    RADIX = 2048
    HEADROOM = 512
    FOLD = 3
    LOOSENESS = 64
    LOOSE_BIAS = 256
    D <- MCD
    TWO_D <- MCTwoD
    SQRT_M1 <- MCSqrtM1
    Encodings <- MCEncodings
    Digits <- MCDigits
    Factors <- MCFactors
    Loose <- MCLoose
INVARIANTS
    OperandsFit
    NothingWraps
    FormulasExact
    ChainsExact
    CanonicalExact
    BytesExact
    ChecksExact
