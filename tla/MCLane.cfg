SPECIFICATION Spec
CONSTANTS
    FIELD_P = 29
    CURVE_D = 3
    L = 3
    SQRT_M1 = 12
    Y_LIMIT = 32
    DIGITS = 6
    Unset = Unset
    Keys <- MCKeys
    SignScalars <- MCSignScalars
    Challenges <- MCChallenges
INVARIANTS
    DecodeFaithful
    TableExact
    SelectionsInBounds
    WrittenWhenRead
    LadderExact
    VerdictsOfPolicy
