SPECIFICATION Spec
CONSTANTS
    LANES = 2
    USIZE_MAX = 1023
    L = 3
    Unwritten = Unwritten
    NoTable = NoTable
    Batches <- MCBatches
INVARIANTS ScratchTaken
PROPERTIES ImplementsVerification
