SPECIFICATION Spec
CONSTANTS
    LANES = 2
    USIZE_MAX = 1023
    L = 3
    DALEK_BATCH = 3
    ZIP215_BATCH = 2
    Unwritten = Unwritten
    NoTable = NoTable
    Batches <- MCBatches
    Capacities <- MCCapacities
    CallerKeys <- MCKeys
INVARIANTS CacheTruthful ChunkKeysStay EveryInputAccounted NothingPanics ScratchTaken
PROPERTIES ImplementsVerification
