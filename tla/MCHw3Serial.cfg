SPECIFICATION FairSpec
CONSTANTS
    RING_BUFFER_SIZE = 3
    ChunkSize = 2
    FifoSize = 4
    FifoTrigger = 3
    MaxBytes = 7
INVARIANTS
    NothingLost
PROPERTIES
    EverythingPrinted
