SPECIFICATION FairSpec
CONSTANTS
    Sectors <- TwoSectors
    Chunks = 4
    FlashSize = 5
    ChunkSize = 2
    SaveEvery = 2
    MaxProbes = 2
    MaxRetries = 2
    MaxLate = 2
    LooksLikeAck <- AckChunk
INVARIANTS
    DumpFaithful
    SuccessMeansDumped
    LossBounded
    SavedKept
PROPERTY
    RunEnds
