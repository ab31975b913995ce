\* The geometry of umash.h.
CONSTANTS
    WordSize = 8
    ChunkSize = 16
    BlockChunks = 16
    BlockBytes = 256
    ShortHashShift = 4
    MultipleBlocksThreshold = 1024
    Sizes <- BoundarySizes
SPECIFICATION Spec
INVARIANTS
    ResultIsReference
    ReadsInside
CHECK_DEADLOCK FALSE
