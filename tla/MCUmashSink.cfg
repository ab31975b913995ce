\* Scaled geometry: 4-byte chunks, 3 chunks per block, four paths reachable.
CONSTANTS
    WordSize = 2
    ChunkSize = 4
    BlockChunks = 3
    BlockBytes = 12
    ShortHashShift = 4
    MultipleBlocksThreshold = 36
    MaxBytes = 64
    UpdateSizes <- AnySize
SPECIFICATION Spec
INVARIANTS
    TypeOK
    DigestIsReference
    BlockSinkAsserts
    WindowInv
    SinkInv
PROPERTIES
    UpdateReturns
    ImplementsStream
