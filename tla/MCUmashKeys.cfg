\* 2^64 - 8 becomes 248, and 2^61 - 1 the prime 31.
CONSTANTS
    Eighth = 32
    ByteBits = 1
    Shifts <- SomeShifts
    Factors <- SomeFactors
    Rotations <- SomeRotations
    OhCount = 13
    Fills <- SomeFills
    Streams <- SomeStreams
    Keys <- SomeKeys
    Values <- BoundaryWords
    Seeds = {0, 201}
SPECIFICATION Spec
INVARIANTS
    SuccessIsUsable
    Idempotent
    WordsAreTheCallers
    HashIsReference
    HashesInField
    ShortIsReference
    ShortCollisionIsChance
