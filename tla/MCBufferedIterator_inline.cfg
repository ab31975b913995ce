\* One and two streams with inline evaluation; with one, __exit__ may wait.
CONSTANTS
    MaxIterators = 2
    BUFFER_SIZE = 1
    Items = 4
    Uses <- InlineUses
SPECIFICATION BufferSpec
INVARIANTS
    NothingLost
PROPERTIES
    WorkersFinish
    ExitReturns
\* Every thread may have ended.
CHECK_DEADLOCK FALSE
