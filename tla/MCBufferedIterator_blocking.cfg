\* One stream and no inline evaluation.
CONSTANTS
    MaxIterators = 1
    BUFFER_SIZE = 1
    Items = 5
    Uses <- BlockingUses
SPECIFICATION BufferSpec
PROPERTIES
    ReaderWakesUp
\* Every thread may have ended.
CHECK_DEADLOCK FALSE
