\* Two requests, three work units on one process, and a call that is cancelled.
CONSTANTS
    MaxRequests = 2
    MaxUnits = 3
    POOL_SIZE = 1
    HasContext = TRUE
SPECIFICATION Spec
INVARIANTS
    ArgsComplete
    ArgsPublished
    UnitsOnce
PROPERTIES
    EndsWithRequests
\* Every thread may have ended.
CHECK_DEADLOCK FALSE
