\* Two threads in the main process, one forked process.
CONSTANTS
    Processes = {"main", "child"}
    Main = "main"
    Threads = {"one", "two", "worker"}
    ProcessOf <- OfThreads
    Seeds = {0, 1, 2}
    FirstSeed = 0
    MaxJumps = 1
    MaxGets = 1
SPECIFICATION XoshiroSpec
INVARIANTS
    NoSharedStream
\* Seeds run out, and a process forked while the lock is held waits forever.
CHECK_DEADLOCK FALSE
