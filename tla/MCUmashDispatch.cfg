\* Two threads, every answer of CPUID and XGETBV.
CONSTANTS
    Threads = {t1, t2}
SPECIFICATION DispatchSpec
INVARIANTS
    RunsSupported
PROPERTIES
    CallReturns
