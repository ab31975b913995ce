\* Two statistics, tested after the first value of the second batch; two samplers.
CONSTANTS
    Local = local
    Servers = {remote}
    None = None
    Files <- AllFiles
    CpuCount <- OneCpu
    MaxRunning = 2
    Statistics = {mean, q99}
    first_test_every = 3
    GrowthAfter = 1
    Growth = 3
    BatchSizes = {2}
    MaxSeen = 4
    BufferSize = 0
    MaxFlight = 2
SPECIFICATION Spec
INVARIANTS
    EveryUnresolvedIsSampled
    TrialsAreSeen
PROPERTIES
    ValuesKeepComing
    SamplersReleased
\* A run ends.
CHECK_DEADLOCK FALSE
