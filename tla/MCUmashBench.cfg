\* Lists of three lengths in blocks of two: the last block is short.
CONSTANTS
    Processes = {bench, notebook}
    Bench = bench
    Trace <- SomeTrace
    None = None
    Extensions = {".bz2", ""}
    Versions = {wip, head}
    LengthLimits = {3}
    LengthMins = {2, 9}
    LengthFixups <- Fixups
    SizeLimit = 1000
    block_size = 2
    min_count = 5
SPECIFICATION Spec
INVARIANTS
    ResultsArePaired
    MeasuresTheTrace
