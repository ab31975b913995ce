\* Up to six observations; a range of as many keys as observations is dense.
CONSTANTS
    Samples <- SomeSamples
    Plans <- SomePlans
    SmallSize = 3
    DenseShare = 2
SPECIFICATION Spec
INVARIANTS
    SortSorts
    StatisticsOfClasses
\* actual_data_results returns.
CHECK_DEADLOCK FALSE
