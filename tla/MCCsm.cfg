\* Numbers of 9 bits, the least one 2^-20; bounds are checked after every third term.
CONSTANTS
    FracBits = 8
    Exponents = 18
    UnitBits = 20
    LIBM_ERROR_LIMIT = 4
    Terms <- Terms_8
    MaxTerms = 3
    Experiments <- TestExperiments
    NotGiven = NotGiven
    Longest = 8
    Thresholds <- ThresholdsToMost
    BETA_ICDF_EPS <- OneIn32
    BETA_ICDF_GOAL <- OneIn8
    CheckPeriod = 3
    CloseLimit = 4
    FarLimit = 6
    BoundTrials = 4
    Tests <- SoloTests
    Powers <- PowerTests
SPECIFICATION CsmSpec
INVARIANTS SumIsAbove StopIsJustified TrialsInBounds BoundsAreConservative
PROPERTY BisectionEnds
CHECK_DEADLOCK FALSE
