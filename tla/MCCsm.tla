-------------------------------- MODULE MCCsm --------------------------------
EXTENDS Csm

\* Some have eps / 2 just next to a level of (n + 1) c(n, s) alpha^s (1 - alpha)^(n - s).
TestExperiment(alpha_, eps_, min_, max_) ==
    [alpha |-> alpha_, eps |-> eps_, min_count |-> min_, max_count |-> max_]
Inner1 == TestExperiment(<<1, 2>>, <<6, 32>>, NotGiven, 4)
\* max_count is looked at after a trial.
None_Wanted == TestExperiment(<<1, 2>>, <<6, 32>>, NotGiven, 0)
Outer1 == TestExperiment(<<3, 4>>, <<945, 2048>>, NotGiven, NotGiven)
TestExperiments ==
    {TestExperiment(<<3, 4>>, <<6, 512>>, NotGiven, NotGiven),
     TestExperiment(<<3, 4>>, <<945, 2048>>, 2, 4),
     TestExperiment(<<1, 2>>, <<6, 32>>, 4, 4),
     Inner1, Outer1, None_Wanted}

SoloTests == TestExperiments \ {Inner1, Outer1}
PowerTests == [inner : {Inner1}, outer : {Outer1}, below : BOOLEAN, draws : SUBSET BOOLEAN \ {{}}]

Floats_8 == {0, 1, 3, 255, 257, 300, 511, 513, 700}
Terms_8 == Floats_8 \cup {float - SignBit : float \in Floats_8 \ {0}}

\* Every fourth float between 0.025 and 0.05.
ThresholdsToMost == {float \in Ratio(1, 40) .. Ratio(1, 20) : (Ratio(1, 20) - float) % 4 = 2}
OneIn32 == Ratio(1, 32)
OneIn8 == Ratio(1, 8)
=============================================================================
