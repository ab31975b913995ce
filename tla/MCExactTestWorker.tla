--------------------------- MODULE MCExactTestWorker ---------------------------
(* Values for the constants of ExactTestWorker. *)
EXTENDS ExactTestWorker

Of(m, n, values) ==
    {[a_class |-> a, b_class |-> b] : a \in [1 .. m -> values], b \in [1 .. n -> values]}

\* Three of each class, for the truncated mean; then every split with ties.
SomeSamples ==
    Of(3, 3, {0, 4}) \cup Of(2, 2, {0, 1, 4}) \cup Of(1, 2, {0, 1, 4})
        \cup Of(2, 1, {0, 1, 4}) \cup Of(1, 1, {0, 1, 4}) \cup Of(1, 0, {0, 1})

Statistic(name, p, a, fn, arg) ==
    [name |-> name, probability_a_lower |-> p, a_offset |-> a, b_offset |-> 0, fn |-> fn, arg |-> arg]

\* Statistics that share the shuffled array, the sorted array, or nothing.
SomePlans == {
    {Statistic("gt", 50, 0, "gt_prob", 0), Statistic("mean", 50, 0, "mean", 20),
     Statistic("gt_sa", 50, 1, "gt_prob", 0)},
    {Statistic("median", 0, 0, "quantile", 50), Statistic("q0", 30, 1, "quantile", 0)}}
=============================================================================
