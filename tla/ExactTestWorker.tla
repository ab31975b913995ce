---------------------------- MODULE ExactTestWorker ----------------------------
(***************************************************************************)
(* The work units of t/exact_test_sampler.py: actual_data_results, which   *)
(* computes the statistics of the data once, and                           *)
(* _resampled_data_results_1, which computes them over and over on         *)
(* shuffled data.  Statistics that shuffle alike share the shuffled array, *)
(* and those that also add the same offsets share the sorted one; the C    *)
(* functions work in place, on copies (`obs`).                             *)
(*                                                                         *)
(* Probabilities and quantiles are in percent.  A division by the size of  *)
(* a class is left to the reader of a result.                              *)
(***************************************************************************)
EXTENDS ExactTestSort

CONSTANTS
    Samples,  \* [a_class, b_class]: sequences of values below 2^63
    Plans     \* sets of statistics, as make_statistic returns them

ASSUME WorkerAssumption ==
    /\ \A s \in Samples : s.a_class \in Seq(Nat) /\ s.b_class \in Seq(Nat)
    /\ Plans \subseteq SUBSET [name : STRING, probability_a_lower : 0 .. 100,
                               a_offset : Nat, b_offset : Nat,
                               fn : {"gt_prob", "mean", "quantile"}, arg : 0 .. 100]

VARIABLES
    data,        \* buf: the values of A and B
    statistics,  \* of the unit
    resample,    \* which of the two functions runs
    shuffled,    \* shuffled_buf
    todo,        \* the groups that compute_results has not reached
    results

vars == <<sortVars, data, statistics, resample, shuffled, todo, results>>
unitVars == <<data, statistics, resample, shuffled, todo, results>>

\* A value is <<v>>.
NaN == <<>>

\* _group_statistics_in_plan: for each probability, the offsets, and for each of
\* these, the statistics.
Grouped(stats) ==
    [p \in {s.probability_a_lower : s \in stats} |->
        LET for_p == {s \in stats : s.probability_a_lower = p}
        IN  [offsets \in {<<s.a_offset, s.b_offset>> : s \in for_p} |->
                {s \in for_p : <<s.a_offset, s.b_offset>> = offsets}]]

\* A statistic of the sorted array, by its C function.
Truncated(percent, size) == (percent * size + 99) \div 100

gt_prob == <<gt_count>>

mean_diff(truncate) ==
    LET skip == [c \in 0 .. 1 |-> Truncated(truncate, IF c = 0 THEN args.m ELSE args.n)]
        size == [c \in 0 .. 1 |-> IF c = 0 THEN args.m ELSE args.n]
        count == [c \in 0 .. 1 |-> size[c] - 2 * skip[c]]
    IN  IF truncate >= 50 \/ \E c \in 0 .. 1 : count[c] <= 0 THEN NaN
        ELSE <<(central_sum(0, skip[0], size[0]) * count[1])
                  - (central_sum(1, skip[1], size[1]) * count[0])>>

quantile_diff(q) ==
    LET rank(size) == Lowest((q * size) \div 100, size - 1)
    IN  IF q >= 100 THEN NaN
        ELSE IF args.m = 0 \/ args.n = 0 THEN <<0>>
        ELSE <<quantile_value(0, rank(args.m)) - quantile_value(1, rank(args.n))>>

Computed(stat) ==
    IF stat.fn = "gt_prob" THEN gt_prob
    ELSE IF stat.fn = "mean" THEN mean_diff(stat.arg)
    ELSE quantile_diff(stat.arg)
-----------------------------------------------------------------------------
\* actual_data_results sorts the data without offsets.
Init ==
    /\ \E s \in Samples :
        /\ args = [m |-> Len(s.a_class), n |-> Len(s.b_class), p |-> 0, a |-> 0, b |-> 0]
        /\ data = s.a_class \o s.b_class
    /\ statistics \in Plans /\ resample \in BOOLEAN
    /\ pc = IF resample THEN "next" ELSE "offset"
    /\ obs = data /\ ArraysInit
    /\ shuffled = data /\ results = <<>>
    /\ todo = IF resample THEN Grouped(statistics) ELSE <<>>

\* The next p_a_lt: exact_test_shuffle of a copy of the data.
NextGroup ==
    /\ pc = "next"
    /\ \E p \in DOMAIN todo :
        /\ args' = [args EXCEPT !.p = p]
        /\ obs' = data /\ pc' = "shuffle" /\ i' = 1
    /\ UNCHANGED <<range, arrays, unitVars>>

Shuffled ==
    /\ pc = "shuffled"
    /\ shuffled' = obs /\ i' = 1 /\ pc' = "offsets"
    /\ UNCHANGED <<args, obs, range, arrays, data, statistics, resample, todo, results>>

\* Mistake: the values that the last offsets sorted are not copied over.
Unsorted_Kept == IF \E s \in DOMAIN results : s.probability_a_lower = args.p
                 THEN [k \in 1 .. num |-> obs[k] \div 2] ELSE shuffled

Unsorted == shuffled

\* The next offsets: exact_test_offset_sort of a copy of the shuffled data.
NextOffsets ==
    /\ pc = "offsets"
    /\ \E offsets \in DOMAIN todo[args.p] :
        args' = [args EXCEPT !.a = offsets[1], !.b = offsets[2]]
    /\ obs' = Unsorted /\ pc' = "offset"
    /\ UNCHANGED <<i, range, arrays, unitVars>>

\* The statistics of the group, of the sorted array.
Compute ==
    LET offsets == <<args.a, args.b>>
        group == IF resample THEN todo[args.p][offsets] ELSE statistics
        left == IF resample THEN Restrict(todo[args.p], DOMAIN todo[args.p] \ {offsets}) ELSE <<>>
        groups == Restrict(todo, DOMAIN todo \ {args.p})
    IN  /\ pc = "sorted"
        /\ results' = [s \in DOMAIN results \cup group |->
                        IF s \in group THEN Computed(s) ELSE results[s]]
        /\ IF left # <<>>
           THEN todo' = [todo EXCEPT ![args.p] = left] /\ pc' = "offsets"
           ELSE todo' = groups /\ pc' = IF groups = <<>> THEN "done" ELSE "next"
        /\ UNCHANGED <<args, obs, i, range, arrays, data, statistics, resample, shuffled>>

\* The generator yields its results, and starts again when it is resumed.
Yield ==
    /\ pc = "done" /\ resample
    /\ results' = <<>> /\ todo' = Grouped(statistics) /\ pc' = "next"
    /\ UNCHANGED <<args, obs, i, range, arrays, data, statistics, resample, shuffled>>

Next ==
    \/ NextGroup \/ Shuffled \/ NextOffsets \/ Compute \/ Yield
    \/ SortNext /\ UNCHANGED unitVars

Spec == Init /\ [][Next]_vars
-----------------------------------------------------------------------------
(* Properties. *)

\* Whatever was sampled, and however the dense range was narrowed, the array is
\* that of the shuffled data with its offsets, sorted: the counting sort and the
\* outliers join without losing, repeating or misplacing a value.
SortSorts ==
    pc = "sorted" =>
        /\ SameBag(obs, [k \in 1 .. num |-> Key(k, shuffled[k])])
        /\ \A k \in 1 .. num - 1 : obs[k] <= obs[k + 1]

\* What a statistic means: pairs with a value of A above one of B; the truncated
\* means; the order statistics, with A and B shifted by their offsets.
Meaning(stat, values) ==
    LET class(c) == IF c = 0 THEN 1 .. args.m ELSE args.m + 1 .. num
        shift(c) == IF ~resample THEN 0 ELSE IF c = 0 THEN stat.a_offset ELSE stat.b_offset
        value(c) == [k \in class(c) |-> values[k] + shift(c)]
        ascending(c) == SetToSortSeq(class(c), LAMBDA x, y :
            value(c)[x] < value(c)[y] \/ (value(c)[x] = value(c)[y] /\ x < y))
        ranked(c) == [r \in 1 .. Cardinality(class(c)) |-> value(c)[ascending(c)[r]]]
        a == ranked(0)
        b == ranked(1)
        central(s) == SubSeq(s, 1 + Truncated(stat.arg, Len(s)), Len(s) - Truncated(stat.arg, Len(s)))
        total(s) == FoldSeq(+, 0, s)
    IN  CASE stat.fn = "gt_prob" ->
                <<Cardinality({pair \in (DOMAIN a) \X (DOMAIN b) : a[pair[1]] > b[pair[2]]})>>
          [] stat.fn = "mean" ->
                IF central(a) = <<>> \/ central(b) = <<>> THEN NaN
                ELSE <<(total(central(a)) * Len(central(b))) - (total(central(b)) * Len(central(a)))>>
          [] stat.fn = "quantile" ->
                IF a = <<>> \/ b = <<>> THEN <<0>>
                ELSE <<a[((stat.arg * Len(a)) \div 100) + 1] - b[((stat.arg * Len(b)) \div 100) + 1]>>

\* The values are the data's, dealt out anew; with probability 0, each pair has the
\* higher in A.
DealtAnew ==
    /\ SameBag(shuffled, data)
    /\ pc = "offsets" /\ args.p = 0 =>
        \A k \in 1 .. min_count : shuffled[k] >= shuffled[Pair(k)]

\* Every statistic of the unit has a result when it yields them, however they were
\* grouped.
AllComputed == pc = "done" => DOMAIN results = statistics

\* The result of a statistic of the unit is that of the values shuffled
\* with its own probability and shifted by its own offsets, whichever statistics
\* shared its buffers and came before it ("we internally group statistics in order
\* to reuse generated data when possible", t/exact_test.py:111).
StatisticsOfClasses ==
    /\ DealtAnew /\ AllComputed
    /\ \A s \in DOMAIN results :
        ~resample \/ s.probability_a_lower = args.p => results[s] = Meaning(s, shuffled)
=============================================================================
