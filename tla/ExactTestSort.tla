----------------------------- MODULE ExactTestSort -----------------------------
(***************************************************************************)
(* bench/exact_test.c: exact_test_shuffle, which reassigns observations to *)
(* the classes A and B, exact_test_offset_sort, which tags them with their *)
(* class and sorts them with a counting sort of a dense range, and the     *)
(* statistics that read the sorted array.  ExactTestWorker calls them.     *)
(*                                                                         *)
(* Draws of the generator are choices.  Arrays are counted from 1.         *)
(***************************************************************************)
EXTENDS Integers, Sequences, FiniteSets, SequencesExt, Functions

CONSTANTS
    SmallSize,     \* below this size, qsort is used (10)
    DenseShare     \* a dense range has one in DenseShare samples (10)

ASSUME SortAssumption == SmallSize \in Nat /\ DenseShare \in Nat \ {0}

VARIABLES
    args,    \* m, n, the probability that A is lower (in percent), and the offsets
    pc, obs, \* the array
    i,       \* loop index of the shuffle
    range,   \* [*min, *max] of hybrid_sort
    sample,  \* of find_dense_range, and the candidate range of indices
    lo, hi,
    counts, num_outliers

arrays == <<sample, lo, hi, counts, num_outliers>>
sortVars == <<args, pc, obs, i, range, arrays>>

num == args.m + args.n
Lowest(a, b) == IF a < b THEN a ELSE b
Highest(a, b) == IF a < b THEN b ELSE a
min_count == Lowest(args.m, args.n)
max_count == Highest(args.m, args.n)

\* How many elements of s are less than x, or are x.
Under(s, x) == Cardinality({k \in DOMAIN s : s[k] < x})
Copies(s, x) == Cardinality({k \in DOMAIN s : s[k] = x})

\* qsort: element k has fewer than k elements under it, and is one of the first k.
Sorted(s) == [k \in DOMAIN s |->
                CHOOSE x \in Range(s) : Under(s, x) < k /\ k <= Under(s, x) + Copies(s, x)]

SameBag(s, t) == \A x \in Range(s) \cup Range(t) : Copies(s, x) = Copies(t, x)
-----------------------------------------------------------------------------
ArraysInit ==
    /\ i = 1 /\ range = [min |-> 0, max |-> 0]
    /\ sample = <<>> /\ lo = 1 /\ hi = 1 /\ counts = <<>> /\ num_outliers = 0

\* The functions' locals go away with the sort.
SortReturns ==
    /\ pc' = "sorted" /\ range' = [min |-> 0, max |-> 0]
    /\ sample' = <<>> /\ lo' = 1 /\ hi' = 1 /\ counts' = <<>> /\ num_outliers' = 0

\* i + xoshiro_below(prng, total_size - i)
Picks(k) == k .. num

\* fisher_yates_shuffle, of the larger class.
Shuffle ==
    /\ pc = "shuffle" /\ i <= max_count
    /\ \E pick \in Picks(i) :
        obs' = [obs EXCEPT ![i] = obs[pick], ![pick] = obs[i]]
    /\ i' = i + 1
    /\ UNCHANGED <<args, pc, range, arrays>>

EndShuffle ==
    /\ pc = "shuffle" /\ i > max_count
    /\ i' = 1
    /\ pc' = IF args.p = 50 THEN "shuffled" ELSE "flip"
    /\ UNCHANGED <<args, obs, range, arrays>>

Pair(k) == k + max_count

\* conditional_flips: value i of A is paired with one of B.
Flip ==
    LET x_a == obs[i]
        x_b == obs[Pair(i)]
        min_x == Lowest(x_a, x_b)
        max_x == Highest(x_a, x_b)
    IN  /\ pc = "flip"
        /\ IF i > min_count
           THEN pc' = "shuffled" /\ UNCHANGED <<i, obs>>
           ELSE /\ \/ args.p > 0 /\ obs' = [obs EXCEPT ![i] = min_x, ![Pair(i)] = max_x]
                   \/ obs' = [obs EXCEPT ![i] = max_x, ![Pair(i)] = min_x]
                /\ i' = i + 1 /\ UNCHANGED pc
        /\ UNCHANGED <<args, range, arrays>>

-----------------------------------------------------------------------------
\* The class is the low bit: ties put A first.
Key(k, x) == IF k <= args.m THEN 2 * x + 2 * args.a ELSE 2 * x + 2 * args.b + 1

\* exact_test_offset_sort, and the first branches of hybrid_sort.
Offset ==
    LET tagged == [k \in 1 .. num |-> Key(k, obs[k])]
        bounds == [min |-> CHOOSE x \in Range(tagged) : \A y \in Range(tagged) : x <= y,
                   max |-> CHOOSE x \in Range(tagged) : \A y \in Range(tagged) : x >= y]
        width == bounds.max - bounds.min
    IN  /\ pc = "offset"
        /\ UNCHANGED <<args, i>>
        /\ IF num = 0 \/ width = 0 THEN obs' = tagged /\ SortReturns
           ELSE IF num < SmallSize /\ width > num THEN obs' = Sorted(tagged) /\ SortReturns
           ELSE /\ obs' = tagged /\ range' = bounds
                /\ pc' = IF width <= num THEN "count" ELSE "sample"
                /\ UNCHANGED arrays

\* 3 + sqrt(num)
sample_size == 3 + CHOOSE r \in 0 .. num : r * r <= num /\ (r + 1) * (r + 1) > num

\* The minimum, twice, and independent draws.
Sample ==
    /\ pc = "sample"
    /\ \E draw \in [3 .. sample_size -> 1 .. num] :
        sample' = Sorted([k \in 1 .. sample_size |-> IF k <= 2 THEN range.min ELSE obs[draw[k]]])
    /\ lo' = 1 /\ hi' = sample_size /\ pc' = "narrow"
    /\ UNCHANGED <<args, obs, i, range, counts, num_outliers>>

TooWide == sample[hi] - sample[lo] > num

\* The widest gap is left out of the range, which is dropped if it holds few
\* samples.
Narrow ==
    LET gap_lo == sample[lo + 1] - sample[lo]
        gap_hi == sample[hi] - sample[hi - 1]
    IN  /\ pc = "narrow"
        /\ IF TooWide
           THEN /\ IF gap_lo > gap_hi THEN lo' = lo + 1 /\ UNCHANGED hi
                   ELSE hi' = hi - 1 /\ UNCHANGED lo
                /\ UNCHANGED <<pc, range>>
           ELSE /\ range' = IF hi - lo >= sample_size \div DenseShare
                            THEN [min |-> sample[lo], max |-> sample[hi]]
                            ELSE [min |-> 1, max |-> 0]
                /\ pc' = "count" /\ UNCHANGED <<lo, hi>>
        /\ UNCHANGED <<args, obs, i, sample, counts, num_outliers>>

\* Mistake: value - min_dense is compared as a signed number.
Dense_Signed(x) == x - range.min <= range.max - range.min

Dense(x) == range.min <= x /\ x <= range.max

Outliers == {k \in 1 .. num : ~Dense(obs[k])}

\* Member k of a set of indices, in ascending order.
Nth(S, k) == CHOOSE j \in S : Cardinality({l \in S : l <= j}) = k

\* compress_count_sort: outliers slide to the front, over what was there.
Count ==
    /\ pc = "count"
    /\ counts' = [v \in range.min .. range.max |->
                    Cardinality({k \in (1 .. num) \ Outliers : obs[k] = v})]
    /\ num_outliers' = Cardinality(Outliers)
    /\ obs' = [k \in 1 .. num |-> IF k <= Cardinality(Outliers) THEN obs[Nth(Outliers, k)] ELSE obs[k]]
    /\ pc' = "merge"
    /\ UNCHANGED <<args, i, range, sample, lo, hi>>

\* Outliers that stay in front: no sorted[i] > min_dense among them.
Below(x) == x <= range.min

\* How many values up to v the counts stand for, and value j of these.
Counted(v) ==
    Cardinality({copy \in (range.min .. v) \X (1 .. num) : copy[2] <= counts[copy[1]]})
Splat(j) == CHOOSE v \in range.min .. range.max : Counted(v - 1) < j /\ j <= Counted(v)

\* qsort of the outliers, and merge_counts_into_outliers.
Merge ==
    LET sorted == Sorted([k \in 1 .. num_outliers |-> obs[k]])
        head == Cardinality({k \in 1 .. num_outliers : Below(sorted[k])})
        dense == Counted(range.max)
    IN  /\ pc = "merge"
        /\ obs' = IF num_outliers = num THEN sorted
                  ELSE [k \in 1 .. num_outliers + dense |->
                          IF k <= head THEN sorted[k]
                          ELSE IF k <= head + dense THEN Splat(k - head)
                          ELSE sorted[k - dense]]
        /\ SortReturns
        /\ UNCHANGED <<args, i>>

SortNext ==
    \/ Shuffle \/ EndShuffle \/ Flip
    \/ Offset \/ Sample \/ Narrow \/ Count \/ Merge

-----------------------------------------------------------------------------
(* The statistics. *)

Class(x) == x % 2

\* acc of exact_test_gt_prob: each A adds the Bs before it.
gt_count ==
    LET f[k \in 0 .. num] ==
            IF k = 0 THEN [acc |-> 0, b |-> 0]
            ELSE IF Class(obs[k]) = 0 THEN [f[k - 1] EXCEPT !.acc = @ + f[k - 1].b]
            ELSE [f[k - 1] EXCEPT !.b = @ + 1]
    IN  f[num].acc

\* current_idx of exact_test_truncated_mean_diff, for observation k: the index of
\* the observation in its class.
Kept(k, class, skip, size) ==
    LET seen == Cardinality({j \in 1 .. k - 1 : Class(obs[j]) = class})
    IN  skip <= seen /\ seen < size - skip

\* sum[class] of exact_test_truncated_mean_diff.
central_sum(class, skip, size) ==
    FoldFunctionOnSet(+, 0, [k \in 1 .. num |-> obs[k] \div 2],
                      {k \in 1 .. num : Class(obs[k]) = class /\ Kept(k, class, skip, size)})

\* values[class] of exact_test_quantile_diff: count_down[class] reaches 0, for
\* the index `rank` of the quantile in its class.
quantile_value(class, rank) ==
    SelectSeq(obs, LAMBDA x : Class(x) = class)[rank + 1] \div 2
=============================================================================
