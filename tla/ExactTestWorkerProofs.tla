------------------------ MODULE ExactTestWorkerProofs ------------------------
(***************************************************************************)
(* A work unit sorts and deals out its data exactly, for samples of any    *)
(* size, and no substream of the generators is read twice, by any number   *)
(* of processes and threads.                                               *)
(*                                                                         *)
(* Sorting is proved by ranks: x is element k of the sorted array when     *)
(* fewer than k elements are under x, and k at least are under x + 1.      *)
(* qsort gives each place its rank; the counting sort splits the ranks     *)
(* into outliers under the dense range, what is counted and outliers above *)
(* it; and an array with the ranks of another is the same bag, ascending.  *)
(***************************************************************************)
EXTENDS ExactTestWorker, Xoshiro, FiniteSetTheorems, SequenceTheorems, WellFoundedInduction,
        TLAPS

-----------------------------------------------------------------------------
(* Numbers and sets of indices. *)

\* A set of natural numbers has a least member.
LEMMA LeastMember ==
    ASSUME NEW S \in SUBSET Nat, S # {}
    PROVE  \E x \in S : \A y \in S : x <= y
  <1> DEFINE Less == {pair \in Nat \X Nat : pair[1] < pair[2]}
  <1>1. IsWellFoundedOn(Less, Nat)
    <2>1. OpToRel(<, Nat) = Less
      BY Zenon DEF OpToRel
    <2> QED BY <2>1, NatLessThanWellFounded, Zenon
  <1> HIDE DEF Less
  <1>2. PICK x \in S : \A y \in S : <<y, x>> \notin Less
    BY <1>1, WFMin
  <1>3. \A y \in S : ~(y < x)
    BY <1>2 DEF Less
  <1> QED BY <1>3

\* The natural numbers are in every set that has 0 and the successors of its own.
LEMMA SetOfNaturals ==
    ASSUME NEW S, 0 \in S, \A n \in Nat : n \in S => n + 1 \in S
    PROVE  \A n \in Nat : n \in S
  <1> DEFINE Missing == Nat \ S
  <1> SUFFICES ASSUME Missing # {}
               PROVE  FALSE
    OBVIOUS
  <1>1. PICK n \in Missing : \A k \in Missing : n <= k
    <2>1. Missing \in SUBSET Nat
      OBVIOUS
    <2> HIDE DEF Missing
    <2> QED BY <2>1, LeastMember
  <1>2. n \in Nat /\ n # 0
    OBVIOUS
  <1>3. n - 1 \in Nat /\ (n - 1) + 1 = n /\ ~(n <= n - 1)
    BY <1>2
  <1> QED BY <1>1, <1>3

\* Sets of indices are counted.
LEMMA Indices ==
    ASSUME NEW n \in Nat, NEW S \in SUBSET (1 .. n)
    PROVE  IsFiniteSet(S) /\ Cardinality(S) \in 0 .. n
  <1>1. IsFiniteSet(1 .. n) /\ Cardinality(1 .. n) = n
    BY FS_Interval
  <1>2. IsFiniteSet(S) /\ Cardinality(S) <= n
    BY <1>1, FS_Subset
  <1>3. Cardinality(S) \in Nat
    BY <1>2, FS_CardinalityType
  <1> QED BY <1>2, <1>3

LEMMA FewerIndices ==
    ASSUME NEW n \in Nat, NEW T \in SUBSET (1 .. n), NEW S \in SUBSET T
    PROVE  /\ Cardinality(S) <= Cardinality(T)
           /\ Cardinality(S) = Cardinality(T) => S = T
  BY Indices, FS_Subset

LEMMA DisjointIndices ==
    ASSUME NEW n \in Nat, NEW S \in SUBSET (1 .. n), NEW T \in SUBSET (1 .. n), S \cap T = {}
    PROVE  Cardinality(S \cup T) = Cardinality(S) + Cardinality(T)
  <1>1. IsFiniteSet(S) /\ IsFiniteSet(T) /\ Cardinality(S) \in Nat /\ Cardinality(T) \in Nat
    BY Indices
  <1>2. Cardinality(S \cup T) = Cardinality(S) + Cardinality(T) - Cardinality(S \cap T)
    BY <1>1, FS_Union
  <1>3. Cardinality(S \cap T) = 0
    BY FS_EmptySet
  <1> QED BY <1>1, <1>2, <1>3

\* An interval has the length of its ends.
LEMMA IntervalSize ==
    ASSUME NEW l \in Nat, NEW c \in Nat
    PROVE  Cardinality(l + 1 .. l + c) = c
  <1>1. Cardinality(l + 1 .. l + c) = IF l + 1 > l + c THEN 0 ELSE (l + c) - (l + 1) + 1
    BY FS_Interval
  <1> QED BY <1>1

-----------------------------------------------------------------------------
(* Sorted arrays. *)

Array(n) == [1 .. n -> Nat]

\* x is element k of the sorted s.
AtRank(s, k, x) == x \in Nat /\ Under(s, x) < k /\ k <= Under(s, x + 1)

LEMMA UnderIs ==
    ASSUME NEW n \in Nat, NEW s \in Array(n), NEW x \in Int
    PROVE  /\ Under(s, x) \in 0 .. n /\ Copies(s, x) \in 0 .. n
           /\ Under(s, x + 1) = Under(s, x) + Copies(s, x)
           /\ x <= 0 => Under(s, x) = 0
  <1> DEFINE U == {k \in 1 .. n : s[k] < x}
             C == {k \in 1 .. n : s[k] = x}
             V == {k \in 1 .. n : s[k] < x + 1}
  <1>1. DOMAIN s = 1 .. n /\ \A k \in 1 .. n : s[k] \in Nat
    BY DEF Array
  <1>2. Under(s, x) = Cardinality(U) /\ Copies(s, x) = Cardinality(C)
        /\ Under(s, x + 1) = Cardinality(V)
    BY <1>1 DEF Under, Copies
  <1>3. U \in SUBSET (1 .. n) /\ C \in SUBSET (1 .. n) /\ U \cap C = {} /\ V = U \cup C
    BY <1>1
  <1>4. x <= 0 => U = {}
    BY <1>1
  <1> HIDE DEF U, C, V
  <1>5. Cardinality(U) \in 0 .. n /\ Cardinality(C) \in 0 .. n
    BY <1>3, Indices
  <1>6. Cardinality(V) = Cardinality(U) + Cardinality(C)
    BY <1>3, DisjointIndices
  <1> QED BY <1>2, <1>4, <1>5, <1>6, FS_EmptySet

LEMMA UnderGrows ==
    ASSUME NEW n \in Nat, NEW s \in Array(n), NEW x \in Int, NEW y \in Int, x <= y
    PROVE  Under(s, x) <= Under(s, y)
  <1> DEFINE U == {k \in 1 .. n : s[k] < x}
             V == {k \in 1 .. n : s[k] < y}
  <1>1. DOMAIN s = 1 .. n /\ \A k \in 1 .. n : s[k] \in Nat
    BY DEF Array
  <1>2. Under(s, x) = Cardinality(U) /\ Under(s, y) = Cardinality(V)
    BY <1>1 DEF Under
  <1>3. V \in SUBSET (1 .. n) /\ U \in SUBSET V
    BY <1>1
  <1> HIDE DEF U, V
  <1>4. Cardinality(U) <= Cardinality(V)
    BY <1>3, FewerIndices
  <1> QED BY <1>2, <1>4

\* An array has an upper bound, and everything is under its successor.
LEMMA ArrayIsBounded ==
    ASSUME NEW n \in Nat, NEW s \in Array(n)
    PROVE  \E m \in Nat : \A k \in 1 .. n : s[k] <= m
  <1> DEFINE S == {j \in Nat : j <= n => \E m \in Nat : \A k \in 1 .. j : s[k] <= m}
  <1>1. 0 \in S
    OBVIOUS
  <1>2. ASSUME NEW j \in Nat, j \in S PROVE j + 1 \in S
    <2> SUFFICES ASSUME j + 1 <= n PROVE \E m \in Nat : \A k \in 1 .. j + 1 : s[k] <= m
      OBVIOUS
    <2>1. PICK m \in Nat : \A k \in 1 .. j : s[k] <= m
      BY <1>2
    <2>2. s[j + 1] \in Nat /\ \A k \in 1 .. j : s[k] \in Nat
      BY DEF Array
    <2>3. CASE s[j + 1] <= m
      <3>1. \A k \in 1 .. j + 1 : s[k] <= m
        BY <2>1, <2>3
      <3> QED BY <3>1
    <2>4. CASE m < s[j + 1]
      <3>1. \A k \in 1 .. j + 1 : s[k] <= s[j + 1]
        BY <2>1, <2>2, <2>4
      <3> QED BY <2>2, <3>1
    <2> QED BY <2>2, <2>3, <2>4
  <1>3. \A j \in Nat : j \in S
    <2> HIDE DEF S
    <2> QED BY <1>1, <1>2, SetOfNaturals
  <1>4. n \in S
    <2> HIDE DEF S
    <2> QED BY <1>3
  <1> QED BY <1>4

LEMMA RankExists ==
    ASSUME NEW n \in Nat, NEW s \in Array(n), NEW k \in 1 .. n
    PROVE  \E x \in Range(s) : AtRank(s, k, x)
  <1> DEFINE S == {y \in Nat : k <= Under(s, y + 1)}
  <1>1. PICK top \in Nat : \A j \in 1 .. n : s[j] <= top
    BY ArrayIsBounded
  <1>2. Under(s, top + 1) = n
    <2>1. DOMAIN s = 1 .. n /\ \A j \in 1 .. n : s[j] \in Nat
      BY DEF Array
    <2>2. {j \in DOMAIN s : s[j] < top + 1} = 1 .. n
      BY <1>1, <2>1
    <2>3. Cardinality(1 .. n) = n
      BY FS_Interval
    <2> QED BY <2>2, <2>3 DEF Under
  <1>3. top \in S /\ S \in SUBSET Nat
    BY <1>2
  <1> HIDE DEF S
  <1>4. PICK x \in S : \A y \in S : x <= y
    BY <1>3, LeastMember
  <1> USE DEF S
  <1>5. x \in Nat /\ k <= Under(s, x + 1)
    OBVIOUS
  <1>6. Under(s, x) \in Nat /\ Under(s, x) < k
    <2>1. Under(s, x) \in 0 .. n /\ (x <= 0 => Under(s, x) = 0)
      BY <1>5, UnderIs
    <2>2. CASE x = 0
      BY <2>1, <2>2
    <2>3. CASE x # 0
      <3>1. x - 1 \in Nat /\ (x - 1) + 1 = x /\ ~(x <= x - 1)
        BY <1>5, <2>3
      <3>2. x - 1 \notin S
        BY <1>4, <3>1
      <3>3. ~(k <= Under(s, x))
        BY <3>1, <3>2
      <3> QED BY <2>1, <3>3
    <2> QED BY <2>2, <2>3
  <1>7. Under(s, x + 1) = Under(s, x) + Copies(s, x) /\ Copies(s, x) \in Nat
    BY <1>5, UnderIs
  <1>8. Copies(s, x) # 0
    BY <1>5, <1>6, <1>7
  <1>9. {j \in DOMAIN s : s[j] = x} # {}
    BY <1>8, FS_EmptySet DEF Copies
  <1> QED BY <1>5, <1>6, <1>9 DEF AtRank, Range

\* qsort
LEMMA SortedIs ==
    ASSUME NEW n \in Nat, NEW s \in Array(n)
    PROVE  Sorted(s) \in Array(n) /\ \A k \in 1 .. n : AtRank(s, k, Sorted(s)[k])
  <1>1. DOMAIN s = 1 .. n /\ Range(s) \subseteq Nat
    BY DEF Array, Range
  <1>2. ASSUME NEW k \in 1 .. n
        PROVE  Sorted(s)[k] \in Nat /\ AtRank(s, k, Sorted(s)[k])
    <2> DEFINE Fits(x) == Under(s, x) < k /\ k <= Under(s, x) + Copies(s, x)
    <2>1. PICK x \in Range(s) : AtRank(s, k, x)
      BY RankExists
    <2>2. x \in Nat /\ Fits(x)
      BY <1>1, <2>1, UnderIs DEF AtRank
    <2>3. Sorted(s)[k] = CHOOSE y \in Range(s) : Fits(y)
      BY <1>1 DEF Sorted
    <2>4. PICK y \in Nat : y = Sorted(s)[k] /\ Fits(y)
      <3> HIDE DEF Fits
      <3>1. (CHOOSE y \in Range(s) : Fits(y)) \in Range(s) /\ Fits(CHOOSE y \in Range(s) : Fits(y))
        BY <2>1, <2>2
      <3> QED BY <1>1, <2>3, <3>1
    <2>5. Under(s, y + 1) = Under(s, y) + Copies(s, y)
      BY UnderIs
    <2> QED BY <2>4, <2>5 DEF AtRank
  <1> QED BY <1>1, <1>2 DEF Sorted, Array

\* An element of some rank is the only one.
LEMMA RankIsUnique ==
    ASSUME NEW n \in Nat, NEW s \in Array(n), NEW k \in 1 .. n, NEW l \in 1 .. n, k <= l,
           NEW x, AtRank(s, k, x), NEW y, AtRank(s, l, y)
    PROVE  x <= y
  <1>1. x \in Nat /\ y \in Nat
    BY DEF AtRank
  <1> SUFFICES ASSUME y + 1 <= x PROVE FALSE
    BY <1>1
  <1>2. Under(s, y + 1) <= Under(s, x)
    BY <1>1, UnderGrows
  <1>3. Under(s, y + 1) \in Nat /\ Under(s, x) \in Nat
    BY <1>1, UnderIs
  <1> QED BY <1>2, <1>3 DEF AtRank

\* What has the ranks of s in order is s, sorted.
LEMMA RanksSort ==
    ASSUME NEW n \in Nat, NEW s \in Array(n), NEW t \in Array(n),
           \A k \in 1 .. n : AtRank(s, k, t[k])
    PROVE  SameBag(t, s) /\ \A k \in 1 .. n - 1 : t[k] <= t[k + 1]
  <1>1. \A k \in 1 .. n - 1 : t[k] <= t[k + 1]
    <2> TAKE k \in 1 .. n - 1
    <2>1. k \in 1 .. n /\ k + 1 \in 1 .. n /\ k <= k + 1
      OBVIOUS
    <2> QED BY <2>1, RankIsUnique
  <1>2. ASSUME NEW x \in Nat PROVE Copies(t, x) = Copies(s, x)
    <2>1. PICK l \in Nat, c \in Nat : /\ l = Under(s, x) /\ c = Copies(s, x)
                                      /\ Under(s, x + 1) = l + c /\ l + c <= n
      <3>1. Under(s, x) \in 0 .. n /\ Copies(s, x) \in 0 .. n
            /\ Under(s, x + 1) = Under(s, x) + Copies(s, x)
        BY UnderIs
      <3>2. Under(s, x + 1) \in 0 .. n
        BY UnderIs
      <3> QED BY <3>1, <3>2
    <2>2. ASSUME NEW k \in 1 .. n PROVE t[k] = x <=> k \in l + 1 .. l + c
      <3>1. t[k] = x => k \in l + 1 .. l + c
        BY <2>1 DEF AtRank
      <3>2. ASSUME k \in l + 1 .. l + c PROVE t[k] = x
        <4>1. AtRank(s, k, x) /\ AtRank(s, k, t[k])
          BY <2>1, <3>2 DEF AtRank
        <4>2. k <= k /\ t[k] \in Nat
          BY <4>1 DEF AtRank
        <4>3. t[k] <= x /\ x <= t[k]
          BY <4>1, <4>2, RankIsUnique
        <4> QED BY <4>2, <4>3
      <3> QED BY <3>1, <3>2
    <2>3. {k \in DOMAIN t : t[k] = x} = l + 1 .. l + c
      <3>1. DOMAIN t = 1 .. n
        BY DEF Array
      <3>2. l + 1 .. l + c \subseteq 1 .. n
        BY <2>1
      <3> QED BY <2>2, <3>1, <3>2
    <2>4. Cardinality(l + 1 .. l + c) = c
      BY IntervalSize
    <2> QED BY <2>1, <2>3, <2>4 DEF Copies
  <1>3. Range(s) \subseteq Nat /\ Range(t) \subseteq Nat
    BY DEF Range, Array
  <1> QED BY <1>1, <1>2, <1>3 DEF SameBag

-----------------------------------------------------------------------------
(* Indices in order. *)

LEMMA NthIs ==
    ASSUME NEW n \in Nat, NEW S \in SUBSET (1 .. n), NEW k \in 1 .. Cardinality(S)
    PROVE  Nth(S, k) \in S /\ Cardinality({l \in S : l <= Nth(S, k)}) = k
  <1> DEFINE Upto(j) == {l \in S : l <= j}
             Reached == {j \in Nat : k <= Cardinality(Upto(j))}
  <1>1. \A j : Upto(j) \in SUBSET (1 .. n) /\ Upto(j) \in SUBSET S
    OBVIOUS
  <1>2. \A l \in S : l \in Nat /\ 1 <= l /\ l <= n
    OBVIOUS
  <1>3. Upto(n) = S /\ Upto(0) = {}
    <2>1. \A l \in S : l <= n /\ ~(l <= 0)
      BY <1>2
    <2> QED BY <2>1
  <1>4. \A j \in Nat : \A l \in S : l <= j + 1 <=> l <= j \/ l = j + 1
    BY <1>2
  <1>5. \A j \in Nat : j + 1 \in S => Upto(j + 1) = Upto(j) \cup {j + 1} /\ j + 1 \notin Upto(j)
    <2> TAKE j \in Nat
    <2> HAVE j + 1 \in S
    <2>1. ~(j + 1 <= j)
      OBVIOUS
    <2> QED BY <1>4, <2>1
  <1>6. \A j \in Nat : j + 1 \notin S => Upto(j + 1) = Upto(j)
    BY <1>4
  <1> HIDE DEF Upto
  <1>7. \A j : IsFiniteSet(Upto(j)) /\ Cardinality(Upto(j)) \in Nat
    <2> TAKE j
    <2>1. Upto(j) \in SUBSET (1 .. n)
      BY <1>1
    <2> QED BY <2>1, Indices
  <1>8. Reached \in SUBSET Nat /\ n \in Reached
    BY <1>3, <1>7
  <1> HIDE DEF Reached
  <1>9. PICK j \in Reached : \A l \in Reached : j <= l
    BY <1>8, LeastMember
  <1>10. j \in Nat /\ k <= Cardinality(Upto(j))
    BY DEF Reached
  <1>11. j # 0
    BY <1>3, <1>10, FS_EmptySet
  <1>12. PICK l \in Nat : j = l + 1
    <2>1. j - 1 \in Nat /\ j = (j - 1) + 1
      BY <1>10, <1>11
    <2> QED BY <2>1
  <1>13. Cardinality(Upto(l)) < k
    <2>1. l \notin Reached
      <3>1. ~(l + 1 <= l)
        OBVIOUS
      <3> QED BY <1>9, <1>12, <3>1
    <2>2. ~(k <= Cardinality(Upto(l)))
      BY <2>1 DEF Reached
    <2> QED BY <1>7, <2>2
  <1>14. j \in S
    BY <1>6, <1>7, <1>10, <1>12, <1>13
  <1>15. Cardinality(Upto(j)) = Cardinality(Upto(l)) + 1
    <2>1. Upto(j) = Upto(l) \cup {j} /\ j \notin Upto(l) /\ IsFiniteSet(Upto(l))
      BY <1>5, <1>7, <1>12, <1>14
    <2> QED BY <2>1, FS_AddElement
  <1>16. Cardinality(Upto(j)) = k
    <2>1. Cardinality(Upto(l)) \in Nat
      BY <1>7
    <2> QED BY <1>10, <1>13, <1>15, <2>1
  <1> QED BY <1>14, <1>16 DEF Nth, Upto

\* Every member has its place.
LEMMA NthIsBijection ==
    ASSUME NEW n \in Nat, NEW S \in SUBSET (1 .. n), NEW T \in SUBSET S
    PROVE  Cardinality({k \in 1 .. Cardinality(S) : Nth(S, k) \in T}) = Cardinality(T)
  <1> DEFINE c == Cardinality(S)
             f == [k \in 1 .. c |-> Nth(S, k)]
             K == {k \in 1 .. c : Nth(S, k) \in T}
             g == [k \in K |-> Nth(S, k)]
  <1>1. c \in Nat /\ IsFiniteSet(S)
    BY Indices
  <1>2. \A k \in 1 .. c : Nth(S, k) \in S
    BY NthIs
  <1>3. \A k, l \in 1 .. c : Nth(S, k) = Nth(S, l) => k = l
    <2> TAKE k, l \in 1 .. c
    <2> HAVE Nth(S, k) = Nth(S, l)
    <2>1. k = Cardinality({j \in S : j <= Nth(S, k)}) /\ l = Cardinality({j \in S : j <= Nth(S, l)})
      BY NthIs
    <2> QED BY <2>1
  <1>4. f \in Injection(1 .. c, S)
    BY <1>2, <1>3 DEF Injection, IsInjective
  <1>5. \A j \in S : \E k \in 1 .. c : Nth(S, k) = j
    <2>1. IsFiniteSet(1 .. c) /\ Cardinality(1 .. c) = c
      <3> HIDE DEF c
      <3> QED BY <1>1, FS_Interval
    <2>2. f \in Surjection(1 .. c, S)
      <3> HIDE DEF f
      <3> QED BY <1>1, <1>4, <2>1, FS_Injection
    <2> QED BY <2>2 DEF Surjection
  <1>6. g \in Bijection(K, T)
    <2>1. g \in [K -> T] /\ \A k \in K : g[k] = Nth(S, k)
      OBVIOUS
    <2>2. \A k, l \in K : g[k] = g[l] => k = l
      BY <1>3
    <2>3. \A j \in T : \E k \in K : g[k] = j
      BY <1>5
    <2> HIDE DEF g, K
    <2> QED BY <2>1, <2>2, <2>3 DEF Bijection, Injection, Surjection, IsInjective
  <1>7. K \in SUBSET (1 .. c)
    OBVIOUS
  <1> HIDE DEF K, g
  <1>8. IsFiniteSet(K)
    <2> HIDE DEF c
    <2> QED BY <1>1, <1>7, Indices
  <1>9. Cardinality(T) = Cardinality(K)
    BY <1>6, <1>8, FS_Bijection DEF ExistsBijection
  <1> QED BY <1>9 DEF K

-----------------------------------------------------------------------------
(* The invariant. *)

\* What is sorted.
Tagged == [k \in 1 .. num |-> Key(k, shuffled[k])]

\* Indices whose keys the counting sort does not count.
Others == {k \in 1 .. num : ~Dense(Tagged[k])}

OthersUnder(x) == {k \in Others : Tagged[k] < x}
RestUnder(x) == {k \in (1 .. num) \ Others : Tagged[k] < x}

TypeInv ==
    /\ args \in [m : Nat, n : Nat, p : 0 .. 100, a : Nat, b : Nat]
    /\ data \in Array(num) /\ shuffled \in Array(num) /\ obs \in Array(num)
    /\ i \in Nat \ {0} /\ resample \in BOOLEAN /\ statistics \in Plans

\* The groups left are those of a plan; the one being shuffled or sorted is one of
\* them.  The actual data has none.
TodoInv ==
    /\ \A p \in DOMAIN todo : p \in 0 .. 100 /\ DOMAIN todo[p] \subseteq Nat \X Nat
    /\ pc \notin {"next", "done"} /\ resample => args.p \in DOMAIN todo
    /\ pc \in {"shuffle", "flip", "shuffled", "offsets"} => resample
    /\ ~resample => DOMAIN todo = {}

\* Each stage of the sort has the keys; when some are counted, the array starts
\* with the others.
StageInv ==
    /\ pc = "offset" => obs = shuffled
    /\ pc \in {"sample", "narrow", "count"} => obs = Tagged
    /\ pc \in {"sample", "narrow", "count", "merge"} =>
          num # 0 /\ range.min \in Nat /\ range.max \in Nat
    /\ pc = "narrow" => /\ sample \in Array(sample_size)
                        /\ lo \in 1 .. sample_size /\ hi \in lo .. sample_size

CountInv ==
    /\ counts = [v \in range.min .. range.max |-> Copies(Tagged, v)]
    /\ num_outliers = Cardinality(Others)
    /\ \A x \in Int : Cardinality({k \in 1 .. num_outliers : obs[k] < x})
                        = Cardinality(OthersUnder(x))

\* Until they are copied, the values being dealt out are the data's, and with
\* probability 0 the pairs that are done have the higher value in A.
DealInv ==
    /\ pc \in {"shuffle", "flip", "shuffled"} => SameBag(obs, data)
    /\ SameBag(shuffled, data)
    /\ args.p = 0 /\ resample =>
        /\ pc = "flip" =>
              i <= min_count + 1 /\ \A k \in 1 .. i - 1 : obs[k] >= obs[Pair(k)]
        /\ pc = "shuffled" => \A k \in 1 .. min_count : obs[k] >= obs[Pair(k)]
        /\ pc \notin {"next", "done", "shuffle", "flip", "shuffled"} =>
              \A k \in 1 .. min_count : shuffled[k] >= shuffled[Pair(k)]

SortInv == TypeInv /\ TodoInv /\ StageInv /\ (pc = "merge" => CountInv) /\ SortSorts

LEMMA NumIs == ASSUME TypeInv PROVE num \in Nat /\ max_count \in Nat /\ min_count \in Nat
                                    /\ min_count + max_count = num
  BY DEF TypeInv, num, max_count, min_count, Highest, Lowest

LEMMA KeyIs ==
    ASSUME TypeInv, NEW k, NEW x \in Nat
    PROVE  Key(k, x) \in Nat
  BY DEF TypeInv, Key

LEMMA TaggedIs == ASSUME TypeInv PROVE Tagged \in Array(num)
  BY KeyIs DEF TypeInv, Tagged, Array

\* The ends of an array.
LEMMA EndsAre ==
    ASSUME NEW n \in Nat \ {0}, NEW s \in Array(n)
    PROVE  /\ \E x \in Range(s) : \A y \in Range(s) : x <= y
           /\ \E x \in Range(s) : \A y \in Range(s) : x >= y
  <1>1. Range(s) \in SUBSET Nat /\ s[1] \in Range(s) /\ \A k \in 1 .. n : s[k] \in Range(s)
    BY DEF Array, Range
  <1>2. \A y \in Range(s) : \E k \in 1 .. n : s[k] = y
    BY DEF Array, Range
  <1>3. \E x \in Range(s) : \A y \in Range(s) : x <= y
    BY <1>1, LeastMember
  <1> DEFINE S == {top \in Nat : \A y \in Range(s) : y <= top}
  <1>4. PICK x \in S : \A top \in S : x <= top
    <2>1. \E top \in Nat : \A k \in 1 .. n : s[k] <= top
      BY ArrayIsBounded
    <2>2. S # {} /\ S \in SUBSET Nat
      BY <1>2, <2>1
    <2> HIDE DEF S
    <2> QED BY <2>2, LeastMember
  <1>5. x \in Range(s)
    <2> SUFFICES ASSUME x \notin Range(s) PROVE FALSE
      OBVIOUS
    <2>1. x \in Nat /\ \A y \in Range(s) : y \in Nat /\ y <= x /\ y # x
      BY <1>1
    <2>2. s[1] \in Nat /\ s[1] < x
      BY <1>1, <2>1
    <2>3. x - 1 \in Nat /\ ~(x <= x - 1) /\ \A y \in Range(s) : y <= x - 1
      BY <2>1, <2>2
    <2> QED BY <1>4, <2>3
  <1>6. \A y \in Range(s) : x >= y
    BY <1>1
  <1> QED BY <1>3, <1>5, <1>6

\* The sample has a whole size, of three at least.
LEMMA SampleSizeIs == ASSUME TypeInv PROVE sample_size \in Nat /\ sample_size >= 3
  <1> PICK n \in Nat : n = num
    BY NumIs
  <1> DEFINE Root(r) == r * r <= n /\ (r + 1) * (r + 1) > n
             S == {r \in Nat : (r + 1) * (r + 1) > n}
  <1>1. \E r \in 0 .. n : Root(r)
    <2>1. n \in S
      <3>1. (n + 1) * (n + 1) = n * n + 2 * n + 1 /\ n * n \in Nat
        OBVIOUS
      <3> QED BY <3>1
    <2>2. PICK r \in S : \A q \in S : r <= q
      <3>1. S \in SUBSET Nat /\ S # {}
        BY <2>1
      <3> HIDE DEF S
      <3> QED BY <3>1, LeastMember
    <2>3. r \in 0 .. n
      BY <2>1, <2>2
    <2>4. r * r <= n
      <3>1. CASE r = 0
        BY <3>1
      <3>2. CASE r # 0
        <4>1. PICK q \in Nat : r = q + 1
          <5>1. r - 1 \in Nat /\ r = (r - 1) + 1
            BY <2>3, <3>2
          <5> QED BY <5>1
        <4>2. q \notin S
          <5>1. ~(q + 1 <= q)
            OBVIOUS
          <5> QED BY <2>2, <4>1, <5>1
        <4>3. ~((q + 1) * (q + 1) > n)
          BY <4>2
        <4> QED BY <4>1, <4>3
      <3> QED BY <3>1, <3>2
    <2> QED BY <2>3, <2>4
  <1>2. PICK r \in 0 .. n : r = CHOOSE q \in 0 .. n : Root(q)
    <2> HIDE DEF Root
    <2> QED BY <1>1
  <1>3. sample_size = 3 + r
    BY <1>2 DEF sample_size
  <1> QED BY <1>3

-----------------------------------------------------------------------------
(* The counting sort. *)

LEMMA SameTagged == ASSUME UNCHANGED <<args, shuffled>> PROVE Tagged' = Tagged /\ num' = num
  BY DEF Tagged, num, Key

\* The outliers slide to the front.
LEMMA CountCounts == ASSUME SortInv, Count, UNCHANGED unitVars PROVE CountInv'
  <1> DEFINE S == Others
             c == Cardinality(S)
  <1> PICK n \in Nat : n = num
    BY NumIs DEF SortInv
  <1>1. /\ obs = Tagged /\ Tagged \in Array(n) /\ range' = range /\ num' = num
        /\ Tagged' = Tagged /\ Others' = Others /\ range.min \in Nat /\ range.max \in Nat
    <2>1. UNCHANGED <<args, shuffled, range>>
      BY DEF Count, unitVars
    <2>2. obs = Tagged /\ range.min \in Nat /\ range.max \in Nat
      BY DEF SortInv, StageInv, Count
    <2>3. Tagged \in Array(n)
      BY TaggedIs DEF SortInv
    <2>4. Tagged' = Tagged /\ num' = num
      BY <2>1, SameTagged
    <2> QED BY <2>1, <2>2, <2>3, <2>4 DEF Others, Dense
  <1>2. Outliers = S /\ S \in SUBSET (1 .. n)
    BY <1>1 DEF Outliers, Others
  <1>3. DOMAIN Tagged = 1 .. n /\ \A k \in 1 .. n : Tagged[k] \in Nat
    BY <1>1 DEF Array
  <1>4. counts' = [v \in range.min .. range.max |-> Copies(Tagged, v)]
    <2>1. ASSUME NEW v \in range.min .. range.max
          PROVE  Cardinality({k \in (1 .. num) \ Outliers : obs[k] = v}) = Copies(Tagged, v)
      <3>1. ASSUME NEW k \in 1 .. n, Tagged[k] = v PROVE k \notin Outliers
        BY <1>1, <3>1 DEF Outliers, Dense
      <3>2. {k \in (1 .. num) \ Outliers : obs[k] = v} = {k \in DOMAIN Tagged : Tagged[k] = v}
        BY <1>1, <1>3, <3>1
      <3> QED BY <3>2 DEF Copies
    <2> QED BY <2>1 DEF Count
  <1>5. num_outliers' = c
    BY <1>2 DEF Count
  <1>6. c \in 0 .. n
    BY <1>2, Indices
  <1>7. \A k \in 1 .. c : obs'[k] = Tagged[Nth(S, k)] /\ Nth(S, k) \in S
    <2>1. \A k \in 1 .. c : Nth(S, k) \in S
      BY <1>2, NthIs
    <2>2. \A k \in 1 .. c : k \in 1 .. num /\ k <= c
      BY <1>6
    <2>3. obs' = [k \in 1 .. num |-> IF k <= c THEN Tagged[Nth(S, k)] ELSE Tagged[k]]
      BY <1>1, <1>2 DEF Count
    <2> HIDE DEF c, S
    <2> QED BY <2>1, <2>2, <2>3
  <1>8. ASSUME NEW x \in Int
        PROVE  Cardinality({k \in 1 .. c : obs'[k] < x}) = Cardinality({k \in S : Tagged[k] < x})
    <2> DEFINE T == {k \in S : Tagged[k] < x}
    <2>1. {k \in 1 .. c : obs'[k] < x} = {k \in 1 .. c : Nth(S, k) \in T}
      BY <1>7
    <2>2. T \in SUBSET S
      OBVIOUS
    <2> HIDE DEF T, S
    <2>3. Cardinality({k \in 1 .. Cardinality(S) : Nth(S, k) \in T}) = Cardinality(T)
      BY <1>2, <2>2, NthIsBijection
    <2> QED BY <2>1, <2>3 DEF T
  <1>9. \A x : OthersUnder(x)' = {k \in S : Tagged[k] < x}
    BY <1>1 DEF OthersUnder
  <1> QED BY <1>1, <1>4, <1>5, <1>8, <1>9 DEF CountInv

LEMMA CountedIsNat ==
    ASSUME SortInv, range.min \in Nat, NEW v \in Int
    PROVE  Counted(v) \in Nat
  <1> PICK n \in Nat : n = num
    BY NumIs DEF SortInv
  <1> DEFINE Q == (range.min .. v) \X (1 .. n)
             copies == {copy \in Q : copy[2] <= counts[copy[1]]}
  <1>1. IsFiniteSet(range.min .. v) /\ IsFiniteSet(1 .. n)
    <2>1. range.min \in Int /\ 1 \in Int /\ n \in Int
      OBVIOUS
    <2> QED BY <2>1, FS_Interval
  <1>2. IsFiniteSet(Q)
    BY <1>1, FS_Product
  <1>3. Counted(v) = Cardinality(copies)
    BY DEF Counted
  <1>4. copies \in SUBSET Q
    OBVIOUS
  <1> HIDE DEF Q, copies
  <1> QED BY <1>2, <1>3, <1>4, FS_Subset, FS_CardinalityType

\* The keys up to v that are counted, and how many of them are less than v.
LEMMA CountedIs ==
    ASSUME SortInv, CountInv, range.min \in Nat, range.max \in Nat,
           NEW l \in Nat, range.min + l <= range.max + 1
    PROVE  Counted(range.min + l - 1) + Under(Tagged, range.min) = Under(Tagged, range.min + l)
  <1> PICK n \in Nat : n = num
    BY NumIs DEF SortInv
  <1> PICK min \in Nat, max \in Nat : min = range.min /\ max = range.max
    OBVIOUS
  <1> DEFINE P(v) == {copy \in (min .. v) \X (1 .. n) : copy[2] <= counts[copy[1]]}
             S == {j \in Nat : min + j <= max + 1 =>
                        Counted(min + j - 1) + Under(Tagged, min) = Under(Tagged, min + j)}
  <1>1. Tagged \in Array(n)
    BY TaggedIs DEF SortInv
  <1>2. \A v \in Int : Counted(v) = Cardinality(P(v))
    BY DEF Counted
  <1>3. \A v \in min .. max : counts[v] = Copies(Tagged, v)
    BY DEF CountInv
  <1>4. 0 \in S
    <2>1. P(min - 1) = {}
      OBVIOUS
    <2>2. Counted(min - 1) = 0
      BY <1>2, <2>1, FS_EmptySet
    <2>3. Under(Tagged, min) \in Nat
      BY <1>1, UnderIs
    <2>4. min + 0 = min
      OBVIOUS
    <2> QED BY <2>2, <2>3, <2>4
  <1>5. ASSUME NEW j \in Nat, j \in S PROVE j + 1 \in S
    <2> SUFFICES ASSUME min + (j + 1) <= max + 1
                 PROVE  Counted(min + (j + 1) - 1) + Under(Tagged, min)
                          = Under(Tagged, min + (j + 1))
      OBVIOUS
    <2> PICK v \in min .. max : v = min + j
      OBVIOUS
    <2>1. v \in Nat /\ min + (j + 1) - 1 = v /\ min + (j + 1) = v + 1 /\ min + j - 1 = v - 1
      OBVIOUS
    <2>2. Counted(v - 1) + Under(Tagged, min) = Under(Tagged, v)
      BY <1>5, <2>1
    <2> PICK c \in 0 .. n : c = Copies(Tagged, v)
      BY <1>1, <2>1, UnderIs
    <2>3. Under(Tagged, v + 1) = Under(Tagged, v) + c
      BY <1>1, <2>1, UnderIs
    <2>4. P(v) = P(v - 1) \cup ({v} \X (1 .. c)) /\ P(v - 1) \cap ({v} \X (1 .. c)) = {}
      <3>1. ASSUME NEW u, NEW k
            PROVE  <<u, k>> \in P(v) <=> <<u, k>> \in P(v - 1) \/ <<u, k>> \in {v} \X (1 .. c)
        <4>1. <<u, k>> \in P(v) <=> u \in min .. v /\ k \in 1 .. n /\ k <= counts[u]
          OBVIOUS
        <4>2. <<u, k>> \in P(v - 1) <=> u \in min .. v - 1 /\ k \in 1 .. n /\ k <= counts[u]
          OBVIOUS
        <4>3. <<u, k>> \in {v} \X (1 .. c) <=> u = v /\ k \in 1 .. c
          OBVIOUS
        <4>4. u \in min .. v <=> u \in min .. v - 1 \/ u = v
          OBVIOUS
        <4>5. counts[v] = c
          BY <1>3
        <4>6. k \in 1 .. c <=> k \in 1 .. n /\ k <= c
          OBVIOUS
        <4> HIDE DEF P
        <4> QED BY <4>1, <4>2, <4>3, <4>4, <4>5, <4>6
      <3>2. ASSUME NEW u, NEW k
            PROVE  ~(<<u, k>> \in P(v - 1) /\ <<u, k>> \in {v} \X (1 .. c))
        BY <2>1
      <3>3. \A copy \in P(v) \cup P(v - 1) \cup ({v} \X (1 .. c)) : copy = <<copy[1], copy[2]>>
        OBVIOUS
      <3> HIDE DEF P
      <3> QED BY <3>1, <3>2, <3>3
    <2>5. IsFiniteSet(P(v - 1)) /\ Cardinality(P(v - 1)) \in Nat
      <3>1. IsFiniteSet(min .. v - 1) /\ IsFiniteSet(1 .. n)
        <4>1. min \in Int /\ v - 1 \in Int /\ 1 \in Int /\ n \in Int
          OBVIOUS
        <4> QED BY <4>1, FS_Interval
      <3>2. IsFiniteSet((min .. v - 1) \X (1 .. n))
        BY <3>1, FS_Product
      <3>3. P(v - 1) \in SUBSET ((min .. v - 1) \X (1 .. n))
        OBVIOUS
      <3> HIDE DEF P
      <3> QED BY <3>2, <3>3, FS_Subset, FS_CardinalityType
    <2>6. IsFiniteSet({v} \X (1 .. c)) /\ Cardinality({v} \X (1 .. c)) = c
      <3>1. IsFiniteSet(1 .. c) /\ Cardinality(1 .. c) = c
        BY FS_Interval
      <3>2. IsFiniteSet({v}) /\ Cardinality({v}) = 1
        BY FS_Singleton
      <3> DEFINE V == {v}
                 K == 1 .. c
      <3>3. IsFiniteSet(V \X K) /\ Cardinality(V \X K) = Cardinality(V) * Cardinality(K)
        <4>1. IsFiniteSet(V) /\ IsFiniteSet(K)
          BY <3>1, <3>2
        <4> HIDE DEF V, K
        <4> QED BY <4>1, FS_Product
      <3> QED BY <3>1, <3>2, <3>3
    <2>7. Cardinality(P(v)) = Cardinality(P(v - 1)) + c
      <3> HIDE DEF P
      <3>1. Cardinality(P(v - 1) \cup ({v} \X (1 .. c)))
              = Cardinality(P(v - 1)) + c - Cardinality({})
        BY <2>4, <2>5, <2>6, FS_Union
      <3> QED BY <2>4, <2>5, <3>1, FS_EmptySet
    <2>8. Counted(v) = Counted(v - 1) + c /\ Counted(v - 1) \in Nat
      BY <1>2, <2>1, <2>5, <2>7
    <2>9. Under(Tagged, min) \in Nat /\ Under(Tagged, v) \in Nat
      BY <1>1, <2>1, UnderIs
    <2> QED BY <2>1, <2>2, <2>3, <2>8, <2>9
  <1>6. \A j \in Nat : j \in S
    <2> HIDE DEF S
    <2> QED BY <1>4, <1>5, SetOfNaturals
  <1> QED BY <1>6

\* What the sorted outliers and the counts are put together from, in the ranks of
\* the keys: outliers under the range, `low` of them, what is counted, and the rest.
LEMMA RanksOfParts ==
    ASSUME SortInv, CountInv, range.min \in Nat, range.max \in Nat, range.min <= range.max,
           NEW n \in Nat, n = num, NEW out \in Nat, out = num_outliers
    PROVE  \E low \in 0 .. out, d \in Nat :
              /\ out + d = n /\ d = Counted(range.max)
              /\ Under(Tagged, range.min) = low
              /\ \A x \in Int : LET o == Cardinality({k \in 1 .. out : obs[k] < x})
                              IN  /\ o \in Nat
                                  /\ x <= range.min => Under(Tagged, x) = o
                                  /\ range.min <= x /\ x <= range.max + 1 => o = low
                                  /\ x > range.max => Under(Tagged, x) = o + d
  <1> PICK min \in Nat, max \in Nat : min = range.min /\ max = range.max /\ min <= max
    OBVIOUS
  <1> PICK Rest : Rest = (1 .. n) \ Others
    OBVIOUS
  <1>1. /\ Tagged \in Array(n) /\ DOMAIN Tagged = 1 .. n
        /\ \A k \in 1 .. n : Tagged[k] \in Nat
    <2>1. Tagged \in Array(n)
      BY TaggedIs DEF SortInv
    <2> QED BY <2>1 DEF Array
  <1>2. Others \in SUBSET (1 .. n) /\ \A k \in 1 .. n :
            k \in Others <=> Tagged[k] < min \/ Tagged[k] > max
    BY <1>1 DEF Others, Dense
  <1>3. /\ Rest \in SUBSET (1 .. n) /\ Others \cap Rest = {} /\ Others \cup Rest = 1 .. n
        /\ \A x : OthersUnder(x) \in SUBSET Others /\ RestUnder(x) \in SUBSET Rest
    BY <1>2 DEF OthersUnder, RestUnder
  <1>4. \A x \in Int : /\ x <= min => RestUnder(x) = {}
                       /\ min <= x /\ x <= max + 1 => OthersUnder(x) = OthersUnder(min)
                       /\ x > max => RestUnder(x) = Rest
    <2> TAKE x \in Int
    <2>1. \A k \in 1 .. n : 
            k \notin Others => Tagged[k] \in Nat /\ min <= Tagged[k] /\ Tagged[k] <= max
      BY <1>1, <1>2
    <2>2. \A k \in Others :
            k \in 1 .. n /\ Tagged[k] \in Nat /\ (Tagged[k] < min \/ Tagged[k] > max)
      BY <1>1, <1>2
    <2>3. x <= min => RestUnder(x) = {}
      BY <2>1 DEF RestUnder
    <2>4. x > max => RestUnder(x) = Rest
      BY <2>1 DEF RestUnder
    <2>5. ASSUME min <= x, x <= max + 1 PROVE OthersUnder(x) = OthersUnder(min)
      <3>1. \A k \in Others : Tagged[k] < x <=> Tagged[k] < min
        BY <2>2, <2>5
      <3> QED BY <3>1 DEF OthersUnder
    <2> QED BY <2>3, <2>4, <2>5
  <1>5. \A x \in Int : /\ Under(Tagged, x) = Cardinality(OthersUnder(x)) + Cardinality(RestUnder(x))
                       /\ Cardinality(OthersUnder(x)) \in Nat
    <2> TAKE x \in Int
    <2> PICK A : A = OthersUnder(x)
      OBVIOUS
    <2> PICK B : B = RestUnder(x)
      OBVIOUS
    <2>1. {k \in DOMAIN Tagged : Tagged[k] < x} = A \cup B /\ A \cap B = {}
      BY <1>1, <1>2 DEF OthersUnder, RestUnder
    <2>2. A \in SUBSET (1 .. n) /\ B \in SUBSET (1 .. n)
      BY <1>2, <1>3
    <2>3. Cardinality(A \cup B) = Cardinality(A) + Cardinality(B)
      <3>1. A \cap B = {}
        BY <2>1
      <3>2. A \in SUBSET (1 .. n) /\ B \in SUBSET (1 .. n) /\ n \in Nat
        BY <2>2
      <3> QED BY ONLY <3>1, <3>2, DisjointIndices
    <2>4. Cardinality(A) \in 0 .. n
      BY <2>2, Indices
    <2> QED BY <2>1, <2>3, <2>4 DEF Under
  <1> PICK d \in Nat : d = Cardinality(Rest)
    BY <1>3, Indices
  <1>6. out = Cardinality(Others) /\ out + d = n
    <2>1. out = Cardinality(Others)
      BY DEF CountInv
    <2>2. Cardinality(Others \cup Rest) = Cardinality(Others) + d
      BY <1>2, <1>3, DisjointIndices
    <2>3. Cardinality(1 .. n) = n
      BY FS_Interval
    <2> QED BY <1>3, <2>1, <2>2, <2>3
  <1> PICK low \in 0 .. out : low = Cardinality(OthersUnder(min))
    <2>1. OthersUnder(min) \in SUBSET Others
      BY <1>3
    <2>2. Cardinality(OthersUnder(min)) <= Cardinality(Others)
      BY <1>2, <2>1, FewerIndices
    <2>3. Cardinality(OthersUnder(min)) \in Nat
      BY <1>5
    <2> QED BY <1>6, <2>2, <2>3
  <1>7. ASSUME NEW x \in Int, NEW o, o = Cardinality({k \in 1 .. out : obs[k] < x})
        PROVE  /\ o \in Nat
               /\ x <= min => Under(Tagged, x) = o
               /\ min <= x /\ x <= max + 1 => o = low
               /\ x > max => Under(Tagged, x) = o + d
    <2>1. o = Cardinality(OthersUnder(x)) /\ o \in Nat
      BY <1>5, <1>7 DEF CountInv
    <2>2. Under(Tagged, x) = o + Cardinality(RestUnder(x))
      BY <1>5, <2>1
    <2>3. ASSUME x <= min PROVE Under(Tagged, x) = o
      <3>1. RestUnder(x) = {}
        BY <1>4, <2>3
      <3>2. Under(Tagged, x) = o + 0
        BY <2>2, <3>1, FS_EmptySet
      <3> QED BY <2>1, <3>2
    <2>4. ASSUME min <= x, x <= max + 1 PROVE o = low
      <3>1. OthersUnder(x) = OthersUnder(min)
        BY <1>4, <2>4
      <3> QED BY <2>1, <3>1
    <2>5. ASSUME x > max PROVE Under(Tagged, x) = o + d
      <3>1. RestUnder(x) = Rest
        BY <1>4, <2>5
      <3> QED BY <2>2, <3>1
    <2> QED BY <2>1, <2>3, <2>4, <2>5
  <1>8. \A x \in Int : LET o == Cardinality({k \in 1 .. out : obs[k] < x})
                      IN  /\ o \in Nat
                          /\ x <= min => Under(Tagged, x) = o
                          /\ min <= x /\ x <= max + 1 => o = low
                          /\ x > max => Under(Tagged, x) = o + d
    BY <1>7
  <1>9. Under(Tagged, min) = low /\ Under(Tagged, max + 1) = low + d
    <2>1. /\ min \in Int /\ max + 1 \in Int /\ min <= min
          /\ min <= max + 1 /\ max + 1 <= max + 1 /\ max + 1 > max
      OBVIOUS
    <2> QED BY <1>7, <2>1
  <1>10. Counted(max) = d
    <2>1. PICK l \in Nat : l = max - min + 1 /\ min + l = max + 1 /\ min + l - 1 = max
      OBVIOUS
    <2>2. Counted(max) + low = low + d
      BY <1>9, <2>1, CountedIs
    <2>3. Counted(max) \in Int
      BY CountedIsNat
    <2> QED BY <2>2, <2>3
  <1> QED BY <1>6, <1>8, <1>9, <1>10

\* What is put together is sorted.
LEMMA MergeSorts ==
    ASSUME SortInv, pc = "merge", Merge, UNCHANGED unitVars
    PROVE  obs' \in Array(num) /\ SameBag(obs', Tagged)
           /\ \A k \in 1 .. num - 1 : obs'[k] <= obs'[k + 1]
  <1> PICK n \in Nat : n = num
    BY NumIs DEF SortInv
  <1>1. CountInv /\ range.min \in Nat /\ range.max \in Nat
    BY DEF SortInv, StageInv
  <1> PICK min \in Nat, max \in Nat : min = range.min /\ max = range.max
    BY <1>1
  <1>2. Tagged \in Array(n) /\ DOMAIN Tagged = 1 .. n /\ \A k \in 1 .. n : Tagged[k] \in Nat
    <2>1. Tagged \in Array(n)
      BY TaggedIs DEF SortInv
    <2> QED BY <2>1 DEF Array
  <1>3. Others \in SUBSET (1 .. n)
    BY DEF Others
  <1> PICK out \in 0 .. n : out = num_outliers /\ out = Cardinality(Others)
    BY <1>1, <1>3, Indices DEF CountInv
  <1> DEFINE o == [k \in 1 .. out |-> obs[k]]
  <1>4. o \in Array(out) /\ DOMAIN o = 1 .. out /\ \A k \in 1 .. out : o[k] = obs[k]
    BY DEF SortInv, TypeInv, Array
  <1>5. \A x \in Int : Under(o, x) = Cardinality({k \in 1 .. out : obs[k] < x})
    <2> TAKE x \in Int
    <2>1. {k \in DOMAIN o : o[k] < x} = {k \in 1 .. out : obs[k] < x}
      BY <1>4
    <2> QED BY <2>1 DEF Under
  <1> DEFINE sorted == Sorted(o)
  <1>6. sorted \in Array(out) /\ \A k \in 1 .. out : AtRank(o, k, sorted[k])
    <2> HIDE DEF o
    <2> QED BY <1>4, SortedIs
  <1>7. \A k \in 1 .. out : sorted[k] \in Nat
    BY <1>6 DEF Array
  <1> SUFFICES obs' \in Array(n) /\ \A k \in 1 .. n : AtRank(Tagged, k, obs'[k])
    BY <1>2, RanksSort
  <1>8. CASE out = n
    <2>1. obs' = sorted
      BY <1>8 DEF Merge
    <2>2. Others = 1 .. n
      <3>1. Cardinality(1 .. n) = n /\ 1 .. n \in SUBSET (1 .. n)
        BY FS_Interval
      <3> QED BY <1>3, <1>8, <3>1, FewerIndices
    <2>3. \A x \in Int : Under(o, x) = Under(Tagged, x)
      <3> TAKE x \in Int
      <3>1. OthersUnder(x) = {k \in DOMAIN Tagged : Tagged[k] < x}
        BY <1>2, <2>2 DEF OthersUnder
      <3>2. Cardinality({k \in 1 .. out : obs[k] < x}) = Cardinality(OthersUnder(x))
        BY <1>1 DEF CountInv
      <3> QED BY <1>5, <3>1, <3>2 DEF Under
    <2>4. ASSUME NEW k \in 1 .. n PROVE AtRank(Tagged, k, obs'[k])
      <3> PICK x : x = sorted[k]
        OBVIOUS
      <3>1. AtRank(o, k, x)
        BY <1>6, <1>8
      <3>2. x \in Int /\ x + 1 \in Int
        BY <3>1 DEF AtRank
      <3>3. Under(o, x) = Under(Tagged, x) /\ Under(o, x + 1) = Under(Tagged, x + 1)
        BY <2>3, <3>2
      <3> QED BY <2>1, <3>1, <3>3 DEF AtRank
    <2> QED BY <1>6, <1>8, <2>1, <2>4
  <1>9. CASE out # n
    <2>1. min <= max
      <3>1. PICK k \in 1 .. n : k \notin Others
        <4>1. Others # 1 .. n
          <5>1. Cardinality(1 .. n) = n
            BY FS_Interval
          <5> QED BY <1>9, <5>1
        <4> QED BY <1>3, <4>1
      <3>2. Dense(Tagged[k]) /\ Tagged[k] \in Nat
        BY <1>2, <3>1 DEF Others
      <3> QED BY <3>2 DEF Dense
    <2> PICK low \in 0 .. out, d \in Nat :
              /\ out + d = n /\ d = Counted(max)
              /\ Under(Tagged, min) = low
              /\ \A x \in Int : LET u == Cardinality({k \in 1 .. out : obs[k] < x})
                              IN  /\ u \in Nat
                                  /\ x <= min => Under(Tagged, x) = u
                                  /\ min <= x /\ x <= max + 1 => u = low
                                  /\ x > max => Under(Tagged, x) = u + d
      BY <1>1, <2>1, RanksOfParts
    <2>2. ASSUME NEW x \in Int
          PROVE  /\ Under(o, x) \in Nat
                 /\ x <= min => Under(Tagged, x) = Under(o, x)
                 /\ min <= x /\ x <= max + 1 => Under(o, x) = low
                 /\ x > max => Under(Tagged, x) = Under(o, x) + d
      BY <1>5
    <2> HIDE DEF o
    <2>3. \A k \in 1 .. out : sorted[k] <= min <=> k <= low
      <3> TAKE k \in 1 .. out
      <3> PICK x \in Nat : x = sorted[k] /\ AtRank(o, k, x)
        BY <1>6, <1>7
      <3>1. min \in Int /\ min + 1 \in Int /\ min <= min + 1 /\ min + 1 <= max + 1
        BY <2>1
      <3>2. Under(o, min + 1) = low
        BY <2>2, <3>1
      <3>3. ASSUME x <= min PROVE k <= low
        <4>1. x + 1 \in Int /\ x + 1 <= min + 1
          BY <3>3
        <4>2. Under(o, x + 1) <= Under(o, min + 1)
          BY <1>4, <3>1, <4>1, UnderGrows
        <4>3. Under(o, x + 1) \in Nat
          BY <2>2, <4>1
        <4> QED BY <3>2, <4>2, <4>3 DEF AtRank
      <3>4. ASSUME min + 1 <= x PROVE ~(k <= low)
        <4>1. Under(o, min + 1) <= Under(o, x)
          BY <1>4, <3>1, <3>4, UnderGrows
        <4>2. Under(o, x) \in Nat
          BY <2>2
        <4> QED BY <3>2, <4>1, <4>2 DEF AtRank
      <3> QED BY <3>3, <3>4
    <2>4. Cardinality({k \in 1 .. out : Below(sorted[k])}) = low
      <3>1. {k \in 1 .. out : Below(sorted[k])} = 1 .. low
        BY <2>3 DEF Below
      <3>2. Cardinality(1 .. low) = low
        BY FS_Interval
      <3> QED BY <3>1, <3>2
    <2>5. obs' = [k \in 1 .. n |-> IF k <= low THEN sorted[k]
                                   ELSE IF k <= low + d THEN Splat(k - low)
                                   ELSE sorted[k - d]]
      <3>1. obs' = IF num_outliers = num THEN sorted
                   ELSE LET head == Cardinality({k \in 1 .. num_outliers : Below(sorted[k])})
                            dense == Counted(range.max)
                        IN  [k \in 1 .. num_outliers + dense |->
                               IF k <= head THEN sorted[k]
                               ELSE IF k <= head + dense THEN Splat(k - head)
                               ELSE sorted[k - dense]]
        BY DEF Merge, o
      <3> HIDE DEF sorted
      <3> QED BY <1>9, <2>4, <3>1
    <2>6. ASSUME NEW k \in 1 .. low PROVE AtRank(Tagged, k, sorted[k])
      <3> PICK x \in Nat : x = sorted[k] /\ AtRank(o, k, x)
        BY <1>6, <1>7
      <3>1. x <= min
        BY <2>3
      <3>2. Under(Tagged, x) = Under(o, x)
        BY <2>2, <3>1
      <3>3. Under(o, x + 1) <= Under(Tagged, x + 1)
        <4>1. x + 1 \in Int
          OBVIOUS
        <4>2. CASE x + 1 <= min
          <5>1. Under(Tagged, x + 1) = Under(o, x + 1) /\ Under(o, x + 1) \in Nat
            BY <2>2, <4>1, <4>2
          <5> QED BY <5>1
        <4>3. CASE x = min
          <5>1. min + 1 \in Int /\ min <= min + 1 /\ min + 1 <= max + 1
            BY <2>1
          <5>2. Under(o, min + 1) = low
            BY <2>2, <5>1
          <5>3. Under(Tagged, min) <= Under(Tagged, min + 1)
            BY <1>2, <5>1, UnderGrows
          <5> QED BY <4>3, <5>2, <5>3
        <4> QED BY <3>1, <4>2, <4>3
      <3>4. Under(Tagged, x + 1) \in Nat /\ Under(o, x + 1) \in Nat
        <4>1. x + 1 \in Int
          OBVIOUS
        <4>2. Under(Tagged, x + 1) \in Nat
          <5>1. Tagged \in Array(n)
            BY <1>2
          <5>2. Under(Tagged, x + 1) \in 0 .. n
            BY <4>1, <5>1, UnderIs
          <5> QED BY <5>2
        <4>3. Under(o, x + 1) \in Nat
          BY <2>2, <4>1
        <4> QED BY <4>2, <4>3
      <3> QED BY <3>2, <3>3, <3>4 DEF AtRank
    <2>7. ASSUME NEW j \in 1 .. d PROVE AtRank(Tagged, low + j, Splat(j))
      <3> DEFINE Fits(v) == Counted(v - 1) < j /\ j <= Counted(v)
      <3>1. ASSUME NEW v \in min .. max
            PROVE  /\ Counted(v) \in Nat /\ Counted(v - 1) \in Nat
                   /\ Under(Tagged, v) = low + Counted(v - 1)
                   /\ Under(Tagged, v + 1) = low + Counted(v)
        <4>1. PICK l \in Nat : v = min + l
          <5>1. v - min \in Nat /\ v = min + (v - min)
            OBVIOUS
          <5> QED BY <5>1
        <4>2. min + l <= max + 1 /\ min + (l + 1) <= max + 1 /\ l + 1 \in Nat
              /\ min + l - 1 = v - 1 /\ min + (l + 1) - 1 = v /\ min + (l + 1) = v + 1
          BY <4>1
        <4>3. Counted(v - 1) + low = Under(Tagged, v) /\ Counted(v) + low = Under(Tagged, v + 1)
          <5>1. Counted(min + l - 1) + Under(Tagged, min) = Under(Tagged, min + l)
            BY <1>1, <4>2, CountedIs
          <5>2. Counted(min + (l + 1) - 1) + Under(Tagged, min) = Under(Tagged, min + (l + 1))
            BY <1>1, <4>2, CountedIs
          <5> QED BY <4>1, <4>2, <5>1, <5>2
        <4>4. Counted(v) \in Nat /\ Counted(v - 1) \in Nat
          BY <4>1, CountedIsNat
        <4> QED BY <4>3, <4>4
      <3>2. \E v \in min .. max : Fits(v)
        <4> DEFINE S == {v \in Nat : min <= v /\ v <= max /\ j <= Counted(v)}
        <4>1. max \in S /\ S \in SUBSET Nat
          BY <2>1
        <4>2. PICK v \in S : \A u \in S : v <= u
          <5> HIDE DEF S
          <5> QED BY <4>1, LeastMember
        <4>3. v \in min .. max /\ j <= Counted(v)
          OBVIOUS
        <4>4. Counted(v - 1) < j
          <5>1. CASE v = min
            <6>1. low = low + Counted(v - 1) /\ Counted(v - 1) \in Nat
              BY <3>1, <4>3, <5>1
            <6> QED BY <6>1
          <5>2. CASE v # min
            <6>1. v - 1 \in Nat /\ min <= v - 1 /\ v - 1 <= max /\ ~(v <= v - 1)
              BY <4>3, <5>2
            <6>2. v - 1 \notin S
              <7> HIDE DEF S
              <7> QED BY <4>2, <6>1
            <6>3. ~(j <= Counted(v - 1))
              BY <6>1, <6>2
            <6>4. Counted(v - 1) \in Nat
              BY <3>1, <4>3
            <6> QED BY <6>3, <6>4
          <5> QED BY <5>1, <5>2
        <4> QED BY <4>3, <4>4
      <3>3. PICK v \in min .. max : v = Splat(j) /\ Fits(v)
        <4>1. Splat(j) = CHOOSE v \in min .. max : Fits(v)
          BY DEF Splat
        <4> HIDE DEF Fits
        <4> QED BY <3>2, <4>1
      <3>4. /\ Counted(v) \in Nat /\ Counted(v - 1) \in Nat
            /\ Under(Tagged, v) = low + Counted(v - 1) /\ Under(Tagged, v + 1) = low + Counted(v)
        BY <3>1
      <3> QED BY <3>3, <3>4 DEF AtRank
    <2>8. ASSUME NEW k \in low + 1 .. out PROVE AtRank(Tagged, k + d, sorted[k])
      <3>1. k \in 1 .. out /\ ~(k <= low)
        OBVIOUS
      <3> PICK x \in Nat : x = sorted[k] /\ AtRank(o, k, x)
        BY <1>6, <1>7, <3>1
      <3>2. min < x
        BY <2>3, <3>1
      <3>3. max < x
        <4> SUFFICES ASSUME x <= max PROVE FALSE
          OBVIOUS
        <4>1. /\ x \in Int /\ x + 1 \in Int
              /\ min <= x /\ x <= max + 1 /\ min <= x + 1 /\ x + 1 <= max + 1
          BY <3>2
        <4>2. Under(o, x) = low /\ Under(o, x + 1) = low
          BY <2>2, <4>1
        <4> QED BY <3>1, <4>2 DEF AtRank
      <3>4. x \in Int /\ x + 1 \in Int /\ x > max /\ x + 1 > max
        BY <3>3
      <3>5. /\ Under(Tagged, x) = Under(o, x) + d /\ Under(Tagged, x + 1) = Under(o, x + 1) + d
            /\ Under(o, x) \in Nat /\ Under(o, x + 1) \in Nat
        BY <2>2, <3>4
      <3> QED BY <3>5 DEF AtRank
    <2>9. ASSUME NEW k \in 1 .. n PROVE AtRank(Tagged, k, obs'[k])
      <3>1. CASE k <= low
        <4>1. k \in 1 .. low /\ obs'[k] = sorted[k]
          BY <2>5, <3>1
        <4> QED BY <2>6, <4>1
      <3>2. CASE low < k /\ k <= low + d
        <4>1. PICK j \in 1 .. d : k = low + j /\ j = k - low
          <5>1. k - low \in 1 .. d /\ k = low + (k - low)
            BY <3>2
          <5> QED BY <5>1
        <4>2. obs'[k] = Splat(j)
          BY <2>5, <3>2, <4>1
        <4> QED BY <2>7, <4>1, <4>2
      <3>3. CASE low + d < k
        <4>1. PICK j \in low + 1 .. out : k = j + d /\ j = k - d
          <5>1. k - d \in low + 1 .. out /\ k = (k - d) + d
            BY <3>3
          <5> QED BY <5>1
        <4>2. ~(k <= low) /\ ~(k <= low + d)
          BY <3>3
        <4>3. obs'[k] = sorted[k - d]
          <5> HIDE DEF sorted
          <5> QED BY <2>5, <4>2
        <4> QED BY <2>8, <4>1, <4>3
      <3> QED BY <3>1, <3>2, <3>3
    <2>10. obs' \in Array(n)
      <3>1. \A k \in 1 .. n : obs'[k] \in Nat
        BY <2>9 DEF AtRank
      <3>2. DOMAIN obs' = 1 .. n /\ obs' = [k \in 1 .. n |-> obs'[k]]
        BY <2>5
      <3> QED BY <3>1, <3>2 DEF Array
    <2> QED BY <2>9, <2>10
  <1> QED BY <1>8, <1>9

-----------------------------------------------------------------------------
(* Arrays with the same values. *)

LEMMA SameBagIs ==
    ASSUME NEW n \in Nat, NEW s \in Array(n), NEW t \in Array(n)
    PROVE  SameBag(s, t) <=> \A x \in Nat : Copies(s, x) = Copies(t, x)
  <1>1. Range(s) \subseteq Nat /\ Range(t) \subseteq Nat
    BY DEF Range, Array
  <1>2. ASSUME NEW x \in Nat, x \notin Range(s) \cup Range(t)
        PROVE  Copies(s, x) = Copies(t, x)
    <2>1. {k \in DOMAIN s : s[k] = x} = {} /\ {k \in DOMAIN t : t[k] = x} = {}
      BY <1>2 DEF Range
    <2> QED BY <2>1 DEF Copies
  <1> QED BY <1>1, <1>2 DEF SameBag

LEMMA SameBagAgain ==
    ASSUME NEW n \in Nat, NEW s \in Array(n), NEW t \in Array(n), NEW u \in Array(n),
           SameBag(s, t), SameBag(t, u)
    PROVE  SameBag(s, u)
  <1>1. \A x \in Nat : Copies(s, x) = Copies(t, x)
    BY SameBagIs
  <1>2. \A x \in Nat : Copies(t, x) = Copies(u, x)
    BY SameBagIs
  <1>3. \A x \in Nat : Copies(s, x) = Copies(u, x)
    BY <1>1, <1>2
  <1> QED BY <1>3, SameBagIs

\* Two values that change places are the same values.
LEMMA SwapKeepsBag ==
    ASSUME NEW n \in Nat, NEW s \in Array(n), NEW k \in 1 .. n, NEW l \in 1 .. n,
           NEW t, t = [s EXCEPT ![k] = s[l], ![l] = s[k]]
    PROVE  t \in Array(n) /\ SameBag(t, s)
  <1> DEFINE other(j) == IF j = k THEN l ELSE IF j = l THEN k ELSE j
  <1>1. DOMAIN s = 1 .. n /\ DOMAIN t = 1 .. n /\ t \in Array(n)
    BY DEF Array
  <1>2. \A j \in 1 .. n : other(j) \in 1 .. n /\ other(other(j)) = j /\ t[j] = s[other(j)]
    BY <1>1
  <1>3. ASSUME NEW x \in Nat PROVE Copies(t, x) = Copies(s, x)
    <2> DEFINE T == {j \in 1 .. n : t[j] = x}
               S == {j \in 1 .. n : s[j] = x}
               f == [j \in T |-> other(j)]
    <2> HIDE DEF other
    <2>1. IsFiniteSet(T) /\ T \in SUBSET (1 .. n)
      BY Indices
    <2>2. f \in [T -> S]
      BY <1>2
    <2>3. \A j, q \in T : f[j] = f[q] => j = q
      BY <1>2
    <2>4. \A j \in S : \E q \in T : f[q] = j
      <3> TAKE j \in S
      <3>1. other(j) \in T /\ f[other(j)] = j
        BY <1>2
      <3> QED BY <3>1
    <2>5. f \in Bijection(T, S)
      <3> HIDE DEF f, T, S
      <3> QED BY <2>2, <2>3, <2>4 DEF Bijection, Injection, Surjection, IsInjective
    <2>6. Cardinality(T) = Cardinality(S)
      <3> HIDE DEF f, T, S
      <3> QED BY <2>1, <2>5, FS_Bijection DEF ExistsBijection
    <2> QED BY <1>1, <2>6 DEF Copies
  <1> QED BY <1>1, <1>3, SameBagIs

-----------------------------------------------------------------------------
(* Every step keeps the invariant. *)

Inv == SortInv /\ DealInv

\* The sort returns.
LEMMA SortReturnsKeeps ==
    ASSUME Inv, pc \in {"offset", "merge"}, SortReturns, UNCHANGED <<args, i>>,
           UNCHANGED unitVars, obs' \in Array(num), SameBag(obs', Tagged),
           \A k \in 1 .. num - 1 : obs'[k] <= obs'[k + 1]
    PROVE  Inv'
  <1>1. Tagged' = Tagged /\ num' = num /\ max_count' = max_count /\ min_count' = min_count
    BY SameTagged DEF unitVars, max_count, min_count
  <1>2. pc' = "sorted"
    BY DEF SortReturns
  <1>3. SortSorts'
    BY <1>1 DEF SortSorts, Tagged
  <1>4. TypeInv'
    BY <1>1 DEF Inv, SortInv, TypeInv, unitVars
  <1>5. TodoInv'
    BY <1>2 DEF Inv, SortInv, TodoInv, unitVars
  <1>6. StageInv'
    BY <1>2 DEF StageInv
  <1>7. DealInv'
    BY <1>1, <1>2 DEF Inv, DealInv, Pair, unitVars
  <1> QED BY <1>2, <1>3, <1>4, <1>5, <1>6, <1>7 DEF Inv, SortInv

\* exact_test_offset_sort
LEMMA OffsetKeeps == ASSUME Inv, Offset, UNCHANGED unitVars PROVE Inv'
  <1> PICK n \in Nat : n = num
    BY NumIs DEF Inv, SortInv
  <1> DEFINE t == [k \in 1 .. num |-> Key(k, obs[k])]
             low == CHOOSE x \in Range(t) : \A y \in Range(t) : x <= y
             top == CHOOSE x \in Range(t) : \A y \in Range(t) : x >= y
  <1>1. /\ pc = "offset" /\ UNCHANGED <<args, i>>
        /\ \/ (num = 0 \/ top - low = 0) /\ obs' = t /\ SortReturns
           \/ num # 0 /\ obs' = Sorted(t) /\ SortReturns
           \/ /\ num # 0 /\ obs' = t /\ range' = [min |-> low, max |-> top]
              /\ pc' \in {"count", "sample"} /\ UNCHANGED arrays
    <2> DEFINE bounds == [min |-> low, max |-> top]
               width == bounds.max - bounds.min
    <2>1. /\ pc = "offset" /\ UNCHANGED <<args, i>>
          /\ IF num = 0 \/ width = 0 THEN obs' = t /\ SortReturns
             ELSE IF num < SmallSize /\ width > num THEN obs' = Sorted(t) /\ SortReturns
             ELSE /\ obs' = t /\ range' = bounds
                  /\ pc' = IF width <= num THEN "count" ELSE "sample"
                  /\ UNCHANGED arrays
      BY Zenon DEF Offset
    <2> HIDE DEF t, low, top
    <2>2. width = top - low
      OBVIOUS
    <2> HIDE DEF width
    <2> QED BY <2>1, <2>2
  <1>2. t = Tagged
    BY <1>1 DEF Inv, SortInv, StageInv, Tagged
  <1>3. /\ Tagged \in Array(n) /\ DOMAIN Tagged = 1 .. n
        /\ \A k \in 1 .. n : Tagged[k] \in Range(Tagged)
    <2>1. Tagged \in Array(n)
      BY TaggedIs DEF Inv, SortInv
    <2> QED BY <2>1 DEF Array, Range
  <1>4. ASSUME n # 0
        PROVE  /\ low \in Nat /\ \A y \in Range(Tagged) : y \in Nat /\ low <= y
               /\ top \in Nat /\ \A y \in Range(Tagged) : top >= y
    <2>1. Range(Tagged) \subseteq Nat
      BY <1>3 DEF Array, Range
    <2>2. /\ \E x \in Range(t) : \A y \in Range(t) : x <= y
          /\ \E x \in Range(t) : \A y \in Range(t) : x >= y
      BY <1>2, <1>3, <1>4, EndsAre
    <2>3. low \in Range(t) /\ \A y \in Range(t) : low <= y
      <3> HIDE DEF t
      <3> QED BY <2>2
    <2>4. top \in Range(t) /\ \A y \in Range(t) : top >= y
      <3> HIDE DEF t
      <3> QED BY <2>2
    <2> HIDE DEF t, low, top
    <2> QED BY <1>2, <2>1, <2>3, <2>4
  <1> HIDE DEF t, low, top
  <1>5. SameBag(Tagged, Tagged)
    BY DEF SameBag
  <1>6. CASE (num = 0 \/ top - low = 0) /\ obs' = t /\ SortReturns
    <2>1. \A k \in 1 .. n - 1 : obs'[k] <= obs'[k + 1]
      <3> TAKE k \in 1 .. n - 1
      <3>1. k \in 1 .. n /\ k + 1 \in 1 .. n /\ n # 0
        OBVIOUS
      <3>2. Tagged[k] \in Range(Tagged) /\ Tagged[k + 1] \in Range(Tagged)
        BY <1>3, <3>1
      <3>3. /\ low \in Nat /\ top \in Nat /\ Tagged[k] \in Nat /\ Tagged[k + 1] \in Nat
            /\ low <= Tagged[k + 1] /\ top >= Tagged[k]
        BY <1>4, <3>1, <3>2
      <3>4. top - low = 0
        BY <1>6, <3>1
      <3>5. low <= Tagged[k] /\ top >= Tagged[k + 1]
        BY <1>4, <3>1, <3>2
      <3>6. Tagged[k] <= Tagged[k + 1]
        BY <3>3, <3>4, <3>5
      <3> QED BY <1>2, <1>6, <3>6
    <2> QED BY <1>1, <1>2, <1>3, <1>5, <1>6, <2>1, SortReturnsKeeps
  <1>7. CASE obs' = Sorted(t) /\ SortReturns
    <2>1. obs' \in Array(n) /\ \A k \in 1 .. n : AtRank(Tagged, k, obs'[k])
      BY <1>2, <1>3, <1>7, SortedIs
    <2>2. SameBag(obs', Tagged) /\ \A k \in 1 .. n - 1 : obs'[k] <= obs'[k + 1]
      BY <1>3, <2>1, RanksSort
    <2> QED BY <1>1, <1>7, <2>1, <2>2, SortReturnsKeeps
  <1>8. CASE /\ num # 0 /\ obs' = t /\ range' = [min |-> low, max |-> top]
             /\ pc' \in {"count", "sample"} /\ UNCHANGED arrays
    <2>1. Tagged' = Tagged /\ num' = num /\ max_count' = max_count /\ min_count' = min_count
      BY <1>1, SameTagged DEF unitVars, max_count, min_count
    <2>2. range'.min \in Nat /\ range'.max \in Nat
      BY <1>4, <1>8
    <2>3. TypeInv'
      BY <1>1, <1>2, <1>3, <1>8, <2>1 DEF Inv, SortInv, TypeInv, unitVars
    <2>4. TodoInv'
      BY <1>1, <1>8 DEF Inv, SortInv, TodoInv, unitVars
    <2>5. StageInv'
      BY <1>2, <1>8, <2>1, <2>2 DEF StageInv
    <2>6. DealInv'
      BY <1>1, <1>8, <2>1 DEF Inv, DealInv, Pair, unitVars
    <2> QED BY <1>8, <2>3, <2>4, <2>5, <2>6 DEF Inv, SortInv, SortSorts
  <1> QED BY <1>1, <1>6, <1>7, <1>8

\* find_dense_range, and its loop.
LEMMA RangeKeeps == ASSUME Inv, Sample \/ Narrow, UNCHANGED unitVars PROVE Inv'
  <1> PICK n \in Nat : n = num
    BY NumIs DEF Inv, SortInv
  <1> PICK c \in Nat : c = sample_size /\ c >= 3
    BY SampleSizeIs DEF Inv, SortInv
  <1>1. /\ UNCHANGED <<args, obs, i, counts, num_outliers>>
        /\ pc \in {"sample", "narrow"} /\ pc' \in {"narrow", "count"}
    BY DEF Sample, Narrow
  <1>2. /\ Tagged' = Tagged /\ num' = num /\ max_count' = max_count /\ min_count' = min_count
        /\ sample_size' = sample_size
    BY <1>1, SameTagged DEF unitVars, max_count, min_count, sample_size
  <1>3. obs = Tagged /\ num # 0 /\ range.min \in Nat /\ range.max \in Nat
    BY <1>1 DEF Inv, SortInv, StageInv
  <1>4. TypeInv'
    BY <1>1, <1>2 DEF Inv, SortInv, TypeInv, unitVars
  <1>5. TodoInv'
    BY <1>1 DEF Inv, SortInv, TodoInv, unitVars
  <1>6. DealInv'
    BY <1>1, <1>2 DEF Inv, DealInv, Pair, unitVars
  <1>7. CASE Sample
    <2> PICK draw \in [3 .. c -> 1 .. n] :
            sample' = Sorted([k \in 1 .. c |-> IF k <= 2 THEN range.min ELSE obs[draw[k]]])
      BY <1>7 DEF Sample
    <2> DEFINE drawn == [k \in 1 .. c |-> IF k <= 2 THEN range.min ELSE obs[draw[k]]]
    <2>1. drawn \in Array(c)
      <3>1. \A k \in 1 .. n : obs[k] \in Nat
        BY DEF Inv, SortInv, TypeInv, Array
      <3>2. \A k \in 1 .. c : ~(k <= 2) => draw[k] \in 1 .. n
        OBVIOUS
      <3> QED BY <1>3, <3>1, <3>2 DEF Array
    <2>2. sample' \in Array(c)
      <3> HIDE DEF drawn
      <3>1. Sorted(drawn) \in Array(c)
        BY <2>1, SortedIs
      <3> QED BY <3>1 DEF drawn
    <2>3. lo' = 1 /\ hi' = c /\ pc' = "narrow" /\ range' = range
      BY <1>7 DEF Sample
    <2>4. StageInv'
      BY <1>1, <1>2, <1>3, <2>2, <2>3 DEF StageInv
    <2> QED BY <1>4, <1>5, <1>6, <2>3, <2>4 DEF Inv, SortInv, SortSorts
  <1>8. CASE Narrow
    <2>1. sample \in Array(c) /\ lo \in 1 .. c /\ hi \in lo .. c /\ sample' = sample
      BY <1>8 DEF Narrow, Inv, SortInv, StageInv
    <2>2. sample[lo] \in Nat /\ sample[hi] \in Nat
      BY <2>1 DEF Array
    <2>3. CASE TooWide
      <3>1. lo # hi
        <4> SUFFICES ASSUME lo = hi PROVE FALSE
          OBVIOUS
        <4>1. sample[hi] - sample[lo] = 0
          BY <2>2
        <4> QED BY <2>3, <4>1 DEF TooWide
      <3>2. /\ (lo' = lo + 1 /\ hi' = hi) \/ (lo' = lo /\ hi' = hi - 1)
            /\ pc' = pc /\ range' = range /\ pc = "narrow"
        BY <1>8, <2>3 DEF Narrow
      <3>3. lo' \in 1 .. c /\ hi' \in lo' .. c
        BY <2>1, <3>1, <3>2
      <3>4. StageInv'
        BY <1>1, <1>2, <1>3, <2>1, <3>2, <3>3 DEF StageInv
      <3> QED BY <1>4, <1>5, <1>6, <3>2, <3>4 DEF Inv, SortInv, SortSorts
    <2>4. CASE ~TooWide
      <3>1. /\ pc' = "count"
            /\ range' = [min |-> sample[lo], max |-> sample[hi]] \/ range' = [min |-> 1, max |-> 0]
        BY <1>8, <2>4 DEF Narrow
      <3>2. range'.min \in Nat /\ range'.max \in Nat
        BY <2>2, <3>1
      <3>3. StageInv'
        BY <1>1, <1>2, <1>3, <3>1, <3>2 DEF StageInv
      <3> QED BY <1>4, <1>5, <1>6, <3>1, <3>3 DEF Inv, SortInv, SortSorts
    <2> QED BY <2>3, <2>4
  <1> QED BY <1>7, <1>8

\* compress_count_sort, then the merge.
LEMMA CountKeeps == ASSUME Inv, Count, UNCHANGED unitVars PROVE Inv'
  <1> PICK n \in Nat : n = num
    BY NumIs DEF Inv, SortInv
  <1>1. /\ UNCHANGED <<args, i, range, sample, lo, hi>> /\ pc = "count" /\ pc' = "merge"
        /\ obs' = [k \in 1 .. num |->
                     IF k <= Cardinality(Outliers) THEN obs[Nth(Outliers, k)] ELSE obs[k]]
    BY DEF Count
  <1>2. Tagged' = Tagged /\ num' = num /\ max_count' = max_count /\ min_count' = min_count
    BY <1>1, SameTagged DEF unitVars, max_count, min_count
  <1>3. CountInv'
    BY CountCounts DEF Inv
  <1>4. obs' \in Array(n)
    <2>1. Outliers \in SUBSET (1 .. n) /\ \A k \in 1 .. n : obs[k] \in Nat
      BY DEF Outliers, Inv, SortInv, TypeInv, Array
    <2>2. \A k \in 1 .. Cardinality(Outliers) : Nth(Outliers, k) \in 1 .. n
      BY <2>1, NthIs
    <2>3. Cardinality(Outliers) \in 0 .. n
      BY <2>1, Indices
    <2>4. \A k \in 1 .. n : obs'[k] \in Nat
      BY <1>1, <2>1, <2>2, <2>3
    <2>5. obs' = [k \in 1 .. n |-> obs'[k]]
      BY <1>1
    <2> QED BY <2>4, <2>5 DEF Array
  <1>5. TypeInv'
    BY <1>1, <1>2, <1>4 DEF Inv, SortInv, TypeInv, unitVars
  <1>6. TodoInv'
    BY <1>1 DEF Inv, SortInv, TodoInv, unitVars
  <1>7. StageInv'
    BY <1>1, <1>2 DEF Inv, SortInv, StageInv
  <1>8. DealInv'
    BY <1>1, <1>2 DEF Inv, DealInv, Pair, unitVars
  <1> QED BY <1>1, <1>3, <1>5, <1>6, <1>7, <1>8 DEF Inv, SortInv, SortSorts

LEMMA MergeKeeps == ASSUME Inv, Merge, UNCHANGED unitVars PROVE Inv'
  <1>1. pc = "merge" /\ SortReturns /\ UNCHANGED <<args, i>>
    BY DEF Merge
  <1>2. /\ obs' \in Array(num) /\ SameBag(obs', Tagged)
        /\ \A k \in 1 .. num - 1 : obs'[k] <= obs'[k + 1]
    BY <1>1, MergeSorts DEF Inv
  <1> QED BY <1>1, <1>2, SortReturnsKeeps

\* fisher_yates_shuffle
LEMMA ShuffleKeeps == ASSUME Inv, Shuffle \/ EndShuffle, UNCHANGED unitVars PROVE Inv'
  <1> PICK n \in Nat : n = num
    BY NumIs DEF Inv, SortInv
  <1>1. /\ UNCHANGED <<args, range, arrays>> /\ pc = "shuffle"
        /\ pc' \in {"shuffle", "flip", "shuffled"}
    BY DEF Shuffle, EndShuffle
  <1>2. num' = num /\ max_count' = max_count /\ min_count' = min_count
    BY <1>1 DEF num, max_count, min_count
  <1>3. /\ obs \in Array(n) /\ data \in Array(n) /\ SameBag(obs, data) /\ i \in Nat \ {0}
        /\ max_count \in 0 .. n /\ min_count \in Nat
    BY <1>1, NumIs DEF Inv, SortInv, TypeInv, DealInv
  <1>4. obs' \in Array(n) /\ SameBag(obs', data) /\ i' \in Nat \ {0}
    <2>1. CASE Shuffle
      <3>1. i \in 1 .. n /\ i' = i + 1
        BY <1>3, <2>1 DEF Shuffle
      <3>2. PICK pick \in i .. num : obs' = [obs EXCEPT ![i] = obs[pick], ![pick] = obs[i]]
        BY <2>1 DEF Shuffle, Picks
      <3> pick \in 1 .. n
        BY <1>3
      <3>3. obs' \in Array(n) /\ SameBag(obs', obs)
        BY <1>3, <3>1, <3>2, SwapKeepsBag
      <3>4. SameBag(obs', data)
        BY <1>3, <3>3, SameBagAgain
      <3> QED BY <3>1, <3>3, <3>4
    <2>2. CASE EndShuffle
      BY <1>3, <2>2 DEF EndShuffle
    <2> QED BY <2>1, <2>2
  <1>5. TypeInv'
    BY <1>1, <1>2, <1>4 DEF Inv, SortInv, TypeInv, unitVars
  <1>6. TodoInv'
    BY <1>1 DEF Inv, SortInv, TodoInv, unitVars
  <1>7. StageInv'
    BY <1>1 DEF StageInv
  <1>8. DealInv'
    <2>1. args'.p = 0 => pc' # "shuffled" /\ (pc' = "flip" => i' = 1)
      BY <1>1 DEF Shuffle, EndShuffle
    <2>2. SameBag(shuffled', data')
      BY DEF Inv, DealInv, unitVars
    <2>3. data' = data /\ 1 <= min_count + 1 /\ 1 .. 1 - 1 = {}
      BY <1>3 DEF unitVars
    <2> QED BY <1>1, <1>2, <1>4, <2>1, <2>2, <2>3 DEF DealInv
  <1> QED BY <1>1, <1>5, <1>6, <1>7, <1>8 DEF Inv, SortInv, SortSorts

\* conditional_flips
LEMMA FlipKeeps == ASSUME Inv, Flip, UNCHANGED unitVars PROVE Inv'
  <1> PICK n \in Nat : n = num
    BY NumIs DEF Inv, SortInv
  <1>1. /\ UNCHANGED <<args, range, arrays>> /\ pc = "flip" /\ pc' \in {"flip", "shuffled"}
    BY DEF Flip
  <1>2. num' = num /\ max_count' = max_count /\ min_count' = min_count
    BY <1>1 DEF num, max_count, min_count
  <1>3. /\ obs \in Array(n) /\ data \in Array(n) /\ SameBag(obs, data) /\ i \in Nat \ {0}
        /\ max_count \in Nat /\ min_count \in Nat /\ min_count + max_count = n
        /\ min_count <= max_count
    BY <1>1, NumIs DEF Inv, SortInv, TypeInv, DealInv, min_count, max_count, Lowest, Highest
  <1>4. args.p = 0 => i <= min_count + 1 /\ \A k \in 1 .. i - 1 : obs[k] >= obs[Pair(k)]
    BY <1>1 DEF Inv, SortInv, TodoInv, DealInv
  <1>5. /\ obs' \in Array(n) /\ SameBag(obs', data) /\ i' \in Nat \ {0}
        /\ args.p = 0 => /\ i' <= min_count + 1 /\ \A k \in 1 .. i' - 1 : obs'[k] >= obs'[Pair(k)]
                         /\ pc' = "shuffled" => i' = min_count + 1
    <2>1. CASE i > min_count
      <3>1. obs' = obs /\ i' = i
        BY <2>1 DEF Flip
      <3> QED BY <1>3, <1>4, <2>1, <3>1
    <2>2. CASE ~(i > min_count)
      <3> PICK k \in 1 .. min_count : k = i
        BY <1>3, <2>2
      <3> PICK l \in 1 .. n : l = Pair(k) /\ l = k + max_count
        BY <1>3 DEF Pair
      <3>1. k \in 1 .. n /\ k < l
        BY <1>3
      <3>2. obs[k] \in Nat /\ obs[l] \in Nat /\ DOMAIN obs = 1 .. n
        BY <1>3, <3>1 DEF Array
      <3> DEFINE kept == [obs EXCEPT ![k] = obs[k], ![l] = obs[l]]
                 swapped == [obs EXCEPT ![k] = obs[l], ![l] = obs[k]]
      <3>3. i' = i + 1 /\ pc' = "flip"
        BY <2>2 DEF Flip
      <3>4. /\ obs' = kept \/ obs' = swapped
            /\ args.p = 0 => obs' = IF obs[k] < obs[l] THEN swapped ELSE kept
        <4>1. \/ /\ args.p > 0
                 /\ obs' = [obs EXCEPT ![k] = Lowest(obs[k], obs[l]), ![l] = Highest(obs[k], obs[l])]
              \/ obs' = [obs EXCEPT ![k] = Highest(obs[k], obs[l]), ![l] = Lowest(obs[k], obs[l])]
          BY <2>2 DEF Flip
        <4>2. \/ /\ obs[k] < obs[l]
                 /\ Lowest(obs[k], obs[l]) = obs[k] /\ Highest(obs[k], obs[l]) = obs[l]
              \/ /\ ~(obs[k] < obs[l])
                 /\ Lowest(obs[k], obs[l]) = obs[l] /\ Highest(obs[k], obs[l]) = obs[k]
          BY DEF Lowest, Highest
        <4>3. args.p = 0 => ~(args.p > 0)
          OBVIOUS
        <4> HIDE DEF kept, swapped
        <4> QED BY <4>1, <4>2, <4>3 DEF kept, swapped
      <3>5. kept = obs
        <4>1. obs \in [1 .. n -> Nat]
          BY <1>3 DEF Array
        <4>2. kept \in [1 .. n -> Nat] /\ \A j \in 1 .. n : kept[j] = obs[j]
          BY <3>2, <4>1
        <4> HIDE DEF kept
        <4> QED BY <4>1, <4>2
      <3>6. swapped \in Array(n) /\ SameBag(swapped, data)
        <4>1. swapped \in Array(n) /\ SameBag(swapped, obs)
          BY <1>3, <3>1, SwapKeepsBag
        <4> HIDE DEF swapped
        <4> QED BY <1>3, <4>1, SameBagAgain
      <3>7. obs' \in Array(n) /\ SameBag(obs', data)
        BY <1>3, <3>4, <3>5, <3>6
      <3>8. ASSUME args.p = 0, NEW j \in 1 .. i' - 1 PROVE obs'[j] >= obs'[Pair(j)]
        <4>1. CASE j = k
          <5>1. kept[k] = obs[k] /\ kept[l] = obs[l] /\ swapped[k] = obs[l] /\ swapped[l] = obs[k]
            BY <3>1, <3>2
          <5> HIDE DEF kept, swapped
          <5>2. obs'[k] >= obs'[l]
            BY <3>2, <3>4, <3>8, <5>1
          <5> QED BY <4>1, <5>2
        <4>2. CASE j # k
          <5>1. /\ j \in 1 .. k - 1 /\ j \in 1 .. n /\ j # l
                /\ Pair(j) = j + max_count /\ Pair(j) \in 1 .. n /\ Pair(j) # k /\ Pair(j) # l
            BY <1>3, <3>3, <3>8, <4>2 DEF Pair
          <5>2. obs'[j] = obs[j] /\ obs'[Pair(j)] = obs[Pair(j)]
            BY <3>2, <3>4, <5>1
          <5> QED BY <1>4, <3>8, <5>1, <5>2
        <4> QED BY <4>1, <4>2
      <3> QED BY <1>3, <3>3, <3>7, <3>8
    <2> QED BY <2>1, <2>2
  <1>6. TypeInv'
    BY <1>1, <1>2, <1>5 DEF Inv, SortInv, TypeInv, unitVars
  <1>7. TodoInv'
    BY <1>1 DEF Inv, SortInv, TodoInv, unitVars
  <1>8. StageInv'
    BY <1>1 DEF StageInv
  <1>9. DealInv'
    <2>1. SameBag(shuffled', data') /\ data' = data /\ args' = args
      BY <1>1 DEF Inv, DealInv, unitVars
    <2>2. args.p = 0 /\ pc' = "shuffled" => 1 .. i' - 1 = 1 .. min_count
      BY <1>3, <1>5
    <2>3. \A k : Pair(k)' = Pair(k)
      BY <1>2 DEF Pair
    <2> QED BY <1>1, <1>2, <1>5, <2>1, <2>2, <2>3 DEF DealInv, Pair
  <1> QED BY <1>1, <1>6, <1>7, <1>8, <1>9 DEF Inv, SortInv, SortSorts

\* Groups of a plan.
LEMMA GroupedIs ==
    ASSUME NEW stats \in Plans
    PROVE  LET groups == Grouped(stats)
           IN  \A p \in DOMAIN groups : p \in 0 .. 100 /\ DOMAIN groups[p] \subseteq Nat \X Nat
  <1>1. \A s \in stats : s.probability_a_lower \in 0 .. 100 /\ s.a_offset \in Nat /\ s.b_offset \in Nat
    BY WorkerAssumption
  <1> QED BY <1>1 DEF Grouped

\* Steps between two sorts.
LEMMA NextGroupKeeps == ASSUME Inv, NextGroup PROVE Inv'
  <1> PICK n \in Nat : n = num
    BY NumIs DEF Inv, SortInv
  <1> PICK p \in DOMAIN todo : args' = [args EXCEPT !.p = p]
    BY DEF NextGroup
  <1>1. /\ obs' = data /\ pc' = "shuffle" /\ i' = 1 /\ pc = "next"
        /\ UNCHANGED <<range, arrays, unitVars>>
    BY DEF NextGroup
  <1>2. p \in 0 .. 100 /\ resample
    BY DEF Inv, SortInv, TodoInv
  <1>3. /\ args' \in [m : Nat, n : Nat, p : 0 .. 100, a : Nat, b : Nat]
        /\ args'.p = p /\ num' = num
    BY <1>2 DEF Inv, SortInv, TypeInv, num
  <1>4. TypeInv'
    BY <1>1, <1>3 DEF Inv, SortInv, TypeInv, unitVars
  <1>5. TodoInv'
    BY <1>1, <1>2, <1>3 DEF Inv, SortInv, TodoInv, unitVars
  <1>6. DealInv'
    <2>1. SameBag(data, data)
      BY DEF SameBag
    <2> QED BY <1>1, <2>1 DEF Inv, DealInv, unitVars
  <1> QED BY <1>1, <1>4, <1>5, <1>6 DEF Inv, SortInv, SortSorts, StageInv

LEMMA ShuffledKeeps == ASSUME Inv, Shuffled PROVE Inv'
  <1>1. /\ shuffled' = obs /\ i' = 1 /\ pc' = "offsets" /\ pc = "shuffled"
        /\ UNCHANGED <<args, obs, range, arrays, data, statistics, resample, todo, results>>
    BY DEF Shuffled
  <1>2. num' = num /\ max_count' = max_count /\ min_count' = min_count
    BY <1>1 DEF num, max_count, min_count
  <1>3. TypeInv'
    BY <1>1, <1>2 DEF Inv, SortInv, TypeInv
  <1>4. TodoInv'
    BY <1>1 DEF Inv, SortInv, TodoInv
  <1>5. DealInv'
    BY <1>1, <1>2 DEF Inv, DealInv, Pair
  <1> QED BY <1>1, <1>3, <1>4, <1>5 DEF Inv, SortInv, SortSorts, StageInv

LEMMA NextOffsetsKeeps == ASSUME Inv, NextOffsets PROVE Inv'
  <1> PICK offsets \in DOMAIN todo[args.p] :
          args' = [args EXCEPT !.a = offsets[1], !.b = offsets[2]]
    BY DEF NextOffsets
  <1>1. /\ obs' = shuffled /\ pc' = "offset" /\ pc = "offsets"
        /\ UNCHANGED <<i, range, arrays, unitVars>>
    BY DEF NextOffsets, Unsorted
  <1>2. resample /\ args.p \in DOMAIN todo /\ offsets \in Nat \X Nat
    BY <1>1 DEF Inv, SortInv, TodoInv
  <1>3. /\ args' \in [m : Nat, n : Nat, p : 0 .. 100, a : Nat, b : Nat]
        /\ args'.p = args.p /\ args'.m = args.m /\ args'.n = args.n
    BY <1>2 DEF Inv, SortInv, TypeInv
  <1>4. num' = num /\ max_count' = max_count /\ min_count' = min_count
    BY <1>3 DEF num, max_count, min_count
  <1>5. TypeInv'
    BY <1>1, <1>3, <1>4 DEF Inv, SortInv, TypeInv, unitVars
  <1>6. TodoInv'
    BY <1>1, <1>2, <1>3 DEF Inv, SortInv, TodoInv, unitVars
  <1>7. DealInv'
    BY <1>1, <1>3, <1>4 DEF Inv, DealInv, Pair, unitVars
  <1>8. StageInv'
    BY <1>1 DEF StageInv, unitVars
  <1> QED BY <1>1, <1>5, <1>6, <1>7, <1>8 DEF Inv, SortInv, SortSorts

LEMMA ComputeKeeps == ASSUME Inv, Compute PROVE Inv'
  <1> DEFINE left == IF resample
                     THEN Restrict(todo[args.p], DOMAIN todo[args.p] \ {<<args.a, args.b>>}) ELSE <<>>
             groups == Restrict(todo, DOMAIN todo \ {args.p})
  <1>1. /\ pc = "sorted"
        /\ UNCHANGED <<args, obs, i, range, arrays, data, statistics, resample, shuffled>>
        /\ \/ left # <<>> /\ todo' = [todo EXCEPT ![args.p] = left] /\ pc' = "offsets"
           \/ todo' = groups /\ pc' \in {"done", "next"}
    BY Zenon DEF Compute
  <1>2. num' = num /\ max_count' = max_count /\ min_count' = min_count
    BY <1>1 DEF num, max_count, min_count
  <1>3. TypeInv'
    BY <1>1, <1>2 DEF Inv, SortInv, TypeInv
  <1>4. \A p \in DOMAIN todo : p \in 0 .. 100 /\ DOMAIN todo[p] \subseteq Nat \X Nat
    BY DEF Inv, SortInv, TodoInv
  <1>5. resample => args.p \in DOMAIN todo
    BY <1>1 DEF Inv, SortInv, TodoInv
  <1>6. ~resample => DOMAIN todo = {} /\ left = <<>>
    BY DEF Inv, SortInv, TodoInv
  <1>7. TodoInv'
    <2>1. CASE left # <<>> /\ todo' = [todo EXCEPT ![args.p] = left] /\ pc' = "offsets"
      <3>1. resample /\ DOMAIN left \subseteq DOMAIN todo[args.p]
        BY <1>6, <2>1 DEF Restrict
      <3> HIDE DEF left
      <3>2. DOMAIN todo' = DOMAIN todo
        BY <2>1
      <3>3. \A p \in DOMAIN todo : DOMAIN todo'[p] \subseteq DOMAIN todo[p]
        BY <2>1, <3>1
      <3> QED BY <1>1, <1>4, <1>5, <2>1, <3>1, <3>2, <3>3 DEF TodoInv
    <2>2. CASE todo' = groups /\ pc' \in {"done", "next"}
      <3>1. DOMAIN todo' \subseteq DOMAIN todo /\ \A p \in DOMAIN todo' : todo'[p] = todo[p]
        BY <2>2 DEF Restrict
      <3> HIDE DEF groups
      <3> QED BY <1>1, <1>4, <1>6, <2>2, <3>1 DEF TodoInv
    <2> QED BY <1>1, <2>1, <2>2
  <1>8. DealInv'
    <2>1. pc' \in {"offsets", "done", "next"}
      BY <1>1
    <2> QED BY <1>1, <1>2, <2>1 DEF Inv, DealInv, Pair
  <1>9. StageInv' /\ SortSorts' /\ (pc' = "merge" => CountInv')
    BY <1>1 DEF StageInv, SortSorts
  <1> QED BY <1>3, <1>7, <1>8, <1>9 DEF Inv, SortInv

LEMMA YieldKeeps == ASSUME Inv, Yield PROVE Inv'
  <1>1. /\ pc = "done" /\ resample /\ todo' = Grouped(statistics) /\ pc' = "next"
        /\ UNCHANGED <<args, obs, i, range, arrays, data, statistics, resample, shuffled>>
    BY DEF Yield
  <1>2. statistics \in Plans
    BY DEF Inv, SortInv, TypeInv
  <1>3. num' = num
    BY <1>1 DEF num
  <1>4. TypeInv'
    BY <1>1, <1>3 DEF Inv, SortInv, TypeInv
  <1>5. TodoInv'
    BY <1>1, <1>2, GroupedIs DEF TodoInv
  <1>6. DealInv'
    BY <1>1 DEF Inv, DealInv
  <1> QED BY <1>1, <1>4, <1>5, <1>6 DEF Inv, SortInv, SortSorts, StageInv

LEMMA StutterKeeps == ASSUME Inv, UNCHANGED vars PROVE Inv'
  <1>1. /\ UNCHANGED <<args, pc, obs, i, range, sample, lo, hi, counts, num_outliers>>
        /\ UNCHANGED <<data, statistics, resample, shuffled, todo, results>>
    BY DEF vars, sortVars, arrays
  <1>2. Tagged' = Tagged /\ num' = num /\ max_count' = max_count /\ min_count' = min_count
        /\ sample_size' = sample_size /\ Others' = Others /\ \A x : OthersUnder(x)' = OthersUnder(x)
    BY <1>1, SameTagged DEF max_count, min_count, sample_size, Others, OthersUnder, Dense, num
  <1>3. TypeInv' /\ TodoInv' /\ StageInv'
    BY <1>1, <1>2 DEF Inv, SortInv, TypeInv, TodoInv, StageInv
  <1>4. pc' = "merge" => CountInv'
    BY <1>1, <1>2 DEF Inv, SortInv, CountInv
  <1>5. SortSorts'
    BY <1>1, <1>2 DEF Inv, SortInv, SortSorts, Tagged
  <1>6. DealInv'
    BY <1>1, <1>2 DEF Inv, DealInv, Pair
  <1> QED BY <1>3, <1>4, <1>5, <1>6 DEF Inv, SortInv

\* Two sequences, one after the other, as an array.
LEMMA JoinIs ==
    ASSUME NEW s \in Seq(Nat), NEW t \in Seq(Nat)
    PROVE  Len(s) \in Nat /\ Len(t) \in Nat /\ s \o t \in Array(Len(s) + Len(t))
  <1>1. Len(s) \in Nat /\ Len(t) \in Nat
    BY LenProperties
  <1>2. s \o t \in Seq(Nat) /\ Len(s \o t) = Len(s) + Len(t)
    BY ConcatProperties
  <1>3. s \o t \in [1 .. Len(s \o t) -> Nat]
    BY <1>2, LenProperties
  <1> QED BY <1>1, <1>2, <1>3 DEF Array

\* A unit starts with the data.
LEMMA InitHolds == ASSUME Init PROVE Inv
  <1> PICK m \in Nat, n \in Nat :
        args = [m |-> m, n |-> n, p |-> 0, a |-> 0, b |-> 0] /\ data \in Array(m + n)
    <2> PICK s \in Samples :
          /\ args = [m |-> Len(s.a_class), n |-> Len(s.b_class), p |-> 0, a |-> 0, b |-> 0]
          /\ data = s.a_class \o s.b_class
      BY DEF Init
    <2>1. s.a_class \in Seq(Nat) /\ s.b_class \in Seq(Nat)
      BY WorkerAssumption
    <2>2. /\ Len(s.a_class) \in Nat /\ Len(s.b_class) \in Nat
          /\ s.a_class \o s.b_class \in Array(Len(s.a_class) + Len(s.b_class))
      BY <2>1, JoinIs
    <2> QED BY <2>2
  <1>1. /\ statistics \in Plans /\ resample \in BOOLEAN
        /\ pc = IF resample THEN "next" ELSE "offset"
        /\ obs = data /\ i = 1 /\ shuffled = data
        /\ todo = IF resample THEN Grouped(statistics) ELSE <<>>
    BY DEF Init, ArraysInit
  <1>2. args \in [m : Nat, n : Nat, p : 0 .. 100, a : Nat, b : Nat]
    OBVIOUS
  <1>3. data \in Array(num)
    BY DEF num
  <1>4. TypeInv
    BY <1>1, <1>2, <1>3 DEF TypeInv
  <1>5. TodoInv
    <2>1. CASE resample
      BY <1>1, <2>1, GroupedIs DEF TodoInv
    <2>2. CASE ~resample
      <3>1. DOMAIN todo = {}
        BY <1>1, <2>2
      <3> QED BY <1>1, <2>2, <3>1 DEF TodoInv
    <2> QED BY <2>1, <2>2
  <1>6. DealInv
    <2>1. SameBag(data, data)
      BY DEF SameBag
    <2> QED BY <1>1, <2>1 DEF DealInv
  <1> QED BY <1>1, <1>4, <1>5, <1>6 DEF Inv, SortInv, SortSorts, StageInv

\* The invariant of a work unit, for all samples and plans.
THEOREM WorkerInvariant == Spec => []Inv
  <1>1. Init => Inv
    BY InitHolds
  <1>2. Inv /\ [Next]_vars => Inv'
    <2> SUFFICES ASSUME Inv, [Next]_vars PROVE Inv'
      OBVIOUS
    <2>1. CASE NextGroup
      BY <2>1, NextGroupKeeps
    <2>2. CASE Shuffled
      BY <2>2, ShuffledKeeps
    <2>3. CASE NextOffsets
      BY <2>3, NextOffsetsKeeps
    <2>4. CASE Compute
      BY <2>4, ComputeKeeps
    <2>5. CASE Yield
      BY <2>5, YieldKeeps
    <2>6. CASE SortNext /\ UNCHANGED unitVars
      BY <2>6, ShuffleKeeps, FlipKeeps, OffsetKeeps, RangeKeeps, CountKeeps, MergeKeeps DEF SortNext
    <2>7. CASE UNCHANGED vars
      BY <2>7, StutterKeeps
    <2> QED BY <2>1, <2>2, <2>3, <2>4, <2>5, <2>6, <2>7 DEF Next
  <1> QED BY <1>1, <1>2, PTL DEF Spec

\* SortSorts, for samples of any size, every draw and every narrowing of the dense
\* range: exact_test_offset_sort leaves the shuffled values with their offsets in
\* ascending order, none lost, repeated or misplaced where counts and outliers join.
THEOREM SortIsCorrect == Spec => []SortSorts
  <1>1. Inv => SortSorts
    BY DEF Inv, SortInv
  <1> QED BY <1>1, WorkerInvariant, PTL

\* DealtAnew, likewise: exact_test_shuffle deals out the values of the data, and with
\* probability 0 each of conditional_flips' pairs has the higher value in A.
THEOREM DealIsExact == Spec => []DealtAnew
  <1>1. Inv => DealtAnew
    <2> SUFFICES ASSUME Inv PROVE DealtAnew
      OBVIOUS
    <2>1. pc = "offsets" => resample
      BY DEF Inv, SortInv, TodoInv
    <2> QED BY <2>1 DEF Inv, DealInv, DealtAnew
  <1> QED BY <1>1, WorkerInvariant, PTL

-----------------------------------------------------------------------------
(* Every statistic has its turn. *)

\* The statistics that have no result yet.
Waiting == UNION {UNION {todo[p][offsets] : offsets \in DOMAIN todo[p]} : p \in DOMAIN todo}

\* Between two yields, each statistic has a result or is in a group that is left;
\* the offsets at work are those of one.
ResultsInv ==
    /\ resample => /\ DOMAIN results \cup Waiting = statistics
                   /\ pc = "done" => DOMAIN todo = {}
                   /\ pc \in {"offset", "sample", "narrow", "count", "merge", "sorted"} =>
                         <<args.a, args.b>> \in DOMAIN todo[args.p]
    /\ ~resample => DOMAIN results = IF pc = "done" THEN statistics ELSE {}
    /\ ~resample => pc # "next"

\* A group of a plan is a part of it, and the groups are all of it.
LEMMA GroupedIsAll ==
    ASSUME NEW stats \in Plans
    PROVE  LET groups == Grouped(stats)
           IN  UNION {UNION {groups[p][offsets] : offsets \in DOMAIN groups[p]} : p \in DOMAIN groups}
                  = stats
  <1> DEFINE groups == Grouped(stats)
             of(p) == {s \in stats : s.probability_a_lower = p}
             shift(s) == <<s.a_offset, s.b_offset>>
  <1>1. /\ DOMAIN groups = {s.probability_a_lower : s \in stats}
        /\ \A p \in DOMAIN groups :
              /\ DOMAIN groups[p] = {shift(s) : s \in of(p)}
              /\ \A offsets \in DOMAIN groups[p] :
                    groups[p][offsets] = {s \in of(p) : shift(s) = offsets}
    BY DEF Grouped
  <1>2. ASSUME NEW s \in stats
        PROVE  \E p \in DOMAIN groups : \E offsets \in DOMAIN groups[p] : s \in groups[p][offsets]
    <2>1. s.probability_a_lower \in DOMAIN groups /\ s \in of(s.probability_a_lower)
      BY <1>1
    <2>2. /\ shift(s) \in DOMAIN groups[s.probability_a_lower]
          /\ s \in groups[s.probability_a_lower][shift(s)]
      <3> HIDE DEF groups, of, shift
      <3>1. shift(s) \in {shift(r) : r \in of(s.probability_a_lower)}
        BY <2>1
      <3> QED BY <1>1, <2>1, <3>1
    <2> QED BY <2>1, <2>2
  <1>3. \A p \in DOMAIN groups : \A offsets \in DOMAIN groups[p] : groups[p][offsets] \subseteq stats
    <2>1. \A p : of(p) \subseteq stats
      OBVIOUS
    <2> HIDE DEF groups, of, shift
    <2> QED BY <1>1, <2>1
  <1> HIDE DEF groups
  <1> QED BY <1>2, <1>3 DEF groups

\* Steps that leave the groups and the results alone.
LEMMA ResultsUntouched ==
    ASSUME Inv, ResultsInv, UNCHANGED <<statistics, resample, todo, results>>,
           pc' \notin {"next", "done"}, pc # "done",
           resample /\ pc' \in {"offset", "sample", "narrow", "count", "merge", "sorted"} =>
              <<args'.a, args'.b>> \in DOMAIN todo'[args'.p]
    PROVE  ResultsInv'
  <1>1. Waiting' = Waiting
    BY DEF Waiting
  <1> QED BY <1>1 DEF ResultsInv

\* The statistics of a group have results, and are not left.
LEMMA ComputeResults == ASSUME Inv, ResultsInv, Compute PROVE ResultsInv'
  <1> DEFINE offsets == <<args.a, args.b>>
             group == IF resample THEN todo[args.p][offsets] ELSE statistics
             left == IF resample
                     THEN Restrict(todo[args.p], DOMAIN todo[args.p] \ {offsets}) ELSE <<>>
             groups == Restrict(todo, DOMAIN todo \ {args.p})
  <1>1. /\ pc = "sorted" /\ UNCHANGED <<args, statistics, resample>>
        /\ results' = [s \in DOMAIN results \cup group |->
                         IF s \in group THEN Computed(s) ELSE results[s]]
        /\ IF left # <<>> THEN todo' = [todo EXCEPT ![args.p] = left] /\ pc' = "offsets"
           ELSE todo' = groups /\ pc' = IF groups = <<>> THEN "done" ELSE "next"
    BY Zenon DEF Compute
  <1>2. DOMAIN results' = DOMAIN results \cup group
    BY <1>1
  <1>3. CASE ~resample
    <2>1. DOMAIN todo = {} /\ group = statistics /\ left = <<>> /\ DOMAIN results = {}
      BY <1>1, <1>3 DEF Inv, SortInv, TodoInv, ResultsInv
    <2>2. groups = <<>>
      <3>1. DOMAIN todo \ {args.p} = {}
        BY <2>1
      <3>2. groups = [x \in {} |-> todo[x]]
        BY <3>1 DEF Restrict
      <3>3. [x \in {} |-> todo[x]] = <<>>
        OBVIOUS
      <3> QED BY <3>2, <3>3
    <2> HIDE DEF group, left, groups
    <2>3. pc' = "done" /\ DOMAIN results' = statistics'
      BY <1>1, <1>2, <2>1, <2>2
    <2> QED BY <1>1, <1>3, <2>3 DEF ResultsInv
  <1>4. CASE resample
    <2> PICK p \in DOMAIN todo : p = args.p
      BY <1>1, <1>4 DEF Inv, SortInv, TodoInv
    <2>1. offsets \in DOMAIN todo[p] /\ group = todo[p][offsets]
      BY <1>1, <1>4 DEF ResultsInv
    <2>2. /\ DOMAIN left = DOMAIN todo[p] \ {offsets}
          /\ \A q \in DOMAIN left : left[q] = todo[p][q]
          /\ DOMAIN groups = DOMAIN todo \ {p} /\ \A q \in DOMAIN groups : groups[q] = todo[q]
      BY <1>4 DEF Restrict
    <2> HIDE DEF offsets, group, left, groups
    <2>3. group \cup Waiting' = Waiting
      <3>1. \A s : s \in Waiting <=> \E q \in DOMAIN todo : \E o \in DOMAIN todo[q] : s \in todo[q][o]
        BY DEF Waiting
      <3>2. \A s : s \in Waiting' <=>
                      \E q \in DOMAIN todo' : \E o \in DOMAIN todo'[q] : s \in todo'[q][o]
        BY DEF Waiting
      <3>3. CASE left # <<>>
        <4>1. /\ DOMAIN todo' = DOMAIN todo /\ todo'[p] = left
              /\ \A q \in DOMAIN todo : q # p => todo'[q] = todo[q]
          BY <1>1, <3>3
        <4>2. ASSUME NEW s PROVE s \in group \/ s \in Waiting' <=> s \in Waiting
          BY <2>1, <2>2, <3>1, <3>2, <4>1
        <4> QED BY <4>2
      <3>4. CASE left = <<>>
        <4>1. todo' = groups /\ DOMAIN left = {}
          BY <1>1, <3>4
        <4>2. \A o \in DOMAIN todo[p] : o = offsets
          BY <2>2, <4>1
        <4>3. ASSUME NEW s PROVE s \in group \/ s \in Waiting' <=> s \in Waiting
          BY <2>1, <2>2, <3>1, <3>2, <4>1, <4>2
        <4> QED BY <4>3
      <3> QED BY <3>3, <3>4
    <2>4. DOMAIN results' \cup Waiting' = statistics'
      BY <1>1, <1>2, <1>4, <2>3 DEF ResultsInv
    <2>5. pc' \in {"offsets", "next", "done"} /\ (pc' = "done" => DOMAIN todo' = {})
      <3>1. CASE left # <<>>
        BY <1>1, <3>1
      <3>2. CASE left = <<>>
        <4>1. todo' = groups /\ pc' = IF groups = <<>> THEN "done" ELSE "next"
          BY <1>1, <3>2
        <4> QED BY <4>1
      <3> QED BY <3>1, <3>2
    <2> QED BY <1>1, <1>4, <2>4, <2>5 DEF ResultsInv
  <1> QED BY <1>3, <1>4

LEMMA ResultsKept == ASSUME Inv, ResultsInv, [Next]_vars PROVE ResultsInv'
  <1>1. CASE NextGroup
    BY <1>1, ResultsUntouched DEF NextGroup, unitVars
  <1>2. CASE Shuffled
    BY <1>2, ResultsUntouched DEF Shuffled
  <1>3. CASE NextOffsets
    <2> PICK offsets \in DOMAIN todo[args.p] :
            args' = [args EXCEPT !.a = offsets[1], !.b = offsets[2]]
      BY <1>3 DEF NextOffsets
    <2>1. /\ pc = "offsets" /\ pc' = "offset"
          /\ UNCHANGED <<statistics, resample, todo, results>>
      BY <1>3 DEF NextOffsets, unitVars
    <2>2. offsets \in Nat \X Nat /\ args \in [m : Nat, n : Nat, p : 0 .. 100, a : Nat, b : Nat]
      BY <2>1 DEF Inv, SortInv, TodoInv, TypeInv
    <2>3. args'.p = args.p /\ <<args'.a, args'.b>> = offsets
      BY <2>2
    <2> QED BY <2>1, <2>3, ResultsUntouched
  <1>4. CASE Compute
    BY <1>4, ComputeResults
  <1>5. CASE Yield
    <2>1. /\ resample /\ results' = <<>> /\ todo' = Grouped(statistics) /\ pc' = "next"
          /\ UNCHANGED <<statistics, resample>>
      BY <1>5 DEF Yield
    <2>2. statistics \in Plans
      BY DEF Inv, SortInv, TypeInv
    <2>3. Waiting' = statistics
      BY <2>1, <2>2, GroupedIsAll DEF Waiting
    <2>4. DOMAIN results' = {}
      BY <2>1
    <2> QED BY <2>1, <2>3, <2>4 DEF ResultsInv
  <1>6. CASE SortNext /\ UNCHANGED unitVars
    <2>1. UNCHANGED args
      BY <1>6 DEF SortNext, Shuffle, EndShuffle, Flip, Offset, Sample, Narrow, Count, Merge
    <2>2. CASE Shuffle \/ EndShuffle \/ Flip
      <3>1. pc' \in {"shuffle", "flip", "shuffled"} /\ pc \in {"shuffle", "flip"}
        BY <2>2 DEF Shuffle, EndShuffle, Flip
      <3> QED BY <1>6, <3>1, ResultsUntouched DEF unitVars
    <2>3. CASE Offset \/ Sample \/ Narrow \/ Count \/ Merge
      <3>1. /\ pc' \in {"sample", "narrow", "count", "merge", "sorted"}
            /\ pc \in {"offset", "sample", "narrow", "count", "merge"}
        BY <2>3 DEF Offset, Sample, Narrow, Count, Merge, SortReturns
      <3>2. resample => <<args.a, args.b>> \in DOMAIN todo[args.p]
        BY <3>1 DEF ResultsInv
      <3>3. UNCHANGED <<statistics, resample, todo, results>>
        BY <1>6 DEF unitVars
      <3> QED BY <2>1, <3>1, <3>2, <3>3, ResultsUntouched
    <2> QED BY <1>6, <2>2, <2>3 DEF SortNext
  <1>7. CASE UNCHANGED vars
    <2>1. UNCHANGED <<args, pc, statistics, resample, todo, results>>
      BY <1>7 DEF vars, sortVars
    <2>2. Waiting' = Waiting
      BY <2>1 DEF Waiting
    <2> QED BY <2>1, <2>2 DEF ResultsInv
  <1> QED BY <1>1, <1>2, <1>3, <1>4, <1>5, <1>6, <1>7 DEF Next

\* AllComputed, for any plan: when a work unit yields, each of its statistics has a
\* result, however they were grouped by probability and offsets.
THEOREM EveryStatisticIsComputed == Spec => []AllComputed
  <1>1. Init => ResultsInv
    <2> SUFFICES ASSUME Init PROVE ResultsInv
      OBVIOUS
    <2>1. /\ statistics \in Plans /\ pc = IF resample THEN "next" ELSE "offset"
          /\ results = <<>> /\ todo = IF resample THEN Grouped(statistics) ELSE <<>>
      BY DEF Init
    <2>2. resample => Waiting = statistics
      BY <2>1, GroupedIsAll DEF Waiting
    <2>3. DOMAIN results = {}
      BY <2>1
    <2> QED BY <2>1, <2>2, <2>3 DEF ResultsInv
  <1>2. ResultsInv /\ Inv /\ [Next]_vars => ResultsInv'
    BY ResultsKept
  <1>3. ResultsInv => AllComputed
    <2>1. resample /\ DOMAIN todo = {} => Waiting = {}
      BY DEF Waiting
    <2> QED BY <2>1 DEF ResultsInv, AllComputed
  <1> QED BY <1>1, <1>2, <1>3, WorkerInvariant, PTL DEF Spec

-----------------------------------------------------------------------------
(* The generators: the inductive invariant of Xoshiro. *)

Inside == {"seeding", "seed_last", "long_jump", "long_jump_write"}
Getting == {"get", "long_jump", "long_jump_write"}

\* Jumps of 2^128 are made from snapshots only.
NoJumps ==
    /\ \A p \in Processes : global[p].jump = 0
    /\ \A t \in Threads : ret[t].jump = 0

\* A thread between lock and unlock holds the lock of its process.  Another
\* process may have been forked with the lock held by a thread of the first one,
\* and by no other.
LockInv ==
    /\ \A t \in Threads : place[t] \in Inside => lock[ProcessOf[t]] = HeldBy(t)
    /\ \A t \in Threads : place[t] # "idle" => ProcessOf[t] \in alive
    /\ \A p \in alive : \A t \in lock[p] : ProcessOf[t] \in {p, Main}

\* The processes whose state is taken from next: the first one, and those with a
\* thread that has seeded and not yet taken.
Ready(p) == p = Main \/ \E t \in Threads : ProcessOf[t] = p /\ place[t] \in Getting

\* Such a state is torn only while a thread seeds it again.
TornInv ==
    \A p \in Processes : Ready(p) /\ global[p].torn =>
        \E t \in Threads : ProcessOf[t] = p /\ place[t] = "seed_last"

\* The snapshot is the state it will be advanced from.
RetInv == \A t \in Threads : place[t] = "long_jump_write" => ret[t] = global[ProcessOf[t]]

\* Processes that are taken from have seeds of their own.
Source(p) == Ready(p) /\ ~global[p].torn
SourcesInv ==
    /\ FirstSeed \in seeded
    /\ \A p \in Processes : global[p].seed \in seeded
    /\ \A p, q \in Processes : Source(p) /\ Source(q) /\ global[p].seed = global[q].seed => p = q

\* x was taken before what the processes with its seed will give.
Taken(x) ==
    /\ x.seed \in seeded
    /\ \A p \in Processes : Source(p) /\ global[p].seed = x.seed => x.long < global[p].long

\* Generators in use are whole, and no two are in the same part of a sequence.
CursorsInv ==
    /\ \A t \in Threads : place[t] = "use" => ~cursor[t].torn /\ Taken(cursor[t])
    /\ \A t, u \in Threads :
          place[t] = "use" /\ place[u] = "use"
            /\ cursor[t].seed = cursor[u].seed /\ cursor[t].long = cursor[u].long => t = u

\* What was read was read once, and is behind the generator it was read from.
DrawsInv ==
    \A x \in DOMAIN draws :
        /\ draws[x] = 1
        /\ x \in Position /\ Taken(x)
        /\ \A t \in Threads :
              place[t] = "use" /\ cursor[t].seed = x.seed /\ cursor[t].long = x.long
                => x.jump < cursor[t].jump

IndInv ==
    TypeOK /\ NoJumps /\ LockInv /\ TornInv /\ RetInv /\ SourcesInv /\ CursorsInv /\ DrawsInv
-----------------------------------------------------------------------------
(* What follows from it. *)

\* Only the first process is taken from, and nothing is taken yet.
LEMMA XoshiroInitHolds == XoshiroInit => IndInv
  <1> SUFFICES ASSUME XoshiroInit PROVE IndInv
    OBVIOUS
  <1> USE XoshiroAssumption DEF XoshiroInit, Unset, SeedState, Free, HeldBy
  <1>1. TypeOK
    <2>1. SeedState(FirstSeed) \in Position
      BY DEF Position
    <2>2. SeedState(FirstSeed).jump <= MaxJumps
      OBVIOUS
    <2>3. \A t \in Threads : ret[t] = SeedState(FirstSeed) /\ cursor[t] = SeedState(FirstSeed)
      OBVIOUS
    <2> HIDE DEF SeedState
    <2> QED BY <2>1, <2>2, <2>3 DEF TypeOK
  <1>2. NoJumps /\ LockInv /\ TornInv /\ RetInv
    BY DEF NoJumps, LockInv, TornInv, RetInv, Inside
  <1>3. \A p \in Processes : Ready(p) => p = Main
    BY DEF Ready, Getting
  <1>4. SourcesInv
    BY <1>3 DEF SourcesInv, Source
  <1>5. CursorsInv /\ DrawsInv
    BY DEF CursorsInv, DrawsInv
  <1> QED BY <1>1, <1>2, <1>4, <1>5 DEF IndInv

\* The lock of a process excludes: two of its threads are not both inside.
LEMMA Excluded ==
    ASSUME LockInv, NEW t \in Threads, NEW u \in Threads,
           place[t] \in Inside, place[u] \in Inside, ProcessOf[t] = ProcessOf[u]
    PROVE  t = u
  BY DEF LockInv, HeldBy

\* A state is whole while a thread takes from it.
LEMMA Whole ==
    ASSUME IndInv, NEW t \in Threads, place[t] \in {"long_jump", "long_jump_write"}
    PROVE  Source(ProcessOf[t])
  <1>1. ProcessOf[t] \in Processes /\ Ready(ProcessOf[t])
    BY XoshiroAssumption DEF Ready, Getting
  <1>2. ASSUME NEW u \in Threads, ProcessOf[u] = ProcessOf[t], place[u] = "seed_last" PROVE FALSE
    BY <1>2, Excluded DEF IndInv, Inside
  <1> QED BY <1>1, <1>2 DEF IndInv, TornInv, Source

\* Nobody runs in a process that is not alive.
LEMMA NotReady ==
    ASSUME IndInv, NEW p \in Processes, p \notin alive
    PROVE  ~Ready(p) /\ p # Main
  BY DEF IndInv, TypeOK, LockInv, Ready, Getting

-----------------------------------------------------------------------------
(* Each step keeps it. *)

\* A forked process is not taken from before it has seeded, and its lock is not
\* held by any thread of its own.
LEMMA ForkKeeps == ASSUME IndInv, NEW p \in Processes, Fork(p) PROVE IndInv'
  <1> USE XoshiroAssumption DEF Fork
  <1>1. ~Ready(p) /\ p # Main /\ Main \in alive
    BY NotReady DEF IndInv, TypeOK
  <1>2. \A q \in Processes : Ready(q)' <=> Ready(q)
    BY DEF Ready
  <1>3. \A q \in Processes : q # p => global'[q] = global[q] /\ lock'[q] = lock[q]
    BY DEF IndInv, TypeOK
  <1>4. global'[p] = global[Main] /\ lock'[p] = lock[Main]
    BY DEF IndInv, TypeOK
  <1>5. \A q \in Processes : Source(q)' <=> Source(q)
    BY <1>1, <1>2, <1>3 DEF Source
  <1>6. \A t \in lock[Main] : ProcessOf[t] = Main
    BY <1>1 DEF IndInv, LockInv
  <1>7. \A t \in Threads : ProcessOf[t] = p => place[t] = "idle"
    BY DEF IndInv, LockInv
  <1>8. LockInv'
    BY <1>1, <1>3, <1>4, <1>6, <1>7 DEF IndInv, LockInv, Inside, HeldBy
  <1>9. TypeOK'
    <2>1. \A t \in Threads : lock'[ProcessOf[t]] = HeldBy(t) => place[t] \in Inside
      BY <1>1, <1>3, <1>4, <1>6 DEF IndInv, TypeOK, Inside, HeldBy
    <2>2. /\ Main \in alive' /\ alive' \subseteq Processes
          /\ global' \in [Processes -> Position] /\ lock' \in [Processes -> SUBSET Threads]
      BY DEF IndInv, TypeOK
    <2> QED BY <2>1, <2>2 DEF IndInv, TypeOK, Inside
  <1>10. NoJumps' /\ RetInv'
    BY <1>1, <1>3, <1>4, <1>7 DEF IndInv, NoJumps, RetInv
  <1>11. TornInv'
    BY <1>1, <1>2, <1>3 DEF IndInv, TornInv
  <1>12. SourcesInv'
    BY <1>1, <1>3, <1>4, <1>5 DEF IndInv, SourcesInv, Source
  <1>13. \A x : Taken(x) => Taken(x)'
    BY <1>1, <1>3, <1>5 DEF Taken, Source
  <1>14. CursorsInv'
    BY <1>13 DEF IndInv, CursorsInv
  <1>15. DrawsInv'
    BY <1>13 DEF IndInv, DrawsInv
  <1> QED BY <1>8, <1>9, <1>10, <1>11, <1>12, <1>14, <1>15 DEF IndInv

\* A step that moves one thread, and takes or gives the lock of nobody else, keeps
\* what the states and the generators are.
LEMMA OnlyMoves ==
    ASSUME IndInv, NEW t \in Threads, NEW where, Goto(t, where),
           (where \in Getting => Ready(ProcessOf[t])), where \notin {"use", "long_jump_write"},
           place[t] # "seed_last",
           UNCHANGED <<alive, global, ret, cursor, seeded, draws>>
    PROVE  NoJumps' /\ TornInv' /\ RetInv' /\ SourcesInv' /\ CursorsInv' /\ DrawsInv'
  <1> USE XoshiroAssumption
  <1>1. \A u \in Threads : place'[u] = IF u = t THEN where ELSE place[u]
    BY DEF Goto, IndInv, TypeOK
  <1>2. \A q \in Processes : Ready(q)' => Ready(q)
    BY <1>1 DEF Ready
  <1>3. \A q \in Processes : Source(q)' => Source(q)
    BY <1>2 DEF Source
  <1>4. \A x : Taken(x) => Taken(x)'
    BY <1>3 DEF Taken
  <1>5. NoJumps' /\ RetInv'
    BY <1>1 DEF IndInv, NoJumps, RetInv
  <1>6. TornInv'
    BY <1>1, <1>2 DEF IndInv, TornInv
  <1>7. SourcesInv'
    BY <1>3 DEF IndInv, SourcesInv
  <1>8. CursorsInv'
    BY <1>1, <1>4 DEF IndInv, CursorsInv
  <1>9. DrawsInv'
    BY <1>1, <1>4 DEF IndInv, DrawsInv
  <1> QED BY <1>5, <1>6, <1>7, <1>8, <1>9

\* In the first process, a thread may take at once.
LEMMA BeginKeeps == ASSUME IndInv, NEW t \in Threads, Begin(t) PROVE IndInv'
  <1> USE XoshiroAssumption
  <1>1. PICK where \in {"seed", "get"} : Goto(t, where) /\ (where = "get" => ProcessOf[t] = Main)
    BY DEF Begin
  <1>2. \A u \in Threads : place'[u] = IF u = t THEN where ELSE place[u]
    BY <1>1 DEF Goto, IndInv, TypeOK
  <1>3. /\ place[t] = "idle" /\ ProcessOf[t] \in alive
        /\ UNCHANGED <<alive, global, lock, ret, cursor, seeded, draws>>
    BY DEF Begin, At
  <1>4. NoJumps' /\ TornInv' /\ RetInv' /\ SourcesInv' /\ CursorsInv' /\ DrawsInv'
    <2>1. Ready(Main)
      BY DEF Ready
    <2> QED BY <1>1, <1>3, <2>1, OnlyMoves DEF Getting
  <1>5. TypeOK'
    <2>1. place' \in [Threads -> {"idle", "seed", "seeding", "seed_last", "get", "long_jump",
                               "long_jump_write", "use"}]
      BY <1>1 DEF Goto, IndInv, TypeOK
    <2> QED BY <2>1, <1>2, <1>3 DEF IndInv, TypeOK
  <1>6. LockInv'
    BY <1>2, <1>3 DEF IndInv, LockInv, Inside
  <1> QED BY <1>4, <1>5, <1>6 DEF IndInv

\* The lock is taken when it is free.
LEMMA LockTaken ==
    ASSUME IndInv, NEW t \in Threads, NEW where \in Inside,
           Goto(t, where), Lock(ProcessOf[t], t), ProcessOf[t] \in alive,
           UNCHANGED <<alive, global, ret, cursor, seeded, draws>>
    PROVE  TypeOK' /\ LockInv'
  <1> USE XoshiroAssumption
  <1>1. \A u \in Threads : place'[u] = IF u = t THEN where ELSE place[u]
    BY DEF Goto, IndInv, TypeOK
  <1>2. \A p \in Processes : lock'[p] = IF p = ProcessOf[t] THEN {t} ELSE lock[p]
    BY DEF Lock, HeldBy, IndInv, TypeOK
  <1>3. /\ place' \in [Threads -> {"idle", "seed", "seeding", "seed_last", "get", "long_jump",
                                "long_jump_write", "use"}]
        /\ lock' \in [Processes -> SUBSET Threads]
    BY DEF Goto, Lock, HeldBy, Inside, IndInv, TypeOK
  <1>4. \A u \in Threads : lock'[ProcessOf[u]] = HeldBy(u) => place'[u] \in Inside
    <2> SUFFICES ASSUME NEW u \in Threads, u # t, lock'[ProcessOf[u]] = {u}
                 PROVE  place[u] \in Inside
      BY <1>1 DEF HeldBy
    <2>1. ProcessOf[u] # ProcessOf[t]
      BY <1>2
    <2> QED BY <1>2, <2>1 DEF IndInv, TypeOK, HeldBy, Inside
  <1>5. TypeOK'
    BY <1>3, <1>4 DEF IndInv, TypeOK, Inside
  <1>6. \A u \in Threads : place'[u] \in Inside => lock'[ProcessOf[u]] = HeldBy(u)
    <2> SUFFICES ASSUME NEW u \in Threads, u # t, place[u] \in Inside
                 PROVE  lock'[ProcessOf[u]] = {u}
      BY <1>1, <1>2 DEF HeldBy
    <2>1. lock[ProcessOf[u]] = {u}
      BY DEF IndInv, LockInv, HeldBy
    <2>2. lock[ProcessOf[t]] = {}
      BY DEF Lock, Free
    <2> QED BY <1>2, <2>1, <2>2
  <1>7. \A u \in Threads : place'[u] # "idle" => ProcessOf[u] \in alive'
    BY <1>1 DEF IndInv, LockInv
  <1>8. \A p \in alive' : \A u \in lock'[p] : ProcessOf[u] \in {p, Main}
    BY <1>2 DEF IndInv, LockInv, TypeOK
  <1> QED BY <1>5, <1>6, <1>7, <1>8 DEF LockInv

\* xoshiro_seed_global_state takes the lock.
LEMMA SeedLockKeeps == ASSUME IndInv, NEW t \in Threads, SeedLock(t) PROVE IndInv'
  <1>1. TypeOK' /\ LockInv'
    BY LockTaken DEF SeedLock, At, Inside
  <1>2. NoJumps' /\ TornInv' /\ RetInv' /\ SourcesInv' /\ CursorsInv' /\ DrawsInv'
    BY OnlyMoves DEF SeedLock, At, Getting
  <1> QED BY <1>1, <1>2 DEF IndInv

\* xoshiro_get takes it.
LEMMA GetLockKeeps == ASSUME IndInv, NEW t \in Threads, GetLock(t) PROVE IndInv'
  <1>1. TypeOK' /\ LockInv'
    BY LockTaken DEF GetLock, At, Inside
  <1>2. Ready(ProcessOf[t])
    BY DEF GetLock, At, Ready, Getting
  <1>3. NoJumps' /\ TornInv' /\ RetInv' /\ SourcesInv' /\ CursorsInv' /\ DrawsInv'
    BY <1>2, OnlyMoves DEF GetLock, At
  <1> QED BY <1>1, <1>3 DEF IndInv

\* A step inside the lock of its process leaves the locks alone.
LEMMA StillInside ==
    ASSUME IndInv, NEW t \in Threads, NEW where \in Inside, Goto(t, where),
           place[t] \in Inside, ProcessOf[t] \in alive, UNCHANGED <<alive, lock>>
    PROVE  /\ place' \in [Threads -> {"idle", "seed", "seeding", "seed_last", "get", "long_jump",
                                   "long_jump_write", "use"}]
           /\ \A u \in Threads : place'[u] = IF u = t THEN where ELSE place[u]
           /\ \A u \in Threads : lock'[ProcessOf[u]] = HeldBy(u) => place'[u] \in Inside
           /\ LockInv'
  <1>1. \A u \in Threads : place'[u] = IF u = t THEN where ELSE place[u]
    BY DEF Goto, IndInv, TypeOK
  <1>2. place' \in [Threads -> {"idle", "seed", "seeding", "seed_last", "get", "long_jump",
                            "long_jump_write", "use"}]
    BY DEF Goto, Inside, IndInv, TypeOK
  <1>3. \A u \in Threads : lock'[ProcessOf[u]] = HeldBy(u) => place'[u] \in Inside
    BY <1>1 DEF IndInv, TypeOK, Inside
  <1>4. LockInv'
    BY <1>1 DEF IndInv, LockInv, Inside
  <1> QED BY <1>1, <1>2, <1>3, <1>4

\* While a state is half written, the thread that seeds holds the lock.
LEMMA SeedFirstKeeps == ASSUME IndInv, NEW t \in Threads, SeedFirst(t) PROVE IndInv'
  <1> USE XoshiroAssumption
  <1> DEFINE p == ProcessOf[t]
  <1>1. /\ place[t] = "seeding" /\ Goto(t, "seed_last") /\ p \in alive /\ p \in Processes
        /\ UNCHANGED <<alive, lock, ret, cursor, seeded, draws>>
    BY DEF SeedFirst, At
  <1>2. /\ place' \in [Threads -> {"idle", "seed", "seeding", "seed_last", "get", "long_jump",
                                "long_jump_write", "use"}]
        /\ \A u \in Threads : place'[u] = IF u = t THEN "seed_last" ELSE place[u]
        /\ \A u \in Threads : lock'[ProcessOf[u]] = HeldBy(u) => place'[u] \in Inside
        /\ LockInv'
    BY <1>1, StillInside DEF Inside
  <1>3. \A q \in Processes : global'[q] = IF q = p THEN Torn ELSE global[q]
    BY DEF SeedFirst, IndInv, TypeOK
  <1>4. Torn \in Position /\ Torn.torn /\ Torn.jump = 0 /\ Torn.seed = FirstSeed
    BY DEF Torn, Position
  <1>5. TypeOK'
    <2>1. global' \in [Processes -> Position]
      BY <1>4 DEF SeedFirst, IndInv, TypeOK
    <2> QED BY <2>1, <1>1, <1>2 DEF IndInv, TypeOK, Inside
  <1>6. \A q \in Processes : Ready(q)' => Ready(q)
    BY <1>2 DEF Ready, Getting
  <1>7. \A q \in Processes : Source(q)' => Source(q) /\ q # p
    BY <1>3, <1>4, <1>6 DEF Source
  <1>8. \A x : Taken(x) => Taken(x)'
    BY <1>1, <1>3, <1>7 DEF Taken
  <1>9. NoJumps'
    BY <1>1, <1>3, <1>4 DEF IndInv, NoJumps
  <1>10. TornInv'
    BY <1>1, <1>2, <1>3, <1>6 DEF IndInv, TornInv
  <1>11. RetInv'
    <2> SUFFICES ASSUME NEW u \in Threads, place'[u] = "long_jump_write"
                 PROVE  ret'[u] = global'[ProcessOf[u]]
      BY DEF RetInv
    <2>1. place[u] = "long_jump_write" /\ u # t
      BY <1>2
    <2>2. ProcessOf[u] # p
      BY <1>1, <2>1, Excluded DEF IndInv, Inside
    <2> QED BY <1>1, <1>3, <2>1, <2>2 DEF IndInv, RetInv
  <1>12. SourcesInv'
    BY <1>1, <1>3, <1>4, <1>7 DEF IndInv, SourcesInv
  <1>13. CursorsInv'
    BY <1>1, <1>2, <1>8 DEF IndInv, CursorsInv
  <1>14. DrawsInv'
    BY <1>1, <1>2, <1>8 DEF IndInv, DrawsInv
  <1> QED BY <1>2, <1>5, <1>9, <1>10, <1>11, <1>12, <1>13, <1>14 DEF IndInv

\* The lock is given back.
LEMMA LockGiven ==
    ASSUME IndInv, NEW t \in Threads, NEW where \in {"get", "use"}, Goto(t, where),
           place[t] \in Inside, ProcessOf[t] \in alive, Unlock(ProcessOf[t]), UNCHANGED alive
    PROVE  /\ place' \in [Threads -> {"idle", "seed", "seeding", "seed_last", "get", "long_jump",
                                   "long_jump_write", "use"}]
           /\ lock' \in [Processes -> SUBSET Threads]
           /\ \A u \in Threads : place'[u] = IF u = t THEN where ELSE place[u]
           /\ \A u \in Threads : lock'[ProcessOf[u]] = HeldBy(u) => place'[u] \in Inside
           /\ LockInv'
  <1> USE XoshiroAssumption
  <1>1. \A u \in Threads : place'[u] = IF u = t THEN where ELSE place[u]
    BY DEF Goto, IndInv, TypeOK
  <1>2. \A p \in Processes : lock'[p] = IF p = ProcessOf[t] THEN {} ELSE lock[p]
    BY DEF Unlock, Free, IndInv, TypeOK
  <1>3. /\ place' \in [Threads -> {"idle", "seed", "seeding", "seed_last", "get", "long_jump",
                                "long_jump_write", "use"}]
        /\ lock' \in [Processes -> SUBSET Threads]
    BY DEF Goto, Unlock, Free, IndInv, TypeOK
  <1>4. \A u \in Threads : lock'[ProcessOf[u]] = HeldBy(u) => place'[u] \in Inside
    <2> SUFFICES ASSUME NEW u \in Threads, lock'[ProcessOf[u]] = {u} PROVE place'[u] \in Inside
      BY DEF HeldBy
    <2>1. ProcessOf[u] # ProcessOf[t] /\ u # t
      BY <1>2
    <2> QED BY <1>1, <1>2, <2>1 DEF IndInv, TypeOK, HeldBy, Inside
  <1>5. \A u \in Threads : place'[u] \in Inside => lock'[ProcessOf[u]] = HeldBy(u)
    <2> SUFFICES ASSUME NEW u \in Threads, u # t, place[u] \in Inside
                 PROVE  lock'[ProcessOf[u]] = HeldBy(u)
      BY <1>1 DEF Inside
    <2>1. ProcessOf[u] # ProcessOf[t]
      BY Excluded DEF IndInv
    <2> QED BY <1>2, <2>1 DEF IndInv, LockInv
  <1>6. \A u \in Threads : place'[u] # "idle" => ProcessOf[u] \in alive'
    BY <1>1 DEF IndInv, LockInv
  <1>7. \A p \in alive' : \A u \in lock'[p] : ProcessOf[u] \in {p, Main}
    BY <1>2 DEF IndInv, LockInv, TypeOK
  <1> QED BY <1>1, <1>3, <1>4, <1>5, <1>6, <1>7 DEF LockInv

\* A fresh seed is nobody else's, and nothing was taken from it.
LEMMA SeedLastKeeps == ASSUME IndInv, NEW t \in Threads, SeedLast(t) PROVE IndInv'
  <1> USE XoshiroAssumption
  <1> DEFINE p == ProcessOf[t]
  <1>1. /\ place[t] = "seed_last" /\ Goto(t, "get") /\ p \in alive /\ p \in Processes
        /\ Unlock(p) /\ UNCHANGED <<alive, ret, cursor, draws>>
    BY DEF SeedLast, At
  <1>2. /\ place' \in [Threads -> {"idle", "seed", "seeding", "seed_last", "get", "long_jump",
                                "long_jump_write", "use"}]
        /\ lock' \in [Processes -> SUBSET Threads]
        /\ \A u \in Threads : place'[u] = IF u = t THEN "get" ELSE place[u]
        /\ \A u \in Threads : lock'[ProcessOf[u]] = HeldBy(u) => place'[u] \in Inside
        /\ LockInv'
    BY <1>1, LockGiven DEF Inside
  <1>3. PICK seed \in Seeds \ seeded :
            /\ seeded' = seeded \cup {seed}
            /\ global' = [global EXCEPT ![p] = SeedState(seed)]
    BY DEF SeedLast
  <1>4. /\ SeedState(seed) \in Position /\ ~SeedState(seed).torn
        /\ SeedState(seed).jump = 0 /\ SeedState(seed).seed = seed
    BY DEF SeedState, Position
  <1>5. \A q \in Processes : global'[q] = IF q = p THEN SeedState(seed) ELSE global[q]
    BY <1>3 DEF IndInv, TypeOK
  <1>6. TypeOK'
    <2>1. global' \in [Processes -> Position] /\ seeded' \subseteq Seeds
      BY <1>3, <1>4 DEF IndInv, TypeOK
    <2> QED BY <2>1, <1>1, <1>2 DEF IndInv, TypeOK, Inside
  <1>7. \A q \in Processes : q # p => (Ready(q)' <=> Ready(q))
    BY <1>2 DEF Ready, Getting
  <1>8. \A q \in Processes : q # p => (Source(q)' <=> Source(q))
    BY <1>5, <1>7 DEF Source
  <1>9. \A x : Taken(x) => Taken(x)'
    BY <1>3, <1>4, <1>5, <1>8 DEF Taken
  <1>10. NoJumps'
    BY <1>1, <1>4, <1>5 DEF IndInv, NoJumps
  <1>11. TornInv'
    BY <1>1, <1>2, <1>4, <1>5, <1>7 DEF IndInv, TornInv
  <1>12. RetInv'
    <2> SUFFICES ASSUME NEW u \in Threads, place'[u] = "long_jump_write"
                 PROVE  ret'[u] = global'[ProcessOf[u]]
      BY DEF RetInv
    <2>1. place[u] = "long_jump_write" /\ u # t
      BY <1>2
    <2>2. ProcessOf[u] # p
      BY <1>1, <2>1, Excluded DEF IndInv, Inside
    <2> QED BY <1>1, <1>5, <2>1, <2>2 DEF IndInv, RetInv
  <1>13. SourcesInv'
    BY <1>3, <1>4, <1>5, <1>8 DEF IndInv, SourcesInv
  <1>14. CursorsInv'
    BY <1>1, <1>2, <1>9 DEF IndInv, CursorsInv
  <1>15. DrawsInv'
    BY <1>1, <1>2, <1>9 DEF IndInv, DrawsInv
  <1> QED BY <1>2, <1>6, <1>10, <1>11, <1>12, <1>13, <1>14, <1>15 DEF IndInv

\* The snapshot is read with the lock held.
LEMMA LongJumpReadKeeps == ASSUME IndInv, NEW t \in Threads, LongJumpRead(t) PROVE IndInv'
  <1> USE XoshiroAssumption
  <1>1. /\ place[t] = "long_jump" /\ Goto(t, "long_jump_write") /\ ProcessOf[t] \in alive
        /\ UNCHANGED <<alive, global, lock, cursor, seeded, draws>>
    BY DEF LongJumpRead, At
  <1>2. /\ place' \in [Threads -> {"idle", "seed", "seeding", "seed_last", "get", "long_jump",
                                "long_jump_write", "use"}]
        /\ \A u \in Threads : place'[u] = IF u = t THEN "long_jump_write" ELSE place[u]
        /\ \A u \in Threads : lock'[ProcessOf[u]] = HeldBy(u) => place'[u] \in Inside
        /\ LockInv'
    BY <1>1, StillInside DEF Inside
  <1>3. \A u \in Threads : ret'[u] = IF u = t THEN global[ProcessOf[t]] ELSE ret[u]
    BY DEF LongJumpRead, IndInv, TypeOK
  <1>4. TypeOK'
    <2>1. ret' \in [Threads -> Position]
      BY DEF LongJumpRead, IndInv, TypeOK
    <2> QED BY <2>1, <1>1, <1>2 DEF IndInv, TypeOK, Inside
  <1>5. \A q \in Processes : Ready(q)' <=> Ready(q)
    BY <1>1, <1>2 DEF Ready, Getting
  <1>6. \A q \in Processes : Source(q)' <=> Source(q)
    BY <1>1, <1>5 DEF Source
  <1>7. \A x : Taken(x) => Taken(x)'
    BY <1>1, <1>6 DEF Taken
  <1>8. NoJumps' /\ RetInv'
    BY <1>1, <1>2, <1>3 DEF IndInv, NoJumps, RetInv
  <1>9. TornInv'
    BY <1>1, <1>2, <1>5 DEF IndInv, TornInv
  <1>10. SourcesInv'
    BY <1>1, <1>6 DEF IndInv, SourcesInv
  <1>11. CursorsInv'
    BY <1>1, <1>2, <1>7 DEF IndInv, CursorsInv
  <1>12. DrawsInv'
    BY <1>1, <1>2, <1>7 DEF IndInv, DrawsInv
  <1> QED BY <1>2, <1>4, <1>8, <1>9, <1>10, <1>11, <1>12 DEF IndInv

\* The generator of the thread starts where nobody was, and the state goes past it.
LEMMA LongJumpWriteKeeps == ASSUME IndInv, NEW t \in Threads, LongJumpWrite(t) PROVE IndInv'
  <1> USE XoshiroAssumption
  <1> DEFINE p == ProcessOf[t]
  <1>t. PICK taken \in Position : taken = ret[t]
    BY DEF IndInv, TypeOK
  <1>n. PICK next : next = [taken EXCEPT !.long = @ + 1]
    OBVIOUS
  <1>1. /\ place[t] = "long_jump_write" /\ Goto(t, "use") /\ p \in alive /\ p \in Processes
        /\ Unlock(p) /\ UNCHANGED <<alive, seeded, draws>>
    BY DEF LongJumpWrite, At
  <1>2. /\ place' \in [Threads -> {"idle", "seed", "seeding", "seed_last", "get", "long_jump",
                                "long_jump_write", "use"}]
        /\ lock' \in [Processes -> SUBSET Threads]
        /\ \A u \in Threads : place'[u] = IF u = t THEN "use" ELSE place[u]
        /\ \A u \in Threads : lock'[ProcessOf[u]] = HeldBy(u) => place'[u] \in Inside
        /\ LockInv'
    BY <1>1, LockGiven DEF Inside
  <1>3. taken = global[p] /\ Source(p) /\ taken \in Position /\ taken.long \in Nat /\ ~taken.torn
    BY <1>t, <1>1, Whole DEF IndInv, RetInv, TypeOK, Source, Position
  <1>4. /\ next \in Position /\ ~next.torn /\ next.long = taken.long + 1
        /\ next.seed = taken.seed /\ next.jump = taken.jump /\ taken.jump = 0
    BY <1>t, <1>n, <1>3 DEF Position, IndInv, NoJumps
  <1>5. Unset \in Position /\ Unset.jump = 0
    BY DEF Unset, SeedState, Position
  <1>6. /\ \A q \in Processes : global'[q] = IF q = p THEN next ELSE global[q]
        /\ \A u \in Threads : /\ cursor'[u] = IF u = t THEN taken ELSE cursor[u]
                              /\ ret'[u] = IF u = t THEN Unset ELSE ret[u]
    BY <1>t, <1>n DEF LongJumpWrite, IndInv, TypeOK
  <1>7. TypeOK'
    <2>1. /\ global' \in [Processes -> Position]
          /\ ret' \in [Threads -> Position] /\ cursor' \in [Threads -> Position]
      BY <1>t, <1>n, <1>3, <1>4, <1>5 DEF LongJumpWrite, IndInv, TypeOK
    <2>2. \A u \in Threads : cursor'[u].jump <= MaxJumps
      BY <1>4, <1>6 DEF IndInv, TypeOK
    <2> QED BY <2>1, <2>2, <1>1, <1>2 DEF IndInv, TypeOK, Inside
  <1>8. \A q \in Processes : Ready(q)' => Ready(q)
    BY <1>2 DEF Ready, Getting
  <1>9. \A q \in Processes : Source(q)' => Source(q)
    BY <1>3, <1>6, <1>8 DEF Source
  <1>10. \A x : (x.long \in Nat /\ Taken(x)) => Taken(x)'
    BY <1>1, <1>3, <1>4, <1>6, <1>9 DEF Taken
  <1>11. Taken(taken)'
    <2>1. taken.seed \in seeded'
      BY <1>1, <1>3 DEF IndInv, SourcesInv
    <2> SUFFICES ASSUME NEW q \in Processes, Source(q)', global'[q].seed = taken.seed
                 PROVE  taken.long < global'[q].long
      BY <2>1 DEF Taken
    <2>2. q = p
      BY <1>3, <1>6, <1>9 DEF IndInv, SourcesInv
    <2> QED BY <2>2, <1>3, <1>4, <1>6
  <1>12. NoJumps'
    BY <1>4, <1>5, <1>6, <1>3 DEF IndInv, NoJumps
  <1>13. TornInv'
    BY <1>1, <1>2, <1>4, <1>6, <1>8 DEF IndInv, TornInv
  <1>14. RetInv'
    <2> SUFFICES ASSUME NEW u \in Threads, place'[u] = "long_jump_write"
                 PROVE  ret'[u] = global'[ProcessOf[u]]
      BY DEF RetInv
    <2>1. place[u] = "long_jump_write" /\ u # t
      BY <1>2
    <2>2. ProcessOf[u] # p
      BY <1>1, <2>1, Excluded DEF IndInv, Inside
    <2> QED BY <1>6, <2>1, <2>2 DEF IndInv, RetInv
  <1>15. SourcesInv'
    BY <1>1, <1>3, <1>4, <1>6, <1>9 DEF IndInv, SourcesInv
  <1>16. CursorsInv'
    <2>1. \A u \in Threads : place'[u] = "use" /\ u # t =>
             /\ place[u] = "use" /\ cursor'[u] = cursor[u]
             /\ cursor[u].long \in Nat /\ Taken(cursor[u])
             /\ cursor[u].seed = taken.seed => cursor[u].long < taken.long
      BY <1>2, <1>3, <1>6 DEF IndInv, TypeOK, Position, CursorsInv, Taken
    <2>2. ASSUME NEW u \in Threads, place'[u] = "use" PROVE ~cursor'[u].torn /\ Taken(cursor[u])'
      <3>1. CASE u = t
        <4>1. cursor'[u] = taken
          BY <3>1, <1>6
        <4> QED BY <4>1, <1>3, <1>11 DEF Taken
      <3>2. CASE u # t
        <4> PICK x : x = cursor[u]
          OBVIOUS
        <4>1. Taken(x)' /\ cursor'[u] = x
          BY <2>1, <2>2, <3>2, <1>10
        <4>2. ~cursor'[u].torn
          BY <2>1, <2>2, <3>2 DEF IndInv, CursorsInv
        <4> QED BY <4>1, <4>2 DEF Taken
      <3> QED BY <3>1, <3>2
    <2>3. ASSUME NEW u \in Threads, NEW v \in Threads, place'[u] = "use", place'[v] = "use", u # v
          PROVE  ~(cursor'[u].seed = cursor'[v].seed /\ cursor'[u].long = cursor'[v].long)
      <3>1. CASE u # t /\ v # t
        BY <2>1, <2>3, <3>1 DEF IndInv, CursorsInv
      <3>2. CASE u = t
        BY <2>1, <2>3, <3>2, <1>3, <1>6
      <3>3. CASE v = t
        BY <2>1, <2>3, <3>3, <1>3, <1>6
      <3> QED BY <3>1, <3>2, <3>3
    <2> QED BY <2>2, <2>3 DEF CursorsInv
  <1>17. DrawsInv'
    <2> SUFFICES ASSUME NEW x \in DOMAIN draws
                 PROVE  /\ draws[x] = 1 /\ x \in Position /\ Taken(x)'
                        /\ \A u \in Threads :
                              place'[u] = "use" /\ cursor'[u].seed = x.seed /\ cursor'[u].long = x.long
                                => x.jump < cursor'[u].jump
      BY <1>1 DEF DrawsInv
    <2>1. draws[x] = 1 /\ x \in Position /\ x.long \in Nat /\ Taken(x)
      BY DEF IndInv, DrawsInv, Position
    <2>2. x.seed = taken.seed => x.long < taken.long
      BY <2>1, <1>3 DEF Taken
    <2>3. ASSUME NEW u \in Threads, place'[u] = "use", cursor'[u].seed = x.seed, cursor'[u].long = x.long
          PROVE  x.jump < cursor'[u].jump
      <3>1. u # t
        BY <2>1, <2>2, <2>3, <1>3, <1>6
      <3> QED BY <2>3, <3>1, <1>2, <1>6 DEF IndInv, DrawsInv
    <2> QED BY <2>1, <2>3, <1>10
  <1> QED BY <1>2, <1>7, <1>12, <1>13, <1>14, <1>15, <1>16, <1>17 DEF IndInv

\* What is read is new: what was read of this part is behind, and the other
\* generators are in other parts.
LEMMA JumpKeeps == ASSUME IndInv, NEW t \in Threads, Jump(t) PROVE IndInv'
  <1> USE XoshiroAssumption
  <1> PICK x \in Position : x = cursor[t]
    BY DEF IndInv, TypeOK
  <1> PICK y : y = Advanced(x)
    OBVIOUS
  <1>1. /\ place[t] = "use" /\ x.jump < MaxJumps
        /\ UNCHANGED <<alive, global, lock, place, ret, seeded>>
    BY DEF Jump, At
  <1>2. /\ x.jump \in Nat /\ x.long \in Nat /\ y \in Position /\ y.jump = x.jump + 1
        /\ y.seed = x.seed /\ y.long = x.long /\ y.torn = x.torn
    BY DEF Position, Advanced
  <1>3. \A u \in Threads : cursor'[u] = IF u = t THEN y ELSE cursor[u]
    BY DEF Jump, IndInv, TypeOK
  <1>4. TypeOK'
    <2>1. cursor' \in [Threads -> Position]
      BY <1>2 DEF Jump, IndInv, TypeOK
    <2>2. \A u \in Threads : cursor'[u].jump <= MaxJumps
      BY <1>1, <1>2, <1>3 DEF IndInv, TypeOK
    <2> QED BY <1>1, <2>1, <2>2 DEF IndInv, TypeOK
  <1>5. NoJumps' /\ LockInv' /\ RetInv'
    BY <1>1 DEF IndInv, NoJumps, LockInv, RetInv
  <1>6. \A q \in Processes : (Ready(q)' <=> Ready(q)) /\ (Source(q)' <=> Source(q))
    BY <1>1 DEF Source, Ready
  <1>7. TornInv' /\ SourcesInv'
    BY <1>1, <1>6 DEF IndInv, TornInv, SourcesInv
  <1>8. \A z : Taken(z) => Taken(z)'
    BY <1>1, <1>6 DEF Taken
  <1>9. Taken(x) /\ ~x.torn
    BY <1>1 DEF IndInv, CursorsInv
  <1>10. CursorsInv'
    <2>1. ASSUME NEW u \in Threads, place'[u] = "use" PROVE ~cursor'[u].torn /\ Taken(cursor[u])'
      <3> PICK z : z = cursor'[u]
        OBVIOUS
      <3>1. Taken(z) /\ ~z.torn
        BY <2>1, <1>1, <1>2, <1>3, <1>9 DEF IndInv, CursorsInv, Taken
      <3> QED BY <3>1, <1>8 DEF Taken
    <2> QED BY <2>1, <1>1, <1>2, <1>3 DEF IndInv, CursorsInv
  <1>11. x \notin DOMAIN draws
    BY <1>1, <1>2 DEF IndInv, DrawsInv
  <1>12. DOMAIN draws' = DOMAIN draws \cup {x} /\ draws'[x] = 1
         /\ \A z \in DOMAIN draws : draws'[z] = draws[z]
    BY <1>11 DEF Jump, Read
  <1>13. DrawsInv'
    <2> SUFFICES ASSUME NEW z \in DOMAIN draws \cup {x}
                 PROVE  /\ draws'[z] = 1 /\ z \in Position /\ Taken(z)'
                        /\ \A u \in Threads :
                              place'[u] = "use" /\ cursor'[u].seed = z.seed /\ cursor'[u].long = z.long
                                => z.jump < cursor'[u].jump
      BY <1>12 DEF DrawsInv
    <2>1. draws'[z] = 1 /\ z \in Position /\ Taken(z)'
      BY <1>8, <1>9, <1>12 DEF IndInv, DrawsInv
    <2>2. ASSUME NEW u \in Threads, place[u] = "use", cursor'[u].seed = z.seed, cursor'[u].long = z.long
          PROVE  z.jump < cursor'[u].jump
      <3>1. CASE u = t
        <4>1. z = x \/ z.jump < x.jump
          BY <2>2, <3>1, <1>1, <1>2, <1>3 DEF IndInv, DrawsInv
        <4> QED BY <3>1, <4>1, <2>1, <1>2, <1>3 DEF Position
      <3>2. CASE u # t
        <4>1. z # x
          BY <2>2, <3>2, <1>1, <1>3 DEF IndInv, CursorsInv
        <4> QED BY <2>2, <3>2, <4>1, <1>3 DEF IndInv, DrawsInv
      <3> QED BY <3>1, <3>2
    <2> QED BY <1>1, <2>1, <2>2
  <1> QED BY <1>4, <1>5, <1>7, <1>10, <1>13 DEF IndInv

\* A generator that is dropped claims nothing any more.
LEMMA DestroyKeeps == ASSUME IndInv, NEW t \in Threads, Destroy(t) PROVE IndInv'
  <1> USE XoshiroAssumption
  <1>1. /\ place[t] = "use" /\ ProcessOf[t] \in alive
        /\ UNCHANGED <<alive, global, lock, ret, seeded, draws>>
    BY DEF Destroy, At
  <1>2. \A u \in Threads : /\ place'[u] = IF u = t THEN "idle" ELSE place[u]
                           /\ u # t => cursor'[u] = cursor[u]
    BY DEF Destroy, Goto, IndInv, TypeOK
  <1>3. Unset \in Position /\ Unset.jump = 0
    BY DEF Unset, SeedState, Position
  <1>4. TypeOK'
    <2>1. cursor' \in [Threads -> Position] /\ \A u \in Threads : cursor'[u].jump <= MaxJumps
      BY <1>3 DEF Destroy, IndInv, TypeOK
    <2>2. place' \in [Threads -> {"idle", "seed", "seeding", "seed_last", "get", "long_jump",
                              "long_jump_write", "use"}]
      BY DEF Destroy, Goto, IndInv, TypeOK
    <2> QED BY <2>1, <2>2, <1>1, <1>2 DEF IndInv, TypeOK
  <1>5. NoJumps' /\ LockInv' /\ RetInv'
    BY <1>1, <1>2 DEF IndInv, NoJumps, LockInv, RetInv, Inside
  <1>6. \A q \in Processes : (Ready(q)' <=> Ready(q))
    BY <1>1, <1>2 DEF Ready, Getting
  <1>7. \A q \in Processes : (Source(q)' <=> Source(q))
    BY <1>1, <1>6 DEF Source
  <1>8. TornInv' /\ SourcesInv'
    BY <1>1, <1>2, <1>6, <1>7 DEF IndInv, TornInv, SourcesInv
  <1>9. \A z : Taken(z) => Taken(z)'
    BY <1>1, <1>7 DEF Taken
  <1>10. CursorsInv'
    <2>1. ASSUME NEW u \in Threads, place'[u] = "use" PROVE ~cursor'[u].torn /\ Taken(cursor[u])'
      <3> PICK z : z = cursor'[u]
        OBVIOUS
      <3>1. Taken(z) /\ ~z.torn
        BY <2>1, <1>2 DEF IndInv, CursorsInv
      <3> QED BY <3>1, <1>9 DEF Taken
    <2> QED BY <2>1, <1>2 DEF IndInv, CursorsInv
  <1>11. DrawsInv'
    BY <1>1, <1>2, <1>9 DEF IndInv, DrawsInv
  <1> QED BY <1>4, <1>5, <1>8, <1>10, <1>11 DEF IndInv

-----------------------------------------------------------------------------
(* The theorems about the generators. *)

\* The generators of all processes keep what they are for.
THEOREM XoshiroInvariant == XoshiroSpec => []IndInv
  <1>1. ASSUME IndInv, UNCHANGED xoshiro_vars PROVE IndInv'
    BY <1>1 DEF xoshiro_vars, IndInv, TypeOK, NoJumps, LockInv, Ready, TornInv, RetInv, Source, SourcesInv,
                Taken, CursorsInv, DrawsInv
  <1>2. ASSUME IndInv, XoshiroNext PROVE IndInv'
    BY <1>2, ForkKeeps, BeginKeeps, SeedLockKeeps, SeedFirstKeeps, SeedLastKeeps, GetLockKeeps,
       LongJumpReadKeeps, LongJumpWriteKeeps, JumpKeeps, DestroyKeeps DEF XoshiroNext
  <1> QED BY <1>1, <1>2, XoshiroInitHolds, PTL DEF XoshiroSpec

\* Whatever threads and processes interleave, and wherever a process is forked
\* from, no substream is read twice and none comes from a state half written.
THEOREM SubstreamsAreReadOnce == XoshiroSpec => []NoSharedStream
  <1>1. IndInv => NoSharedStream
    BY DEF IndInv, CursorsInv, DrawsInv, NoSharedStream
  <1> QED BY <1>1, XoshiroInvariant, PTL

=============================================================================
