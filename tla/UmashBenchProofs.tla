---------------------------- MODULE UmashBenchProofs ----------------------------
(***************************************************************************)
(* A comparison measures the lengths of the whole trace, and gives each of *)
(* both versions one timing of each length it measures, under its name.    *)
(***************************************************************************)
EXTENDS UmashBench, FiniteSetTheorems, WellFoundedInduction, TLAPS

(* Induction, enumerations and sums, for sets and functions.               *)

\* The natural numbers are in every set that has 0 and the successors of its own.
LEMMA SetOfNaturals ==
    ASSUME NEW S, 0 \in S, \A n \in Nat : n \in S => n + 1 \in S
    PROVE  \A n \in Nat : n \in S
  <1> DEFINE Missing == Nat \ S
             Less == OpToRel(<, Nat)
  <1> SUFFICES ASSUME Missing # {}
               PROVE  FALSE
    OBVIOUS
  <1>1. IsWellFoundedOn(Less, Nat)
    BY NatLessThanWellFounded
  <1>2. Missing \subseteq Nat
    OBVIOUS
  <1> HIDE DEF Missing, Less
  <1>3. PICK n \in Missing : \A k \in Missing : <<k, n>> \notin Less
    BY <1>1, <1>2, WFMin
  <1> USE DEF Missing
  <1>4. n \in Nat /\ n # 0
    OBVIOUS
  <1>5. n - 1 \in Nat /\ n - 1 < n /\ (n - 1) + 1 = n
    BY <1>4
  <1>6. <<n - 1, n>> \in Less
    BY <1>4, <1>5 DEF Less, OpToRel
  <1>7. n - 1 \in S
    BY <1>3, <1>5, <1>6
  <1> QED BY <1>5, <1>7

\* What bijections are.
LEMMA BijectionIs ==
    ASSUME NEW S, NEW T, NEW f
    PROVE  f \in Bijection(S, T) <=> /\ f \in [S -> T]
                                     /\ \A x, y \in S : f[x] = f[y] => x = y
                                     /\ \A t \in T : \E x \in S : f[x] = t
  BY DEF Bijection, Injection, Surjection, IsInjective

\* A finite set with a strict total order has an increasing enumeration.
LEMMA Enumeration ==
    ASSUME NEW S, IsFiniteSet(S), NEW R,
           \A x \in S : <<x, x>> \notin R,
           \A x, y \in S : x # y => <<x, y>> \in R \/ <<y, x>> \in R,
           \A x, y, z \in S : <<x, y>> \in R /\ <<y, z>> \in R => <<x, z>> \in R
    PROVE  \E o \in Bijection(1 .. Cardinality(S), S) :
               \A p, q \in 1 .. Cardinality(S) : p < q => <<o[p], o[q]>> \in R
  <1> DEFINE n == Cardinality(S)
             Below(x) == {y \in S : <<y, x>> \in R}
             rank == [x \in S |-> Cardinality(Below(x)) + 1]
  <1>1. n \in Nat
    BY FS_CardinalityType
  <1>2. ASSUME NEW x \in S
        PROVE  IsFiniteSet(Below(x)) /\ Cardinality(Below(x)) \in Nat /\ Cardinality(Below(x)) < n
    <2>1. IsFiniteSet(S \ {x}) /\ Cardinality(S \ {x}) = n - 1
      BY FS_RemoveElement
    <2>2. Below(x) \in SUBSET (S \ {x})
      OBVIOUS
    <2> HIDE DEF Below, n
    <2>3. IsFiniteSet(Below(x)) /\ Cardinality(Below(x)) <= n - 1
      BY <2>1, <2>2, FS_Subset
    <2>4. Cardinality(Below(x)) \in Nat
      BY <2>3, FS_CardinalityType
    <2> QED BY <1>1, <2>3, <2>4
  <1>3. rank \in [S -> 1 .. n]
    <2> SUFFICES ASSUME NEW x \in S
                 PROVE  Cardinality(Below(x)) + 1 \in 1 .. n
      OBVIOUS
    <2> HIDE DEF Below, n
    <2> QED BY <1>1, <1>2
  <1>4. ASSUME NEW x \in S, NEW y \in S, <<x, y>> \in R
        PROVE  rank[x] < rank[y]
    <2>1. x \notin Below(x)
      OBVIOUS
    <2>2. Cardinality(Below(x) \cup {x}) = Cardinality(Below(x)) + 1
      BY <1>2, <2>1, FS_AddElement
    <2>3. Below(x) \cup {x} \in SUBSET Below(y)
      BY <1>4
    <2>4. Cardinality(Below(x) \cup {x}) <= Cardinality(Below(y))
      BY <1>2, <2>3, FS_Subset
    <2>5. rank[x] = Cardinality(Below(x)) + 1 /\ rank[y] = Cardinality(Below(y)) + 1
      OBVIOUS
    <2> HIDE DEF Below, rank
    <2> QED BY <1>2, <2>2, <2>4, <2>5
  <1> HIDE DEF rank
  <1>5. \A x, y \in S : rank[x] = rank[y] => x = y
    <2> SUFFICES ASSUME NEW x \in S, NEW y \in S, rank[x] = rank[y], x # y
                 PROVE  FALSE
      OBVIOUS
    <2>1. rank[x] < rank[y] \/ rank[y] < rank[x]
      BY <1>4
    <2>2. rank[x] \in Nat /\ rank[y] \in Nat
      BY <1>1, <1>3
    <2> QED BY <2>1, <2>2
  <1>6. rank \in Injection(S, 1 .. n)
    BY <1>3, <1>5 DEF Injection, IsInjective
  <1>7. IsFiniteSet(1 .. n) /\ Cardinality(1 .. n) = n
    <2>1. IsFiniteSet(1 .. n) /\ Cardinality(1 .. n) = IF 1 > n THEN 0 ELSE n - 1 + 1
      BY <1>1, FS_Interval
    <2> HIDE DEF n
    <2> QED BY <1>1, <2>1
  <1>8. rank \in Surjection(S, 1 .. n)
    BY <1>6, <1>7, FS_Injection
  <1>9. \A p \in 1 .. n : \E x \in S : rank[x] = p
    BY <1>8 DEF Surjection
  <1> DEFINE o == [p \in 1 .. n |-> CHOOSE x \in S : rank[x] = p]
  <1>10. \A p \in 1 .. n : o[p] \in S /\ rank[o[p]] = p
    BY <1>9
  <1>11. o \in [1 .. n -> S]
    BY <1>10
  <1> HIDE DEF o, n
  <1>12. \A x \in S : rank[x] \in 1 .. n /\ o[rank[x]] = x
    BY <1>3, <1>5, <1>10
  <1>13. o \in Bijection(1 .. n, S)
    <2>1. \A p, q \in 1 .. n : o[p] = o[q] => p = q
      BY <1>10
    <2>2. \A x \in S : \E p \in 1 .. n : o[p] = x
      BY <1>12
    <2> QED BY <1>11, <2>1, <2>2, BijectionIs
  <1>14. ASSUME NEW p \in 1 .. n, NEW q \in 1 .. n, p < q
         PROVE  <<o[p], o[q]>> \in R
    <2>1. o[p] \in S /\ o[q] \in S /\ rank[o[p]] = p /\ rank[o[q]] = q
      BY <1>10
    <2>2. o[p] # o[q] /\ ~(rank[o[q]] < rank[o[p]])
      BY <1>14, <2>1
    <2> QED BY <1>4, <2>1, <2>2
  <1> QED BY <1>13, <1>14 DEF n

\* How often a function has a value.
Times(D, f, v) == Cardinality({d \in D : f[d] = v})

\* A bijection keeps it.
LEMMA TimesOfShuffled ==
    ASSUME NEW D, IsFiniteSet(D), NEW E, NEW o \in Bijection(D, E), NEW f, NEW g,
           \A d \in D : f[d] = g[o[d]]
    PROVE  \A v : Times(D, f, v) = Times(E, g, v)
  <1> SUFFICES ASSUME NEW v
               PROVE  Times(D, f, v) = Times(E, g, v)
    OBVIOUS
  <1> DEFINE S == {d \in D : f[d] = v}
             T == {e \in E : g[e] = v}
             h == [d \in S |-> o[d]]
  <1>1. IsFiniteSet(S)
    BY FS_Subset
  <1>2. h \in Bijection(S, T)
    <2>1. /\ o \in [D -> E]
          /\ \A x, y \in D : o[x] = o[y] => x = y
          /\ \A e \in E : \E x \in D : o[x] = e
      BY BijectionIs
    <2>2. h \in [S -> T]
      BY <2>1
    <2>3. \A x, y \in S : h[x] = h[y] => x = y
      BY <2>1
    <2>4. \A e \in T : \E x \in S : h[x] = e
      BY <2>1
    <2> HIDE DEF S, T, h
    <2> QED BY <2>2, <2>3, <2>4, BijectionIs
  <1>3. ExistsBijection(S, T)
    BY <1>2 DEF ExistsBijection
  <1>4. Cardinality(S) = Cardinality(T)
    BY <1>1, <1>3, FS_Bijection
  <1> QED BY <1>4 DEF Times

\* The element that a fold takes from a set, and the function it computes over the
\* sets in T when it adds values of f.
Chosen(s) == CHOOSE x \in s : TRUE
Sums(f, T, h) == h = [s \in T |-> IF s = {} THEN 0 ELSE f[Chosen(s)] + h[s \ {Chosen(s)}]]
UpTo(D, n) == {s \in SUBSET D : Cardinality(s) <= n}

\* One element less.
LEMMA OneLess ==
    ASSUME NEW D, IsFiniteSet(D), NEW n \in Nat, NEW s \in SUBSET D, NEW x \in s
    PROVE  /\ s \ {x} \in SUBSET D
           /\ Cardinality(s) \in Nat /\ Cardinality(s \ {x}) \in Nat
           /\ Cardinality(s) <= n + 1 <=> Cardinality(s \ {x}) <= n
           /\ Cardinality(s) = n + 1 <=> Cardinality(s \ {x}) = n
  <1>1. IsFiniteSet(s)
    BY FS_Subset
  <1>2. IsFiniteSet(s \ {x}) /\ Cardinality(s \ {x}) = Cardinality(s) - 1
    BY <1>1, FS_RemoveElement
  <1>3. Cardinality(s) \in Nat /\ Cardinality(s \ {x}) \in Nat
    BY <1>1, <1>2, FS_CardinalityType
  <1> QED BY <1>2, <1>3

\* The recursive function of a fold exists, for a finite set.
LEMMA SumsExist ==
    ASSUME NEW D, IsFiniteSet(D), NEW f
    PROVE  \E h : Sums(f, SUBSET D, h)
  <1> DEFINE Good == {n \in Nat : \E h : Sums(f, UpTo(D, n), h)}
  <1>1. 0 \in Good
    <2>1. \A s \in UpTo(D, 0) : s = {}
      <3> SUFFICES ASSUME NEW s \in SUBSET D, Cardinality(s) <= 0
                   PROVE  s = {}
        BY DEF UpTo
      <3>1. IsFiniteSet(s)
        BY FS_Subset
      <3>2. Cardinality(s) \in Nat
        BY <3>1, FS_CardinalityType
      <3> QED BY <3>1, <3>2, FS_EmptySet
    <2>2. Sums(f, UpTo(D, 0), [s \in UpTo(D, 0) |-> 0])
      BY <2>1 DEF Sums
    <2> QED BY <2>2
  <1>2. ASSUME NEW n \in Nat, n \in Good
        PROVE  n + 1 \in Good
    <2>1. PICK h : Sums(f, UpTo(D, n), h)
      BY <1>2
    <2> DEFINE g == [s \in UpTo(D, n + 1) |->
                        IF s = {} THEN 0 ELSE f[Chosen(s)] + h[s \ {Chosen(s)}]]
    <2>2. ASSUME NEW s \in UpTo(D, n + 1), s # {}
          PROVE  s \ {Chosen(s)} \in UpTo(D, n)
      <3>1. Chosen(s) \in s /\ s \in SUBSET D /\ Cardinality(s) <= n + 1
        BY <2>2 DEF Chosen, UpTo
      <3> QED BY <3>1, OneLess DEF UpTo
    <2>3. UpTo(D, n) \subseteq UpTo(D, n + 1)
      <3> SUFFICES ASSUME NEW s \in SUBSET D, Cardinality(s) <= n
                   PROVE  Cardinality(s) <= n + 1
        BY DEF UpTo
      <3>1. IsFiniteSet(s)
        BY FS_Subset
      <3>2. Cardinality(s) \in Nat
        BY <3>1, FS_CardinalityType
      <3> QED BY <3>2
    <2>4. ASSUME NEW s \in UpTo(D, n)
          PROVE  g[s] = h[s]
      <3>1. g[s] = IF s = {} THEN 0 ELSE f[Chosen(s)] + h[s \ {Chosen(s)}]
        BY <2>3
      <3>2. h[s] = IF s = {} THEN 0 ELSE f[Chosen(s)] + h[s \ {Chosen(s)}]
        BY <2>1 DEF Sums
      <3> QED BY <3>1, <3>2
    <2>5. \A s \in UpTo(D, n + 1) : s # {} => g[s \ {Chosen(s)}] = h[s \ {Chosen(s)}]
      BY <2>2, <2>4
    <2>6. g = [s \in UpTo(D, n + 1) |->
                  IF s = {} THEN 0 ELSE f[Chosen(s)] + g[s \ {Chosen(s)}]]
      BY <2>5
    <2>7. Sums(f, UpTo(D, n + 1), g)
      BY <2>6 DEF Sums
    <2> QED BY <2>7
  <1> HIDE DEF Good
  <1>3. Cardinality(D) \in Nat
    BY FS_CardinalityType
  <1>4. Cardinality(D) \in Good
    BY <1>1, <1>2, <1>3, SetOfNaturals
  <1>5. UpTo(D, Cardinality(D)) = SUBSET D
    BY FS_Subset DEF UpTo
  <1> QED BY <1>4, <1>5 DEF Good

\* f has natural values on a finite set, and h is the sum of each of its parts.
Summed(D, f, h) == IsFiniteSet(D) /\ f \in [D -> Nat] /\ Sums(f, SUBSET D, h)

\* The recursive function of a fold, whatever elements are chosen: it adds the
\* value of any of them to the sum of the others.
LEMMA SumsSplit ==
    ASSUME NEW D, NEW f, NEW h, Summed(D, f, h)
    PROVE  /\ h[{}] = 0
           /\ \A s \in SUBSET D : h[s] \in Nat /\ \A x \in s : f[x] \in Nat /\ h[s] = f[x] + h[s \ {x}]
  <1> DEFINE Splits(s) == h[s] \in Nat /\ \A x \in s : f[x] \in Nat /\ h[s] = f[x] + h[s \ {x}]
             Good == {n \in Nat : \A s \in SUBSET D : Cardinality(s) <= n => Splits(s)}
  <1> USE DEF Summed
  <1>0. \A s \in SUBSET D : IsFiniteSet(s) /\ Cardinality(s) \in Nat
    BY FS_Subset, FS_CardinalityType
  <1>1. h[{}] = 0
    BY DEF Sums
  <1>2. 0 \in Good
    <2> SUFFICES ASSUME NEW s \in SUBSET D, Cardinality(s) <= 0
                 PROVE  Splits(s)
      OBVIOUS
    <2>1. s = {}
      BY <1>0, FS_EmptySet
    <2> QED BY <1>1, <2>1
  <1>3. ASSUME NEW n \in Nat, n \in Good
        PROVE  n + 1 \in Good
    <2> SUFFICES \A s \in SUBSET D : Cardinality(s) <= n + 1 => Splits(s)
      <3> HIDE DEF Splits
      <3> QED OBVIOUS
    <2> TAKE s \in SUBSET D
    <2> HAVE Cardinality(s) <= n + 1
    <2>0. CASE s = {}
      BY <1>1, <2>0
    <2> SUFFICES ASSUME s # {}
                 PROVE  Splits(s)
      BY <2>0
    <2>1. ASSUME NEW x \in s
          PROVE  s \ {x} \in SUBSET D /\ Cardinality(s \ {x}) <= n /\ Splits(s \ {x})
      <3>1. s \ {x} \in SUBSET D /\ Cardinality(s \ {x}) <= n
        BY OneLess
      <3> HIDE DEF Splits
      <3> QED BY <1>3, <3>1
    <2> DEFINE c == Chosen(s)
    <2>2. c \in s
      BY DEF Chosen
    <2>3. h[s] = f[c] + h[s \ {c}]
      BY DEF Sums
    <2> HIDE DEF c
    <2>4. h[s \ {c}] \in Nat /\ f[c] \in Nat
      BY <2>1, <2>2
    <2>5. ASSUME NEW x \in s, x # c
          PROVE  h[s] = f[x] + h[s \ {x}]
      <3>1. x \in s \ {c} /\ c \in s \ {x}
        BY <2>2, <2>5
      <3> DEFINE others == (s \ {x}) \ {c}
      <3>2. others = (s \ {c}) \ {x} /\ others \in SUBSET D
        OBVIOUS
      <3>3. h[s \ {c}] = f[x] + h[others]
        <4>1. Splits(s \ {c})
          BY <2>1, <2>2
        <4> QED BY <3>1, <3>2, <4>1
      <3>4. h[s \ {x}] = f[c] + h[others]
        <4>1. Splits(s \ {x})
          BY <2>1
        <4> QED BY <3>1, <3>2, <4>1
      <3>5. h[others] \in Nat
        <4>1. Cardinality(others) <= Cardinality(s \ {x})
          BY <1>0, <2>1, FS_Subset
        <4>2. /\ Cardinality(others) \in Nat
              /\ Cardinality(s \ {x}) \in Nat /\ Cardinality(s \ {x}) <= n
          BY <1>0, <2>1, <3>2
        <4> HIDE DEF others
        <4>3. Cardinality(others) <= n
          BY <4>1, <4>2
        <4>4. \A t \in SUBSET D : Cardinality(t) <= n => Splits(t)
          BY <1>3
        <4> QED BY <3>2, <4>3, <4>4
      <3>6. f[x] \in Nat
        OBVIOUS
      <3> HIDE DEF others
      <3> QED BY <2>3, <2>4, <3>3, <3>4, <3>5, <3>6
    <2>6. h[s] \in Nat
      BY <2>3, <2>4
    <2>7. \A x \in s : f[x] \in Nat /\ h[s] = f[x] + h[s \ {x}]
      BY <2>3, <2>5
    <2> QED BY <2>6, <2>7
  <1> HIDE DEF Good
  <1>4. \A n \in Nat : n \in Good
    BY <1>2, <1>3, SetOfNaturals
  <1> QED
    <2> SUFFICES ASSUME NEW s \in SUBSET D
                 PROVE  Splits(s)
      BY <1>1
    <2>1. Cardinality(s) \in Nat /\ Cardinality(s) <= Cardinality(s)
      BY <1>0
    <2> QED BY <1>4, <2>1 DEF Good

\* The same, of one part of the set.
LEMMA SumOfPart ==
    ASSUME NEW D, NEW f, NEW h, Summed(D, f, h), NEW s \in SUBSET D, NEW x \in s
    PROVE  f[x] \in Nat /\ h[s] \in Nat /\ h[s] = f[x] + h[s \ {x}]
  BY SumsSplit

\* Sums over the same values are the same.
LEMMA SumsAgree ==
    ASSUME NEW D, NEW f, NEW h, Summed(D, f, h), NEW E, NEW g, NEW i, Summed(E, g, i),
           NEW S, S \subseteq D, S \subseteq E, \A x \in S : f[x] = g[x]
    PROVE  h[S] = i[S]
  <1> DEFINE Good == {n \in Nat : \A s \in SUBSET S : Cardinality(s) <= n => h[s] = i[s]}
  <1>0. \A s \in SUBSET S : IsFiniteSet(s) /\ Cardinality(s) \in Nat
    BY FS_Subset, FS_CardinalityType DEF Summed
  <1>1. h[{}] = 0 /\ i[{}] = 0
    BY DEF Summed, Sums
  <1>2. 0 \in Good
    <2> SUFFICES ASSUME NEW s \in SUBSET S, Cardinality(s) <= 0
                 PROVE  h[s] = i[s]
      OBVIOUS
    <2>1. s = {}
      BY <1>0, FS_EmptySet
    <2> QED BY <1>1, <2>1
  <1>3. ASSUME NEW n \in Nat, n \in Good
        PROVE  n + 1 \in Good
    <2> SUFFICES ASSUME NEW s \in SUBSET S, Cardinality(s) <= n + 1
                 PROVE  h[s] = i[s]
      OBVIOUS
    <2>0. CASE s = {}
      BY <1>1, <2>0
    <2> SUFFICES ASSUME s # {}
                 PROVE  h[s] = i[s]
      BY <2>0
    <2>1. PICK x \in s : TRUE
      OBVIOUS
    <2>2. h[s] = f[x] + h[s \ {x}]
      <3>1. s \in SUBSET D
        OBVIOUS
      <3> QED BY <3>1, SumsSplit
    <2>3. i[s] = g[x] + i[s \ {x}]
      <3>1. s \in SUBSET E
        OBVIOUS
      <3> QED BY <3>1, SumsSplit
    <2>4. s \ {x} \in SUBSET S /\ Cardinality(s \ {x}) <= n
      <3>1. IsFiniteSet(S)
        BY FS_Subset DEF Summed
      <3> QED BY <3>1, OneLess
    <2>5. h[s \ {x}] = i[s \ {x}]
      BY <1>3, <2>4
    <2> QED BY <2>2, <2>3, <2>5
  <1> HIDE DEF Good
  <1>4. Cardinality(S) \in Good
    BY <1>0, <1>2, <1>3, SetOfNaturals
  <1>5. Cardinality(S) <= Cardinality(S)
    BY <1>0
  <1> QED BY <1>4, <1>5 DEF Good

\* The sum of the values of a function.
Total(f) == FoldFunction(+, 0, f)

\* FoldFunction adds the values of a function.
LEMMA TotalSums ==
    ASSUME NEW D, IsFiniteSet(D), NEW f \in [D -> Nat]
    PROVE  \E h : Summed(D, f, h) /\ Total(f) = h[D]
  <1> DEFINE h == CHOOSE h : Sums(f, SUBSET D, h)
  <1>1. Sums(f, SUBSET D, h)
    BY SumsExist
  <1>2. DOMAIN f = D
    OBVIOUS
  <1>3. Total(f) = h[D]
    BY <1>2 DEF Total, FoldFunction, FoldFunctionOnSet, MapThenFoldSet, Sums, Chosen
  <1> QED BY <1>1, <1>3 DEF Summed

\* The sum of no values, and of one value more.
LEMMA TotalOfNone ==
    ASSUME NEW f \in [{} -> Nat]
    PROVE  Total(f) = 0
  <1>1. IsFiniteSet({})
    BY FS_EmptySet
  <1>2. PICK h : Summed({}, f, h) /\ Total(f) = h[{}]
    BY <1>1, TotalSums
  <1> QED BY <1>2 DEF Summed, Sums

\* The sum of the values on S and on one element more.
LEMMA TotalSplits ==
    ASSUME NEW D, IsFiniteSet(D), NEW f \in [D -> Nat], NEW x \in D,
           NEW g \in [D \ {x} -> Nat], \A y \in D \ {x} : g[y] = f[y]
    PROVE  /\ Total(g) \in Nat
           /\ Total(f) = f[x] + Total(g)
  <1>1. IsFiniteSet(D \ {x})
    BY FS_RemoveElement
  <1>2. PICK h : Summed(D, f, h) /\ Total(f) = h[D]
    BY TotalSums
  <1>3. PICK i : Summed(D \ {x}, g, i) /\ Total(g) = i[D \ {x}]
    BY <1>1, TotalSums
  <1>4. h[D] = f[x] + h[D \ {x}]
    <2>1. Summed(D, f, h)
      BY <1>2
    <2>2. PICK s \in SUBSET D : s = D
      OBVIOUS
    <2>3. x \in s
      BY <2>2
    <2>4. f[x] \in Nat /\ h[s] \in Nat /\ h[s] = f[x] + h[s \ {x}]
      BY ONLY <2>1, s \in SUBSET D, <2>3, SumOfPart
    <2> QED BY <2>2, <2>4
  <1>5. h[D \ {x}] = i[D \ {x}]
    <2> DEFINE E == D \ {x}
    <2>1. PICK S \in SUBSET E : S = E
      OBVIOUS
    <2>2. Summed(D, f, h) /\ Summed(E, g, i)
      BY <1>2, <1>3
    <2>3. S \subseteq D /\ S \subseteq E /\ \A y \in S : f[y] = g[y]
      BY <2>1
    <2> HIDE DEF E
    <2>4. h[S] = i[S]
      BY <2>2, <2>3, SumsAgree
    <2> QED BY <2>1, <2>4 DEF E
  <1>6. i[D \ {x}] \in Nat
    <2> DEFINE E == D \ {x}
    <2>1. PICK s \in SUBSET E : s = E
      OBVIOUS
    <2>2. Summed(E, g, i)
      BY <1>3
    <2> HIDE DEF E
    <2>3. i[s] \in Nat
      BY <2>2, SumsSplit
    <2> QED BY <2>1, <2>3 DEF E
  <1> QED BY <1>2, <1>3, <1>4, <1>5, <1>6

\* A value that grows by one, or a new one, adds one to the sum.
OneMore(D, f, x, g) ==
    /\ IsFiniteSet(D) /\ f \in [D -> Nat] /\ g \in [D \cup {x} -> Nat]
    /\ \A y \in D \ {x} : g[y] = f[y]
    /\ g[x] = (IF x \in D THEN f[x] ELSE 0) + 1

\* A step from one function to another with OneMore adds one to the total.
LEMMA TotalOfOneMore ==
    ASSUME NEW D, NEW f, NEW x, NEW g, OneMore(D, f, x, g)
    PROVE  /\ Total(f) \in Nat
           /\ Total(g) = Total(f) + 1
  <1> DEFINE others == [y \in D \ {x} |-> f[y]]
  <1> USE DEF OneMore
  <1>1. IsFiniteSet(D \cup {x})
    BY FS_AddElement
  <1>2. (D \cup {x}) \ {x} = D \ {x}
    OBVIOUS
  <1>3. others \in [D \ {x} -> Nat] /\ \A y \in D \ {x} : others[y] = f[y] /\ others[y] = g[y]
    OBVIOUS
  <1> HIDE DEF others
  <1>4. /\ Total(others) \in Nat
        /\ Total(g) = g[x] + Total(others)
    <2>1. others \in [(D \cup {x}) \ {x} -> Nat] /\ x \in D \cup {x}
      BY <1>2, <1>3
    <2>2. \A y \in (D \cup {x}) \ {x} : others[y] = g[y]
      BY <1>3
    <2> QED BY <1>1, <2>1, <2>2, TotalSplits
  <1>5. CASE x \in D
    <2>1. Total(f) = f[x] + Total(others)
      BY <1>3, <1>5, TotalSplits
    <2>2. f[x] \in Nat /\ g[x] = f[x] + 1
      BY <1>5
    <2> QED BY <1>4, <2>1, <2>2
  <1>6. CASE x \notin D
    <2>1. D \ {x} = D
      BY <1>6
    <2>2. others = f
      BY <1>3, <2>1
    <2>3. g[x] = 1
      BY <1>6
    <2> QED BY <1>4, <2>2, <2>3
  <1> QED BY <1>5, <1>6
-----------------------------------------------------------------------------
(* The inductive invariant.                                                *)

\* The lines that are calls; where a comparison is; where a process is.
Lines == {k \in DOMAIN Trace : Trace[k] # None}
Comparing == {"next", "call", "record", "returned"}
Labels == {"idle", "request", "copy", "open", "read", "loaded", "raised"} \cup Comparing

\* A reader of a compressed trace has every line before the one it is at.
TraceInv ==
    /\ ext \in Extensions
    /\ pc \in [Processes -> Labels] /\ at \in [Processes -> Nat \ {0}]
    /\ calls \in [Processes -> SUBSET Lines]
    /\ \A p \in Processes :
        /\ pc[p] \in Comparing => p = Bench
        /\ ext = ".bz2" /\ pc[p] = "read" => calls[p] = {k \in Lines : k < at[p]}
        /\ ext = ".bz2" /\ pc[p] = "loaded" => calls[p] = Lines

\* The types of the comparison.
BenchTypeOK ==
    /\ filter \in compare_short_inputs \cup compare_long_inputs
    /\ suffixes \in [Indices -> Versions]
    /\ length_arguments \in Seq(Int) /\ passes \in Nat /\ block \in Nat
    /\ implementations \in {<<1, 2>>, <<2, 1>>} /\ called \in 0 .. 2
    /\ inputs \in [1 .. block_size -> Int] /\ DOMAIN timings = 1 .. block_size
    /\ count \in 0 .. block_size /\ recorded \in Nat
    /\ record_results \in BOOLEAN

\* The results of a version: the timings of each length, at least one.
Timed(version, acc) ==
    /\ acc = [length \in DOMAIN acc |-> acc[length]] /\ IsFiniteSet(DOMAIN acc)
    /\ \A length \in DOMAIN acc :
        acc[length] \in Seq({[version |-> version, length |-> length]}) \ {<<>>}

\* What was recorded for a version are timings of that version.
ResultsOK ==
    /\ DOMAIN results = Indices
    /\ \A index \in Indices : Timed(suffixes[index], results[index])

\* The two loops.
LoopInv ==
    /\ pc[Bench] # "record" => recorded = 0
    /\ pc[Bench] \notin Comparing => ~record_results
    /\ ~record_results => results = [k \in Indices |-> <<>>]
    /\ pc[Bench] \in Comparing =>
        /\ length_arguments # <<>> /\ passes <= Passes /\ block > 0
        /\ passes = 0 => block = 1
        /\ ~record_results => passes = Passes /\ block = 1
    /\ pc[Bench] \in {"call", "record"} =>
        passes > 0 /\ Before < Len(length_arguments) /\ count = InBlock
    /\ pc[Bench] = "record" =>
        /\ called > 0 /\ recorded <= count /\ record_results
        /\ \A k \in 1 .. count :
            timings[k] = [version |-> suffixes[implementations[called]], length |-> inputs[k]]

\* The number of timings of the current block that are in the results of a version,
\* of those of each length, and of those of the blocks before.
Done(index) ==
    IF pc[Bench] \notin {"call", "record"} \/ ~record_results THEN 0
    ELSE IF pc[Bench] = "record" /\ index = implementations[called] THEN recorded
    ELSE IF \E j \in 1 .. called : implementations[j] = index THEN count
    ELSE 0

\* How often a length is among the first n values; how many timings of it a result
\* has.
Occurs(values, n, length) == Times(1 .. n, values, length)
Tally(acc, length) == IF length \in DOMAIN acc THEN Len(acc[length]) ELSE 0
Lens(acc) == [length \in DOMAIN acc |-> Len(acc[length])]
Least(m, n) == IF m <= n THEN m ELSE n
DoneBefore ==
    LET n == Len(length_arguments)
    IN  IF record_results THEN ((Passes - passes) * n) + Least(Before, n) - Least(block_size, n) ELSE 0

\* The results of the versions differ by what is not done of the block, and are as
\* many as the inputs of the blocks that were recorded.
TallyInv ==
    pc[Bench] \in Comparing =>
        /\ \A length : Tally(results[1], length) + Occurs(inputs, Done(2), length)
                        = Tally(results[2], length) + Occurs(inputs, Done(1), length)
        /\ \A index \in Indices : Total(Lens(results[index])) = DoneBefore + Done(index)

\* How many of some lines have a length that the comparison takes.
Asked(lines, length) == Cardinality({k \in lines : Taken(k) /\ Size(k) = length})

\* What MeasuresTheTrace says, of every length.
MeasureInv ==
    ext = ".bz2" /\ pc[Bench] \in Comparing =>
        \A length : Times(DOMAIN length_arguments, length_arguments, length)
                        = Asked(Lines, length)

\* What ResultsArePaired says.
Paired(dict, total) ==
    /\ \A s \in DOMAIN dict : \A length \in DOMAIN dict[s] :
        Range(dict[s][length]) = {[version |-> s, length |-> length]}
    /\ \A s, t \in DOMAIN dict : DOMAIN dict[s] = DOMAIN dict[t]
        /\ \A length \in DOMAIN dict[s] : Len(dict[s][length]) = Len(dict[t][length])
    /\ \A s \in DOMAIN dict : Total(Lens(dict[s])) = total

PairedInv ==
    pc[Bench] = "returned" =>
        Paired(returned, LET n == Len(length_arguments) IN (Passes * n) - Least(n, block_size))

\* The inductive invariant.
BenchInv == BenchTypeOK /\ ResultsOK /\ LoopInv /\ TallyInv /\ MeasureInv /\ PairedInv
IndInv == TraceInv /\ BenchInv

\* It says so.
LEMMA PairedInvIs == BenchTypeOK /\ PairedInv => ResultsArePaired
  <1> SUFFICES ASSUME BenchTypeOK, PairedInv, pc[Bench] = "returned"
               PROVE  ResultsArePaired
    BY DEF ResultsArePaired
  <1> DEFINE n == Len(length_arguments)
  <1>1. Least(n, block_size) = IF n < block_size THEN n ELSE block_size
    BY BenchAssumption DEF Least, BenchTypeOK
  <1>2. Paired(returned, (Passes * n) - (IF n < block_size THEN n ELSE block_size))
    BY <1>1 DEF PairedInv
  <1> HIDE DEF n
  <1>3. \A s \in DOMAIN returned :
            FoldFunction(+, 0, [length \in DOMAIN returned[s] |-> Len(returned[s][length])])
                = (Passes * n) - (IF n < block_size THEN n ELSE block_size)
    BY <1>2 DEF Paired, Total, Lens
  <1> QED BY <1>2, <1>3 DEF Paired, ResultsArePaired, n
-----------------------------------------------------------------------------
(* The reader.                                                             *)

\* The lines of the trace.
LEMMA LinesAre ==
    /\ Len(Trace) \in Nat /\ DOMAIN Trace = 1 .. Len(Trace)
    /\ \A k \in Lines : k \in Nat /\ 1 <= k /\ k <= Len(Trace)
                        /\ Trace[k] \in [tid : Nat, size : Nat]
    /\ IsFiniteSet(Lines)
  <1> DEFINE Calls == [tid : Nat, size : Nat]
             All == Calls \cup {None}
  <1>1. Trace \in Seq(All)
    BY TracesAssumption
  <1> HIDE DEF Calls
  <1>2. Trace \in Seq(All) => /\ Len(Trace) \in Nat /\ DOMAIN Trace = 1 .. Len(Trace)
                             /\ \A k \in 1 .. Len(Trace) : Trace[k] \in All
    <2> HIDE DEF All
    <2> QED OBVIOUS
  <1>3. \A k \in Lines : k \in 1 .. Len(Trace) /\ Trace[k] \in Calls
    BY <1>1, <1>2 DEF Lines
  <1>4. IsFiniteSet(1 .. Len(Trace))
    BY <1>1, <1>2, FS_Interval
  <1>5. Lines \in SUBSET (1 .. Len(Trace))
    BY <1>3
  <1>6. IsFiniteSet(Lines)
    BY <1>4, <1>5, FS_Subset
  <1> QED BY <1>1, <1>2, <1>3, <1>6 DEF Calls

\* The readers start with nothing.
LEMMA TracesInitHolds == TracesInit => TraceInv
  BY DEF TracesInit, TraceInv, Labels, Comparing

\* Its steps keep it, and so does a restart.
LEMMA TraceStepKeepsTraceInv ==
    ASSUME TraceInv, NEW p \in Processes, TraceStep(p) \/ Restart(p)
    PROVE  TraceInv'
  <1> USE DEF TraceInv, Labels, Comparing
  <1>1. CASE LookUp(p)
    BY <1>1 DEF LookUp, Goto
  <1>2. CASE RequestFails(p)
    BY <1>2 DEF RequestFails, Goto
  <1>3. CASE Request(p)
    BY <1>3 DEF Request, Goto
  <1>4. CASE Copy(p)
    BY <1>4 DEF Copy
  <1>5. CASE CopyBreaks(p)
    BY <1>5 DEF CopyBreaks, Goto
  <1>6. CASE EndCopy(p)
    BY <1>6 DEF EndCopy, Goto
  <1>7. CASE Open(p)
    <2>1. {k \in Lines : k < 1} = {}
      BY LinesAre DEF Lines
    <2> QED BY <1>7, <2>1 DEF Open, Goto
  <1>8. CASE ReadLine(p)
    <2> DEFINE k == at[p]
               line == IF k \in pieces THEN Trace[k] ELSE None
    <2>1. /\ pc[p] = "read" /\ k \in Nat \ {0} /\ k <= Len(Trace)
          /\ ext = ".bz2" => k \in pieces
          /\ calls' = IF line = None THEN calls ELSE [calls EXCEPT ![p] = @ \cup {k}]
          /\ at' = [at EXCEPT ![p] = k + 1] /\ UNCHANGED <<ext, pc>>
      BY <1>8 DEF ReadLine, Damaged
    <2>2. k \in DOMAIN Trace
      BY <2>1, LinesAre
    <2>3. line # None => k \in Lines
      BY <2>2 DEF Lines
    <2>4. calls' \in [Processes -> SUBSET Lines]
      BY <2>1, <2>3
    <2>5. ASSUME ext = ".bz2"
          PROVE  calls'[p] = {j \in Lines : j < k + 1}
      <3>1. calls[p] = {j \in Lines : j < k}
        BY <2>1, <2>5
      <3>2. \A j \in Lines : j < k + 1 <=> j < k \/ j = k
        BY <2>1, LinesAre DEF Lines
      <3>3. k \in Lines <=> line # None
        BY <2>1, <2>2, <2>5 DEF Lines
      <3>4. calls'[p] = IF line = None THEN calls[p] ELSE calls[p] \cup {k}
        BY <2>1
      <3> HIDE DEF line, k
      <3> QED BY <3>1, <3>2, <3>3, <3>4
    <2> HIDE DEF line
    <2> QED BY <2>1, <2>4, <2>5
  <1>9. CASE ReadRaises(p)
    BY <1>9 DEF ReadRaises, Goto
  <1>10. CASE EndRead(p)
    <2>1. /\ pc[p] = "read" /\ pc' = [pc EXCEPT ![p] = "loaded"] /\ UNCHANGED <<ext, at, calls>>
          /\ at[p] > Len(Trace) \/ (~Damaged(at[p]) /\ AtEnd(at[p]))
      BY <1>10 DEF EndRead, Goto
    <2>2. ASSUME ext = ".bz2"
          PROVE  calls[p] = Lines
      <3>1. at[p] > Len(Trace)
        BY <2>1, <2>2 DEF Damaged, AtEnd
      <3>2. \A k \in Lines : k < at[p]
        BY <3>1, LinesAre DEF Lines
      <3> QED BY <2>1, <2>2, <3>2
    <2> QED BY <2>1, <2>2
  <1>11. CASE Restart(p)
    BY <1>11 DEF Restart, Goto
  <1> QED BY <1>1, <1>2, <1>3, <1>4, <1>5, <1>6, <1>7, <1>8, <1>9, <1>10, <1>11 DEF TraceStep

\* A step of a reader is none of a comparison.
LEMMA TraceStepIsNotCompared ==
    ASSUME TraceInv, NEW p \in Processes, TraceStep(p)
    PROVE  \/ pc'[Bench] = pc[Bench]
           \/ pc[Bench] \notin Comparing /\ pc'[Bench] \notin Comparing
  BY BenchAssumption DEF TraceInv, Comparing, TraceStep, Goto, LookUp, RequestFails, Request, Copy,
     CopyBreaks, EndCopy, Open, ReadLine, ReadRaises, EndRead

\* The steps of a comparison leave the readers alone.
LEMMA BenchStepKeepsTraceInv ==
    ASSUME TraceInv, UNCHANGED <<ext, at, calls>>,
           \/ pc' = pc
           \/ \E label \in {"next", "call", "record", "returned", "raised"} : Goto(Bench, label)
    PROVE  TraceInv'
  BY BenchAssumption DEF TraceInv, Labels, Comparing, Goto
-----------------------------------------------------------------------------
(* Steps of others, and restarts.                                          *)

\* A comparison that does not move keeps it.
LEMMA BenchInvKept ==
    ASSUME BenchInv, UNCHANGED <<ext, benchVars>>,
           \/ pc'[Bench] = pc[Bench]
           \/ pc[Bench] \notin Comparing /\ pc'[Bench] \notin Comparing
    PROVE  BenchInv'
  <1> USE DEF BenchInv, benchVars
  <1>1. BenchTypeOK'
    BY DEF BenchTypeOK, Indices
  <1>2. ResultsOK'
    BY DEF ResultsOK, Timed
  <1>3. LoopInv'
    BY DEF LoopInv, Comparing, Before, InBlock, Passes
  <1>4. TallyInv'
    <2> SUFFICES ASSUME pc'[Bench] = pc[Bench], pc[Bench] \in Comparing
                 PROVE  TallyInv'
      BY DEF TallyInv
    <2>1. \A index : Done(index)' = Done(index)
      BY DEF Done
    <2>2. DoneBefore' = DoneBefore
      BY DEF DoneBefore, Before, Passes
    <2>3. TallyInv
      OBVIOUS
    <2> HIDE DEF BenchInv
    <2> QED BY <2>1, <2>2, <2>3 DEF TallyInv
  <1>5. MeasureInv'
    BY DEF MeasureInv, Asked, Taken, Size, Comparing
  <1>6. PairedInv'
    BY DEF PairedInv, Passes, Comparing
  <1> QED BY <1>1, <1>2, <1>3, <1>4, <1>5, <1>6

\* The buffers start with zeros.
LEMMA ZerosAre ==
    Zeros \in [1 .. block_size -> Int] /\ DOMAIN Zeros = 1 .. block_size /\ 0 \in 0 .. block_size
  <1>1. block_size \in Nat
    BY BenchAssumption
  <1> QED BY <1>1 DEF Zeros

\* The start of the comparison, and its start after a restart.
LEMMA BenchStarts ==
    ASSUME /\ filter \in compare_short_inputs \cup compare_long_inputs
           /\ suffixes \in [Indices -> Versions]
           /\ length_arguments = <<>> /\ passes = 0 /\ block = 0
           /\ implementations = <<1, 2>> /\ called = 0
           /\ inputs = Zeros /\ timings = Zeros /\ count = 0 /\ recorded = 0
           /\ results = [k \in Indices |-> <<>>] /\ record_results = FALSE
           /\ pc[Bench] \notin Comparing
    PROVE  BenchInv
  <1>1. BenchTypeOK
    <2>1. length_arguments \in Seq(Int) /\ passes \in Nat /\ block \in Nat
      OBVIOUS
    <2>2. implementations \in {<<1, 2>>, <<2, 1>>} /\ called \in 0 .. 2
      OBVIOUS
    <2>3. inputs \in [1 .. block_size -> Int] /\ DOMAIN timings = 1 .. block_size
      BY ZerosAre
    <2>4. count \in 0 .. block_size /\ recorded \in Nat /\ record_results \in BOOLEAN
      BY ZerosAre
    <2> QED BY <2>1, <2>2, <2>3, <2>4 DEF BenchTypeOK
  <1>2. Timed(suffixes[1], <<>>) /\ Timed(suffixes[2], <<>>)
    BY FS_EmptySet DEF Timed
  <1>3. ResultsOK
    BY <1>2 DEF ResultsOK, Indices
  <1>4. LoopInv /\ TallyInv /\ MeasureInv /\ PairedInv
    BY DEF LoopInv, TallyInv, MeasureInv, PairedInv, Comparing
  <1> QED BY <1>1, <1>3, <1>4 DEF BenchInv

\* It holds at the start.
LEMMA InitHolds == Init => IndInv
  <1> SUFFICES ASSUME Init
               PROVE  IndInv
    OBVIOUS
  <1>1. TraceInv
    BY TracesInitHolds DEF Init
  <1>2. pc[Bench] \notin Comparing
    BY BenchAssumption DEF Init, TracesInit, Comparing
  <1>3. BenchInv
    BY <1>2, BenchStarts DEF Init, BenchInit
  <1> QED BY <1>1, <1>3 DEF IndInv, BenchInv

\* An interrupted comparison starts over with it.
LEMMA LostHolds ==
    ASSUME BenchInv, Lost, pc'[Bench] = "idle"
    PROVE  BenchInv'
  <1>1. filter' \in compare_short_inputs \cup compare_long_inputs /\ suffixes' \in [Indices -> Versions]
    BY DEF BenchInv, BenchTypeOK, Lost
  <1>2. pc'[Bench] \notin Comparing
    BY DEF Comparing
  <1>3. BenchTypeOK'
    <2>1. length_arguments' \in Seq(Int) /\ passes' \in Nat /\ block' \in Nat
      BY DEF Lost
    <2>2. implementations' \in {<<1, 2>>, <<2, 1>>} /\ called' \in 0 .. 2
      BY DEF Lost
    <2>3. inputs' \in [1 .. block_size -> Int] /\ DOMAIN timings' = 1 .. block_size
      BY ZerosAre DEF Lost
    <2>4. count' \in 0 .. block_size /\ recorded' \in Nat /\ record_results' \in BOOLEAN
      BY ZerosAre DEF Lost
    <2> QED BY <1>1, <2>1, <2>2, <2>3, <2>4 DEF BenchTypeOK
  <1>4. Timed(suffixes'[1], <<>>) /\ Timed(suffixes'[2], <<>>)
    BY FS_EmptySet DEF Timed
  <1>5. ResultsOK'
    BY <1>4 DEF ResultsOK, Indices, Lost
  <1>6. LoopInv' /\ TallyInv' /\ MeasureInv' /\ PairedInv'
    BY <1>2 DEF LoopInv, TallyInv, MeasureInv, PairedInv, Comparing, Lost
  <1> QED BY <1>3, <1>5, <1>6 DEF BenchInv
-----------------------------------------------------------------------------
(* The lengths that a comparison takes from the trace.                     *)

\* A set of natural numbers has a least element.
LEMMA LeastOf ==
    ASSUME NEW T, T \subseteq Nat, T # {}
    PROVE  \E j \in T : \A l \in T : j <= l
  <1> DEFINE Less == OpToRel(<, Nat)
  <1>1. IsWellFoundedOn(Less, Nat)
    BY NatLessThanWellFounded
  <1> HIDE DEF Less
  <1>2. PICK j \in T : \A l \in T : <<l, j>> \notin Less
    BY <1>1, WFMin
  <1>3. \A l \in T : ~(l < j)
    BY <1>2 DEF Less, OpToRel
  <1> QED BY <1>2, <1>3

\* full_call_sizes has as many of each length as the lines.
LEMMA FullCallSizes ==
    ASSUME NEW lines, lines \subseteq Lines, BenchTypeOK
    PROVE  /\ full_call_sizes(lines) \in Seq(Int)
           /\ \A length : Times(DOMAIN full_call_sizes(lines), full_call_sizes(lines), length)
                            = Asked(lines, length)
  <1> DEFINE sized == {k \in lines : Taken(k)}
             first(k) == CHOOSE j \in sized : /\ Trace[j].tid = Trace[k].tid
                                              /\ \A l \in sized : Trace[l].tid = Trace[k].tid => j <= l
             before(j, k) == first(j) < first(k) \/ (first(j) = first(k) /\ j < k)
             order == CHOOSE o \in [1 .. Cardinality(sized) -> sized] :
                         \A p, q \in DOMAIN o : p < q => before(o[p], o[q])
             n == Cardinality(sized)
  <1>1. full_call_sizes(lines) = [p \in DOMAIN order |-> Size(order[p])]
    BY DEF full_call_sizes
  <1>2. IsFiniteSet(sized) /\ sized \subseteq Nat
    <2>1. sized \in SUBSET Lines /\ IsFiniteSet(Lines)
      BY LinesAre
    <2>2. Lines \subseteq Nat
      BY LinesAre
    <2> HIDE DEF sized
    <2> QED BY <2>1, <2>2, FS_Subset
  <1>3. \A k \in sized : Size(k) \in Int
    <2>1. filter.fixup \in Int
      BY BenchAssumption DEF BenchTypeOK, compare_short_inputs, compare_long_inputs
    <2>2. \A k \in sized : Trace[k].size \in Int
      BY LinesAre
    <2> QED BY <2>1, <2>2 DEF Size
  <1>4. n \in Nat
    BY <1>2, FS_CardinalityType
  <1>5. ASSUME NEW k \in sized
        PROVE  first(k) \in Nat
    <2> DEFINE T == {j \in sized : Trace[j].tid = Trace[k].tid}
    <2>1. T \subseteq Nat /\ T # {}
      BY <1>2
    <2>2. PICK j \in T : \A l \in T : j <= l
      <3> HIDE DEF T
      <3> QED BY <2>1, LeastOf
    <2> HIDE DEF sized
    <2>3. \E i \in sized : /\ Trace[i].tid = Trace[k].tid
                           /\ \A l \in sized : Trace[l].tid = Trace[k].tid => i <= l
      BY <2>2
    <2>4. first(k) \in sized
      BY <2>3
    <2> QED BY <1>2, <2>4
  <1> HIDE DEF sized, first, n
  <1> DEFINE R == {pair \in sized \X sized : before(pair[1], pair[2])}
  <1>6. \A j, k \in sized : <<j, k>> \in R <=> before(j, k)
    OBVIOUS
  <1>7. /\ \A x \in sized : ~before(x, x)
        /\ \A x, y \in sized : x # y => before(x, y) \/ before(y, x)
        /\ \A x, y, z \in sized : before(x, y) /\ before(y, z) => before(x, z)
    <2>1. \A x \in sized : x \in Nat /\ first(x) \in Nat
      BY <1>2, <1>5
    <2> QED BY <2>1
  <1> HIDE DEF R, before
  <1>8. \E o \in Bijection(1 .. Cardinality(sized), sized) :
            \A p, q \in 1 .. Cardinality(sized) : p < q => <<o[p], o[q]>> \in R
    BY <1>2, <1>6, <1>7, Enumeration
  <1>9. \E o \in [1 .. n -> sized] : \A p, q \in DOMAIN o : p < q => before(o[p], o[q])
    <2>1. PICK o \in Bijection(1 .. n, sized) : \A p, q \in 1 .. n : p < q => <<o[p], o[q]>> \in R
      BY <1>8 DEF n
    <2>2. o \in [1 .. n -> sized]
      BY BijectionIs
    <2>3. \A p, q \in DOMAIN o : p < q => before(o[p], o[q])
      BY <1>6, <2>1, <2>2
    <2> QED BY <2>2, <2>3
  <1>10. order \in [1 .. n -> sized] /\ \A p, q \in DOMAIN order : p < q => before(order[p], order[q])
    BY <1>9 DEF n
  <1> HIDE DEF order
  <1>11. \A p, q \in 1 .. n : order[p] = order[q] => p = q
    <2> SUFFICES ASSUME NEW p \in 1 .. n, NEW q \in 1 .. n, order[p] = order[q], p # q
                 PROVE  FALSE
      OBVIOUS
    <2>1. p < q \/ q < p
      BY <1>4
    <2> QED BY <1>7, <1>10, <2>1
  <1>12. order \in Injection(1 .. n, sized)
    BY <1>10, <1>11 DEF Injection, IsInjective
  <1>13. IsFiniteSet(1 .. n) /\ Cardinality(1 .. n) = n
    BY <1>4, FS_Interval
  <1>14. order \in Surjection(1 .. n, sized)
    <2>1. Cardinality(1 .. n) = Cardinality(sized)
      BY <1>13 DEF n
    <2> QED BY <1>2, <1>12, <1>13, <2>1, FS_Injection
  <1>15. order \in Bijection(1 .. n, sized)
    BY <1>12, <1>14 DEF Bijection
  <1>16. full_call_sizes(lines) \in [1 .. n -> Int]
    BY <1>1, <1>3, <1>10
  <1>17. full_call_sizes(lines) \in Seq(Int)
    BY <1>4, <1>16
  <1>18. ASSUME NEW length
         PROVE  Times(DOMAIN full_call_sizes(lines), full_call_sizes(lines), length)
                    = Asked(lines, length)
    <2> DEFINE g == [k \in sized |-> Size(k)]
    <2>1. Cardinality({p \in 1 .. n : g[order[p]] = length}) = Cardinality({k \in sized : g[k] = length})
      <3> DEFINE D == 1 .. n
      <3>1. IsFiniteSet(D) /\ order \in Bijection(D, sized)
        BY <1>13, <1>15
      <3> DEFINE f == [p \in D |-> g[order[p]]]
      <3>2. \A p \in D : f[p] = g[order[p]]
        OBVIOUS
      <3> HIDE DEF g, D, f
      <3>3. Times(D, f, length) = Times(sized, g, length)
        BY <3>1, <3>2, TimesOfShuffled
      <3> QED BY <3>2, <3>3 DEF D, Times
    <2>2. {k \in sized : g[k] = length} = {k \in lines : Taken(k) /\ Size(k) = length}
      BY DEF sized
    <2>3. \A p \in 1 .. n : full_call_sizes(lines)[p] = g[order[p]]
      BY <1>1, <1>10
    <2>4. DOMAIN full_call_sizes(lines) = 1 .. n
      BY <1>16
    <2>5. {p \in DOMAIN full_call_sizes(lines) : full_call_sizes(lines)[p] = length}
            = {p \in 1 .. n : g[order[p]] = length}
      BY <2>3, <2>4
    <2> QED BY <2>1, <2>2, <2>5 DEF Times, Asked
  <1> QED BY <1>17, <1>18
\* A shuffled list has as many of each value.
LEMMA ShuffleKeeps ==
    ASSUME NEW s \in Seq(Int), NEW t \in Shuffles(s)
    PROVE  /\ t \in Seq(Int) /\ Len(t) = Len(s)
           /\ \A v : Times(DOMAIN t, t, v) = Times(DOMAIN s, s, v)
  <1> DEFINE D == DOMAIN s
  <1>1. D = 1 .. Len(s) /\ Len(s) \in Nat /\ \A k \in D : s[k] \in Int
    OBVIOUS
  <1>2. IsFiniteSet(D)
    BY <1>1, FS_Interval
  <1>3. PICK o \in Bijection(D, D) : t = [k \in D |-> s[o[k]]]
    BY DEF Shuffles
  <1>4. o \in [D -> D]
    BY BijectionIs
  <1>5. DOMAIN t = D /\ \A k \in D : t[k] = s[o[k]]
    BY <1>3
  <1>6. t \in [D -> Int]
    BY <1>1, <1>3, <1>4
  <1>7. t \in Seq(Int) /\ Len(t) = Len(s)
    BY <1>1, <1>6
  <1> HIDE DEF D
  <1>8. \A v : Times(D, t, v) = Times(D, s, v)
    BY <1>2, <1>5, TimesOfShuffled
  <1> QED BY <1>5, <1>7, <1>8 DEF D

\* The two orders of the versions, and the one that they are put back to.
LEMMA ShufflesOfTwo ==
    ASSUME NEW s \in {<<1, 2>>, <<2, 1>>}
    PROVE  /\ Shuffles(s) \subseteq {<<1, 2>>, <<2, 1>>} /\ <<1, 2>> \in Shuffles(s)
           /\ (CHOOSE t \in Shuffles(s) : t[1] < t[2]) = <<1, 2>>
  <1>1. DOMAIN s = {1, 2}
    OBVIOUS
  <1>2. ASSUME NEW t \in Shuffles(s)
        PROVE  t \in {<<1, 2>>, <<2, 1>>}
    <2>1. PICK o \in Bijection({1, 2}, {1, 2}) : t = [k \in {1, 2} |-> s[o[k]]]
      BY <1>1 DEF Shuffles
    <2>2. o \in [{1, 2} -> {1, 2}] /\ o[1] # o[2]
      BY BijectionIs
    <2>3. t = <<s[o[1]], s[o[2]]>>
      BY <2>1
    <2>4. \/ o[1] = 1 /\ o[2] = 2
          \/ o[1] = 2 /\ o[2] = 1
      BY <2>2
    <2> QED BY <2>3, <2>4
  <1>3. <<1, 2>> \in Shuffles(s)
    <2> DEFINE o == [k \in {1, 2} |-> s[k]]
    <2>1. o \in [{1, 2} -> {1, 2}] /\ o[1] # o[2] /\ o[1] = s[1] /\ o[2] = s[2]
      OBVIOUS
    <2>2. o \in Bijection({1, 2}, {1, 2})
      <3>1. \A x, y \in {1, 2} : o[x] = o[y] => x = y
        BY <2>1
      <3>2. \A x \in {1, 2} : \E y \in {1, 2} : o[y] = x
        BY <2>1
      <3> HIDE DEF o
      <3> QED BY <2>1, <3>1, <3>2, BijectionIs
    <2>3. <<1, 2>> = [k \in {1, 2} |-> s[o[k]]]
      BY <2>1
    <2> HIDE DEF o
    <2> QED BY <1>1, <2>2, <2>3 DEF Shuffles
  <1>4. \A t \in Shuffles(s) : t[1] < t[2] <=> t = <<1, 2>>
    BY <1>2
  <1> QED BY <1>2, <1>3, <1>4
-----------------------------------------------------------------------------
(* The steps of the comparison.                                            *)

\* The sum of no results.
LEMMA EmptyResults ==
    ASSUME NEW acc, acc = <<>>
    PROVE  Total(Lens(acc)) = 0
  <1>1. Lens(acc) \in [{} -> Nat]
    BY DEF Lens
  <1> QED BY <1>1, TotalOfNone

\* Compare keeps it: the lengths are those of the whole trace.
LEMMA CompareHolds ==
    ASSUME TraceInv, BenchInv, Compare
    PROVE  BenchInv'
  <1> DEFINE lengths == full_call_sizes(calls[Bench])
  <1>1. pc[Bench] = "loaded" /\ pc \in [Processes -> Labels] /\ Bench \in Processes /\ UNCHANGED ext
    BY BenchAssumption DEF Compare, TraceInv
  <1>2. CASE lengths = <<>>
    <2>1. pc'[Bench] = "raised" /\ UNCHANGED <<ext, benchVars>>
      BY <1>1, <1>2 DEF Compare, Goto
    <2>2. pc[Bench] \notin Comparing /\ pc'[Bench] \notin Comparing
      BY <1>1, <2>1 DEF Comparing
    <2> QED BY <2>1, <2>2, BenchInvKept
  <1>3. CASE lengths # <<>>
    <2>1. /\ pc'[Bench] = "next" /\ length_arguments' = lengths /\ passes' = Passes' /\ block' = 1
          /\ UNCHANGED <<filter, suffixes, implementations, called, inputs, timings, count,
                          recorded, results, record_results, returned>>
      BY <1>1, <1>3 DEF Compare, Goto
    <2>2. calls[Bench] \subseteq Lines
      BY <1>1 DEF TraceInv
    <2>3. lengths \in Seq(Int)
      BY <2>2, FullCallSizes DEF BenchInv
    <2>4. Len(lengths) \in Nat /\ Len(lengths) > 0 /\ min_count \in Nat
      BY <1>3, <2>3, BenchAssumption
    <2>5. Passes' \in Nat
      <3>1. Passes' = 1 + (min_count \div Len(lengths))
        BY <2>1 DEF Passes
      <3> HIDE DEF lengths
      <3> QED BY <2>4, <3>1
    <2>6. /\ ~record_results /\ recorded = 0 /\ results = [k \in Indices |-> <<>>]
          /\ pc[Bench] \notin Comparing
      BY <1>1 DEF BenchInv, LoopInv, Comparing
    <2>7. BenchTypeOK'
      BY <2>1, <2>3, <2>5 DEF BenchInv, BenchTypeOK
    <2>8. ResultsOK'
      BY <2>1 DEF BenchInv, ResultsOK, Timed
    <2>9. LoopInv'
      <3>1. length_arguments' # <<>> /\ passes' <= Passes' /\ block' > 0 /\ block' = 1 /\ passes' = Passes'
        BY <1>3, <2>1, <2>5
      <3>2. recorded' = 0 /\ ~record_results' /\ results' = [k \in Indices |-> <<>>]
        BY <2>1, <2>6
      <3>3. pc'[Bench] \in Comparing /\ pc'[Bench] \notin {"call", "record"}
        BY <2>1 DEF Comparing
      <3> QED BY <3>1, <3>2, <3>3 DEF LoopInv
    <2>10. TallyInv'
      <3>1. Done(1)' = 0 /\ Done(2)' = 0 /\ \A index : Done(index)' = 0
        BY <2>1 DEF Done
      <3>2. DoneBefore' = 0
        BY <2>1, <2>6 DEF DoneBefore
      <3>3. \A index \in Indices : Total(Lens(results'[index])) = 0
        BY <2>1, <2>6, EmptyResults
      <3>4. results'[1] = results'[2]
        BY <2>1, <2>6 DEF Indices
      <3> QED BY <3>1, <3>2, <3>3, <3>4 DEF TallyInv
    <2>11. MeasureInv'
      <3> SUFFICES ASSUME ext' = ".bz2"
                   PROVE  MeasureInv'
        BY DEF MeasureInv
      <3>1. calls[Bench] = Lines
        BY <1>1 DEF TraceInv
      <3>2. \A length : Times(DOMAIN lengths, lengths, length)
                            = Asked(Lines, length)
        BY <2>2, <3>1, FullCallSizes DEF BenchInv
      <3>3. \A length : Asked(Lines, length)' = Asked(Lines, length)
        BY <2>1 DEF Asked, Taken, Size
      <3> HIDE DEF lengths
      <3> QED BY <2>1, <3>2, <3>3 DEF MeasureInv
    <2>12. PairedInv'
      BY <2>1 DEF PairedInv
    <2> QED BY <2>7, <2>8, <2>9, <2>10, <2>11, <2>12 DEF BenchInv
  <1> QED BY <1>2, <1>3
\* Products that the sums are made of.
LEMMA Products ==
    ASSUME NEW m \in Int, NEW n \in Nat
    PROVE  m * n \in Int /\ (m >= 0 => m * n \in Nat) /\ (m + 1) * n = m * n + n /\ 0 * n = 0
  OBVIOUS

\* The places of the next block.
LEMMA Numbers ==
    ASSUME BenchTypeOK, length_arguments # <<>>, block > 0
    PROVE  /\ block_size \in Nat /\ block_size > 0
           /\ Len(length_arguments) \in Nat /\ Len(length_arguments) > 0
           /\ Passes \in Nat /\ Passes > 0
           /\ Before \in Nat /\ (block = 1 => Before = 0) /\ block * block_size = Before + block_size
           /\ InBlock \in Int /\ InBlock <= block_size /\ Before + InBlock <= Len(length_arguments)
           /\ Before < Len(length_arguments) => InBlock > 0
           /\ Least(Before, Len(length_arguments)) + (IF Before < Len(length_arguments) THEN InBlock ELSE 0)
                = Least(Before + block_size, Len(length_arguments))
  <1> DEFINE n == Len(length_arguments)
  <1>1. block_size \in Nat /\ block_size > 0 /\ min_count \in Nat /\ block \in Nat
    BY BenchAssumption DEF BenchTypeOK
  <1>2. n \in Nat /\ n > 0
    BY DEF BenchTypeOK
  <1> HIDE DEF n
  <1>3. 1 + (min_count \div n) \in Nat /\ 1 + (min_count \div n) > 0
    BY <1>1, <1>2
  <1>4. Passes \in Nat /\ Passes > 0
    BY <1>3 DEF Passes, n
  <1>5. /\ (block - 1) * block_size \in Nat
        /\ ((block - 1) + 1) * block_size = (block - 1) * block_size + block_size
        /\ (block - 1) + 1 = block /\ (block = 1 => (block - 1) * block_size = 0)
    <2>1. block - 1 \in Int /\ block - 1 >= 0 /\ (block - 1) + 1 = block
      BY <1>1
    <2>2. /\ (block - 1) * block_size \in Nat
          /\ ((block - 1) + 1) * block_size = (block - 1) * block_size + block_size
      BY <1>1, <2>1, Products
    <2>3. block = 1 => block - 1 = 0
      OBVIOUS
    <2>4. 0 * block_size = 0
      BY <1>1, Products
    <2> QED BY <2>1, <2>2, <2>3, <2>4
  <1>6. Before \in Nat /\ (block = 1 => Before = 0) /\ block * block_size = Before + block_size
    BY <1>5 DEF Before
  <1>7. InBlock = IF n - Before < block_size THEN n - Before ELSE block_size
    BY DEF InBlock, n
  <1>8. /\ InBlock \in Int /\ InBlock <= block_size /\ Before + InBlock <= n
        /\ Before < n => InBlock > 0
        /\ Least(Before, n) + (IF Before < n THEN InBlock ELSE 0) = Least(Before + block_size, n)
    BY <1>1, <1>2, <1>6, <1>7 DEF Least
  <1> QED BY <1>1, <1>2, <1>4, <1>6, <1>8 DEF n

\* A timing more, in a list of results.
AddsTiming(version, acc, x, next) ==
    LET list == IF x \in DOMAIN acc THEN acc[x] ELSE <<>>
    IN  next = [length \in DOMAIN acc \cup {x} |->
                    IF length = x THEN Append(list, [version |-> version, length |-> x])
                    ELSE acc[length]]

\* An iteration of _update_results adds one timing to the tally of its length and
\* to the total, and nothing to the other lengths.
LEMMA OneTimingMore ==
    ASSUME NEW version, NEW acc, Timed(version, acc), NEW x, NEW next, AddsTiming(version, acc, x, next)
    PROVE  /\ Timed(version, next)
           /\ \A length : Tally(acc, length) \in Nat
                /\ Tally(next, length) = Tally(acc, length) + (IF length = x THEN 1 ELSE 0)
           /\ Total(Lens(acc)) \in Nat /\ Total(Lens(next)) = Total(Lens(acc)) + 1
  <1> DEFINE D == DOMAIN acc
             list == IF x \in DOMAIN acc THEN acc[x] ELSE <<>>
             S(length) == {[version |-> version, length |-> length]}
             longer == Append(list, [version |-> version, length |-> x])
  <1>1. IsFiniteSet(D) /\ \A length \in D : acc[length] \in Seq(S(length)) /\ acc[length] # <<>>
    BY DEF Timed
  <1>2. /\ DOMAIN next = D \cup {x} /\ next[x] = longer
        /\ \A length \in D : length # x => next[length] = acc[length]
    BY DEF AddsTiming
  <1>3. list \in Seq(S(x))
    BY <1>1
  <1>4. longer \in Seq(S(x)) /\ Len(longer) = Len(list) + 1 /\ longer # <<>>
    <2> DEFINE timing == [version |-> version, length |-> x]
    <2>1. timing \in S(x)
      OBVIOUS
    <2> HIDE DEF timing, S
    <2>2. Append(list, timing) \in Seq(S(x)) /\ Len(Append(list, timing)) = Len(list) + 1
      BY <1>3, <2>1
    <2>3. Len(list) \in Nat
      BY <1>3
    <2> QED BY <2>2, <2>3 DEF timing
  <1>5. Len(list) \in Nat /\ Len(list) = Tally(acc, x)
    <2>1. Len(<<>>) = 0
      OBVIOUS
    <2>2. Len(list) = Tally(acc, x)
      BY <2>1 DEF Tally
    <2> HIDE DEF list, S
    <2> QED BY <1>3, <2>2
  <1>6. \A length \in D : Len(acc[length]) \in Nat
    BY <1>1
  <1> HIDE DEF longer, S
  <1>7. Timed(version, next)
    <2>1. IsFiniteSet(D \cup {x})
      BY <1>1, FS_AddElement
    <2>2. \A length \in D \cup {x} : next[length] \in Seq(S(length)) \ {<<>>}
      BY <1>1, <1>2, <1>4
    <2>3. next = [length \in DOMAIN next |-> next[length]]
      BY DEF AddsTiming
    <2> QED BY <1>2, <2>1, <2>2, <2>3 DEF Timed, S
  <1>8. ASSUME NEW length
        PROVE  /\ Tally(acc, length) \in Nat
               /\ Tally(next, length) = Tally(acc, length) + (IF length = x THEN 1 ELSE 0)
    <2>1. Tally(acc, length) \in Nat
      BY <1>6 DEF Tally
    <2>2. CASE length = x
      BY <1>2, <1>4, <1>5, <2>2 DEF Tally
    <2>3. CASE length # x
      <3>1. Tally(next, length) = Tally(acc, length)
        BY <1>2, <2>3 DEF Tally
      <3> QED BY <2>1, <2>3, <3>1
    <2> QED BY <2>1, <2>2, <2>3
  <1>9. Total(Lens(acc)) \in Nat /\ Total(Lens(next)) = Total(Lens(acc)) + 1
    <2> DEFINE f == Lens(acc)
               g == Lens(next)
    <2>1. f \in [D -> Nat] /\ \A y \in D : f[y] = Len(acc[y])
      BY <1>6 DEF Lens
    <2>2. DOMAIN g = D \cup {x} /\ \A y \in D \cup {x} : g[y] = Len(next[y])
      BY <1>2 DEF Lens
    <2>3. g[x] = (IF x \in D THEN f[x] ELSE 0) + 1
      BY <1>2, <1>4, <1>5, <2>1, <2>2 DEF Tally
    <2>4. \A y \in D \ {x} : g[y] = f[y]
      BY <1>2, <2>1, <2>2
    <2>5. g \in [D \cup {x} -> Nat]
      <3>1. g = [y \in D \cup {x} |-> g[y]]
        BY <1>2 DEF Lens
      <3>2. g[x] \in Nat
        <4>1. g[x] = Len(list) + 1
          BY <1>2, <1>4, <2>2
        <4> HIDE DEF g
        <4> QED BY <1>5, <4>1
      <3>3. \A y \in D \cup {x} : g[y] \in Nat
        BY <2>1, <2>4, <3>2
      <3> HIDE DEF g, f, D
      <3> QED BY <3>1, <3>3
    <2> HIDE DEF f, g, D
    <2>6. IsFiniteSet(D) /\ f \in [D -> Nat]
      BY <1>1, <2>1
    <2>7. OneMore(D, f, x, g)
      BY ONLY <2>3, <2>4, <2>5, <2>6 DEF OneMore
    <2>8. Total(f) \in Nat /\ Total(g) = Total(f) + 1
      BY <2>7, TotalOfOneMore
    <2> QED BY <2>8 DEF f, g
  <1> QED BY <1>7, <1>8, <1>9

\* The values of no place, and of one more.
LEMMA OccursNone ==
    ASSUME NEW values, NEW length
    PROVE  Occurs(values, 0, length) = 0
  <1>1. {k \in 1 .. 0 : values[k] = length} = {}
    OBVIOUS
  <1> QED BY <1>1, FS_EmptySet DEF Occurs, Times

\* One place more adds one occurrence of its value.
LEMMA OccursNext ==
    ASSUME NEW values, NEW n \in Nat, NEW length
    PROVE  /\ Occurs(values, n, length) \in Nat
           /\ Occurs(values, n + 1, length)
                = Occurs(values, n, length) + (IF length = values[n + 1] THEN 1 ELSE 0)
  <1> DEFINE S(m) == {k \in 1 .. m : values[k] = length}
  <1>1. IsFiniteSet(1 .. n)
    BY FS_Interval
  <1>2. IsFiniteSet(S(n)) /\ Cardinality(S(n)) \in Nat
    <2>1. S(n) \in SUBSET (1 .. n)
      OBVIOUS
    <2> HIDE DEF S
    <2> QED BY <1>1, <2>1, FS_Subset, FS_CardinalityType
  <1>3. CASE length = values[n + 1]
    <2>1. S(n + 1) = S(n) \cup {n + 1} /\ n + 1 \notin S(n)
      BY <1>3
    <2> HIDE DEF S
    <2>2. Cardinality(S(n + 1)) = Cardinality(S(n)) + 1
      BY <1>2, <2>1, FS_AddElement
    <2> QED BY <1>2, <1>3, <2>2 DEF Occurs, Times, S
  <1>4. CASE length # values[n + 1]
    <2>1. S(n + 1) = S(n)
      BY <1>4
    <2>2. Occurs(values, n + 1, length) = Occurs(values, n, length)
      BY <2>1 DEF Occurs, Times
    <2>3. Occurs(values, n, length) \in Nat
      BY <1>2 DEF Occurs, Times
    <2> QED BY <1>4, <2>2, <2>3
  <1> QED BY <1>3, <1>4
\* A step between two states of the comparison.
LEMMA Within ==
    ASSUME TraceInv, NEW from \in Comparing, NEW to \in Comparing, pc[Bench] = from, Goto(Bench, to)
    PROVE  pc'[Bench] = to
  BY BenchAssumption DEF TraceInv, Goto

\* What is measured does not change with the loops.
LEMMA MeasureInvKept ==
    ASSUME MeasureInv, UNCHANGED <<ext, filter, length_arguments>>, pc[Bench] \in Comparing
    PROVE  MeasureInv'
  BY DEF MeasureInv, Asked, Taken, Size

\* NextBlock keeps it: none of the new block is done.
LEMMA NextBlockHolds ==
    ASSUME TraceInv, BenchInv, NextBlock
    PROVE  BenchInv'
  <1>1. /\ pc[Bench] = "next" /\ passes > 0 /\ Before < Len(length_arguments)
        /\ implementations' \in Shuffles(implementations) /\ count' = InBlock
        /\ inputs' = [k \in 1 .. block_size |-> IF k <= InBlock THEN length_arguments[Before + k]
                                                 ELSE inputs[k]]
        /\ called' = 0
        /\ UNCHANGED <<ext, filter, suffixes, length_arguments, passes, block, timings, recorded,
                       results, record_results, returned>>
    BY DEF NextBlock
  <1>2. pc'[Bench] = "call"
    BY <1>1, Within DEF NextBlock, Comparing
  <1>3. BenchTypeOK /\ ResultsOK /\ LoopInv /\ TallyInv /\ MeasureInv
    BY DEF BenchInv
  <1>4. length_arguments # <<>> /\ block > 0
    BY <1>1, <1>3 DEF LoopInv, Comparing
  <1> DEFINE n == Len(length_arguments)
  <1>5. /\ block_size \in Nat /\ n \in Nat /\ Before \in Nat
        /\ InBlock \in Int /\ InBlock <= block_size /\ Before + InBlock <= n /\ InBlock > 0
    BY <1>1, <1>3, <1>4, Numbers
  <1>6. BenchTypeOK'
    <2>1. implementations' \in {<<1, 2>>, <<2, 1>>}
      BY <1>1, <1>3, ShufflesOfTwo DEF BenchTypeOK
    <2>2. count' \in 0 .. block_size
      BY <1>1, <1>5
    <2>3. inputs' \in [1 .. block_size -> Int]
      <3> SUFFICES ASSUME NEW k \in 1 .. block_size
                   PROVE  (IF k <= InBlock THEN length_arguments[Before + k] ELSE inputs[k]) \in Int
        BY <1>1
      <3>1. CASE k <= InBlock
        <4>1. Before + k \in 1 .. n
          BY <1>5, <3>1
        <4>2. length_arguments \in Seq(Int)
          BY <1>3 DEF BenchTypeOK
        <4>3. length_arguments[Before + k] \in Int
          BY <4>1, <4>2
        <4> QED BY <3>1, <4>3
      <3>2. inputs[k] \in Int
        BY <1>3 DEF BenchTypeOK
      <3> QED BY <3>1, <3>2
    <2> QED BY <1>1, <1>3, <2>1, <2>2, <2>3 DEF BenchTypeOK
  <1>7. ResultsOK'
    BY <1>1, <1>3 DEF ResultsOK, Timed
  <1>8. Before' = Before /\ InBlock' = InBlock /\ Passes' = Passes
    BY <1>1 DEF Before, InBlock, Passes
  <1>9. LoopInv'
    BY <1>1, <1>2, <1>3, <1>8 DEF LoopInv, Comparing
  <1>10. TallyInv'
    <2>1. \A index : Done(index) = 0 /\ Done(index)' = 0
      BY <1>1, <1>2 DEF Done
    <2>2. DoneBefore' = DoneBefore
      BY <1>1, <1>8 DEF DoneBefore
    <2>3. \A length : Occurs(inputs, 0, length) = 0 /\ Occurs(inputs', 0, length) = 0
      BY OccursNone
    <2>4. pc[Bench] \in Comparing
      BY <1>1 DEF Comparing
    <2> QED BY <1>1, <1>3, <2>1, <2>2, <2>3, <2>4 DEF TallyInv
  <1>11. MeasureInv'
    BY <1>1, <1>3, MeasureInvKept DEF Comparing
  <1>12. PairedInv'
    BY <1>2 DEF PairedInv
  <1> QED BY <1>6, <1>7, <1>9, <1>10, <1>11, <1>12 DEF BenchInv

\* Call keeps it: the timings of the block are those of the version that was
\* called.
LEMMA CallHolds ==
    ASSUME TraceInv, BenchInv, Call
    PROVE  BenchInv'
  <1> DEFINE version == suffixes[implementations[called + 1]]
  <1>1. /\ pc[Bench] = "call" /\ called < 2
        /\ timings' = [k \in 1 .. block_size |->
                         IF k <= count THEN [version |-> version, length |-> inputs[k]] ELSE timings[k]]
        /\ called' = called + 1
        /\ UNCHANGED <<ext, filter, suffixes, length_arguments, passes, block, implementations, inputs,
                       count, recorded, results, record_results, returned>>
    BY DEF Call
  <1>2. pc'[Bench] = IF record_results THEN "record" ELSE "call"
    BY <1>1, Within DEF Call, Comparing
  <1>3. BenchTypeOK /\ ResultsOK /\ LoopInv /\ TallyInv /\ MeasureInv
    BY DEF BenchInv
  <1>4. /\ called \in 0 .. 2 /\ implementations \in {<<1, 2>>, <<2, 1>>} /\ recorded = 0
        /\ block_size \in Nat /\ count \in 0 .. block_size /\ record_results \in BOOLEAN
    BY <1>1, <1>3, BenchAssumption DEF BenchTypeOK, LoopInv
  <1>5. BenchTypeOK'
    <2>1. called' \in 0 .. 2
      BY <1>1, <1>4
    <2>2. DOMAIN timings' = 1 .. block_size
      BY <1>1
    <2> QED BY <1>1, <1>3, <2>1, <2>2 DEF BenchTypeOK
  <1>6. ResultsOK'
    BY <1>1, <1>3 DEF ResultsOK, Timed
  <1>7. Before' = Before /\ InBlock' = InBlock /\ Passes' = Passes
    BY <1>1 DEF Before, InBlock, Passes
  <1>8. LoopInv'
    <2>1. ASSUME NEW k \in 1 .. count'
          PROVE  timings'[k] = [version |-> suffixes'[implementations'[called']], length |-> inputs'[k]]
      <3>1. k \in 1 .. block_size /\ k <= count
        BY <1>1, <1>4
      <3> QED BY <1>1, <3>1
    <2>2. called' > 0 /\ recorded' = 0 /\ recorded' <= count'
      BY <1>1, <1>4
    <2> QED BY <1>1, <1>2, <1>3, <1>4, <1>7, <2>1, <2>2 DEF LoopInv, Comparing
  <1>9. TallyInv'
    <2>1. ASSUME NEW index \in Indices
          PROVE  Done(index)' = Done(index)
      <3>1. CASE ~record_results
        BY <1>1, <3>1 DEF Done
      <3>2. CASE record_results
        <4>1. pc'[Bench] = "record"
          BY <1>2, <3>2
        <4>2. \/ called = 0 /\ called' = 1
              \/ called = 1 /\ called' = 2
          BY <1>1, <1>4
        <4>3. CASE called = 0
          <5>1. Done(index) = 0
            BY <1>1, <4>3 DEF Done
          <5>2. implementations[1] # index => ~\E j \in 1 .. 1 : implementations[j] = index
            OBVIOUS
          <5>3. Done(index)' = 0
            BY <1>1, <1>4, <4>1, <4>2, <4>3, <5>2 DEF Done
          <5> QED BY <5>1, <5>3
        <4>4. CASE called = 1
          <5>1. Done(index) = IF implementations[1] = index THEN count ELSE 0
            BY <1>1, <3>2, <4>4 DEF Done
          <5>2. Done(index)' = IF implementations[2] = index THEN 0 ELSE count
            <6>1. implementations[1] = index \/ implementations[2] = index
              BY <1>4 DEF Indices
            <6>2. Done(index)' = IF index = implementations[2] THEN recorded
                                ELSE IF \E j \in 1 .. 2 : implementations[j] = index THEN count ELSE 0
              BY <1>1, <3>2, <4>1, <4>2, <4>4 DEF Done
            <6>3. implementations[1] = index => \E j \in 1 .. 2 : implementations[j] = index
              OBVIOUS
            <6> QED BY <1>4, <6>1, <6>2, <6>3
          <5>3. implementations[1] = index <=> implementations[2] # index
            BY <1>4 DEF Indices
          <5> QED BY <5>1, <5>2, <5>3
        <4> QED BY <4>2, <4>3, <4>4
      <3> QED BY <1>4, <3>1, <3>2
    <2>2. DoneBefore' = DoneBefore
      BY <1>1, <1>7 DEF DoneBefore
    <2>3. pc[Bench] \in Comparing /\ 1 \in Indices /\ 2 \in Indices
      BY <1>1 DEF Comparing, Indices
    <2> QED BY <1>1, <1>3, <2>1, <2>2, <2>3 DEF TallyInv
  <1>10. MeasureInv'
    BY <1>1, <1>3, MeasureInvKept DEF Comparing
  <1>11. PairedInv'
    BY <1>2 DEF PairedInv
  <1> QED BY <1>5, <1>6, <1>8, <1>9, <1>10, <1>11 DEF BenchInv

\* Record keeps it: one more of the block is done for that version.
LEMMA RecordHolds ==
    ASSUME TraceInv, BenchInv, Record
    PROVE  BenchInv'
  <1>0. BenchTypeOK /\ ResultsOK /\ LoopInv /\ TallyInv /\ MeasureInv /\ pc[Bench] = "record"
    BY DEF BenchInv, Record
  <1>3. /\ called \in {1, 2} /\ implementations \in {<<1, 2>>, <<2, 1>>}
        /\ recorded \in Nat /\ count \in Nat /\ record_results
    BY <1>0, BenchAssumption DEF BenchTypeOK, LoopInv
  <1>4. PICK index \in Indices : index = implementations[called]
    BY <1>3 DEF Indices
  <1> DEFINE k == recorded + 1
             acc == results[index]
             list == IF inputs[k] \in DOMAIN acc THEN acc[inputs[k]] ELSE <<>>
             next == [length \in DOMAIN acc \cup {inputs[k]} |->
                        IF length = inputs[k] THEN Append(list, timings[k]) ELSE acc[length]]
             version == suffixes[index]
  <1>1. /\ pc[Bench] = "record" /\ recorded < count
        /\ results' = [results EXCEPT ![index] = next] /\ recorded' = k
        /\ UNCHANGED <<ext, pc, filter, suffixes, length_arguments, passes, block, implementations,
                       called, inputs, timings, count, record_results, returned>>
    BY <1>4 DEF Record, Recorded, traceVars
  <1>2. BenchTypeOK /\ ResultsOK /\ LoopInv /\ TallyInv /\ MeasureInv
    BY <1>0
  <1>5. timings[k] = [version |-> version, length |-> inputs[k]]
    <2>1. k \in 1 .. count
      BY <1>1, <1>3
    <2> QED BY <1>1, <1>2, <1>4, <2>1 DEF LoopInv
  <1>6. DOMAIN results = Indices /\ Timed(version, acc)
    BY <1>2, <1>4 DEF ResultsOK
  <1>7. next = [length \in DOMAIN acc \cup {inputs[k]} |->
                    IF length = inputs[k] THEN Append(list, [version |-> version, length |-> inputs[k]])
                    ELSE acc[length]]
    BY <1>5
  <1> DEFINE x == inputs[k]
  <1>8. /\ Timed(version, next)
        /\ \A length : Tally(acc, length) \in Nat
            /\ Tally(next, length) = Tally(acc, length) + (IF length = x THEN 1 ELSE 0)
        /\ Total(Lens(acc)) \in Nat /\ Total(Lens(next)) = Total(Lens(acc)) + 1
    <2>1. AddsTiming(version, acc, x, next)
      BY <1>7 DEF AddsTiming
    <2> HIDE DEF next, acc, version, x
    <2> QED BY <1>6, <2>1, OneTimingMore
  <1>9. /\ DOMAIN results' = Indices /\ results'[index] = next
        /\ \A i \in Indices : i # index => results'[i] = results[i]
    BY <1>1, <1>6
  <1>10. BenchTypeOK'
    BY <1>1, <1>2, <1>3 DEF BenchTypeOK
  <1>11. ResultsOK'
    <2> SUFFICES ASSUME NEW i \in Indices
                 PROVE  Timed(suffixes[i], results'[i])
      BY <1>1, <1>9 DEF ResultsOK
    <2> QED BY <1>2, <1>8, <1>9 DEF ResultsOK
  <1>12. Before' = Before /\ InBlock' = InBlock /\ Passes' = Passes
    BY <1>1 DEF Before, InBlock, Passes
  <1>13. LoopInv'
    <2>1. recorded' <= count'
      BY <1>1, <1>3
    <2> QED BY <1>1, <1>2, <1>3, <1>12, <2>1 DEF LoopInv
  <1>14. TallyInv'
    <2>1. Done(index) = recorded /\ Done(index)' = recorded + 1
      BY <1>1, <1>3, <1>4 DEF Done
    <2>2. \A i \in Indices : i # index => Done(i)' = Done(i)
      BY <1>1, <1>3, <1>4 DEF Done
    <2>3. DoneBefore' = DoneBefore
      BY <1>1, <1>12 DEF DoneBefore
    <2>4. pc[Bench] \in Comparing /\ 1 \in Indices /\ 2 \in Indices
      BY <1>1 DEF Comparing, Indices
    <2>5. PICK other \in Indices : other # index /\ \A i \in Indices : i = index \/ i = other
      BY <1>4 DEF Indices
    <2>6. DoneBefore \in Int
      <3>1. length_arguments # <<>> /\ block > 0 /\ passes \in Nat
        BY <1>2, <2>4 DEF LoopInv, BenchTypeOK
      <3> DEFINE n == Len(length_arguments)
      <3>2. n \in Nat /\ Passes \in Nat /\ Before \in Nat /\ block_size \in Nat
        BY <1>2, <3>1, Numbers
      <3>3. (Passes - passes) * n \in Int
        <4>1. Passes - passes \in Int
          BY <3>1, <3>2
        <4> HIDE DEF n
        <4> QED BY <3>2, <4>1, Products
      <3> DEFINE product == (Passes - passes) * n
      <3>4. Least(Before, n) \in Int /\ Least(block_size, n) \in Int
        BY <3>2 DEF Least
      <3>5. DoneBefore = product + Least(Before, n) - Least(block_size, n)
        BY <1>3 DEF DoneBefore
      <3> HIDE DEF product, n
      <3> QED BY <3>3, <3>4, <3>5 DEF product
    <2>7. \A i \in Indices : Total(Lens(results'[i])) = DoneBefore + Done(i)'
      <3>1. \A i \in Indices : Total(Lens(results[i])) = DoneBefore + Done(i)
        BY <1>2, <2>4 DEF TallyInv
      <3>2. Total(Lens(results'[other])) = DoneBefore + Done(other)'
        BY <1>9, <2>2, <2>5, <3>1
      <3>3. Total(Lens(results'[index])) = DoneBefore + Done(index)'
        <4>1. Total(Lens(acc)) = DoneBefore + recorded
          BY <1>4, <2>1, <3>1
        <4> HIDE DEF acc, next
        <4>2. Total(Lens(next)) = DoneBefore + (recorded + 1)
          BY <1>3, <1>8, <2>6, <4>1
        <4> QED BY <1>9, <2>1, <4>2
      <3> QED BY <2>5, <3>2, <3>3
    <2>8. ASSUME NEW length
          PROVE  Tally(results'[1], length) + Occurs(inputs, Done(2)', length)
                    = Tally(results'[2], length) + Occurs(inputs, Done(1)', length)
      <3>1. Tally(results[1], length) + Occurs(inputs, Done(2), length)
                = Tally(results[2], length) + Occurs(inputs, Done(1), length)
        BY <1>2, <2>4 DEF TallyInv
      <3>2. Tally(results[index], length) + Occurs(inputs, Done(other), length)
                = Tally(results[other], length) + Occurs(inputs, Done(index), length)
        <4>1. \/ index = 1 /\ other = 2
              \/ index = 2 /\ other = 1
          BY <1>4, <2>5 DEF Indices
        <4>2. CASE index = 1 /\ other = 2
          BY <3>1, <4>2
        <4>3. CASE index = 2 /\ other = 1
          BY <3>1, <4>3
        <4> QED BY <4>1, <4>2, <4>3
      <3>3. /\ Occurs(inputs, recorded, length) \in Nat
            /\ Occurs(inputs, recorded + 1, length)
                = Occurs(inputs, recorded, length) + (IF length = inputs[recorded + 1] THEN 1 ELSE 0)
        BY <1>3, OccursNext
      <3> DEFINE one == IF length = x THEN 1 ELSE 0
      <3>4. one \in Nat
        OBVIOUS
      <3>5. Occurs(inputs, Done(index)', length) = Occurs(inputs, Done(index), length) + one
        BY <2>1, <3>3
      <3>6. Tally(results'[index], length) = Tally(results[index], length) + one
        BY <1>8, <1>9
      <3>7. /\ Tally(results'[other], length) = Tally(results[other], length)
            /\ Occurs(inputs, Done(other)', length) = Occurs(inputs, Done(other), length)
        BY <1>9, <2>2, <2>5
      <3>8. Tally(results[index], length) \in Nat /\ Occurs(inputs, Done(index), length) \in Nat
        BY <1>8, <2>1, <3>3
      <3>9. Tally(results[other], length) \in Nat /\ Occurs(inputs, Done(other), length) \in Nat
        <4>1. Done(other) \in Nat
          BY <1>3 DEF Done
        <4>2. Tally(results[other], length) \in Nat
          BY <1>2, <2>5 DEF ResultsOK, Timed, Tally
        <4> QED BY <4>1, <4>2, OccursNext
      <3> HIDE DEF one
      <3>10. Tally(results'[index], length) + Occurs(inputs, Done(other)', length)
                = Tally(results'[other], length) + Occurs(inputs, Done(index)', length)
        BY <3>2, <3>4, <3>5, <3>6, <3>7, <3>8, <3>9
      <3>11. CASE index = 1
        <4>1. other = 2
          BY <2>5, <3>11 DEF Indices
        <4> QED BY <3>10, <3>11, <4>1
      <3>12. CASE index = 2
        <4>1. other = 1
          BY <2>5, <3>12 DEF Indices
        <4> QED BY <3>10, <3>12, <4>1
      <3> QED BY <1>4, <3>11, <3>12 DEF Indices
    <2> QED BY <1>1, <2>3, <2>7, <2>8 DEF TallyInv
  <1>15. MeasureInv'
    BY <1>1, <1>2, MeasureInvKept DEF Comparing
  <1>16. PairedInv'
    BY <1>1 DEF PairedInv
  <1> QED BY <1>10, <1>11, <1>13, <1>14, <1>15, <1>16 DEF BenchInv

\* EndRecord keeps it: the version has all of the block.
LEMMA EndRecordHolds ==
    ASSUME TraceInv, BenchInv, EndRecord
    PROVE  BenchInv'
  <1>1. /\ pc[Bench] = "record" /\ recorded = count /\ recorded' = 0
        /\ UNCHANGED <<ext, filter, suffixes, length_arguments, passes, block, implementations,
                       called, inputs, timings, count, results, record_results, returned>>
    BY DEF EndRecord, Recorded
  <1>2. pc'[Bench] = "call"
    BY <1>1, Within DEF EndRecord, Comparing
  <1>3. BenchTypeOK /\ ResultsOK /\ LoopInv /\ TallyInv /\ MeasureInv
    BY DEF BenchInv
  <1>4. called \in 1 .. 2 /\ record_results
    BY <1>1, <1>3 DEF BenchTypeOK, LoopInv
  <1>5. BenchTypeOK'
    BY <1>1, <1>3 DEF BenchTypeOK
  <1>6. ResultsOK'
    BY <1>1, <1>3 DEF ResultsOK, Timed
  <1>7. Before' = Before /\ InBlock' = InBlock /\ Passes' = Passes
    BY <1>1 DEF Before, InBlock, Passes
  <1>8. LoopInv'
    BY <1>1, <1>2, <1>3, <1>7 DEF LoopInv, Comparing
  <1>9. TallyInv'
    <2>1. ASSUME NEW index \in Indices
          PROVE  Done(index)' = Done(index)
      <3>1. Done(index) = IF index = implementations[called] THEN count
                          ELSE IF \E j \in 1 .. called : implementations[j] = index THEN count ELSE 0
        BY <1>1, <1>4 DEF Done
      <3>2. Done(index)' = IF \E j \in 1 .. called : implementations[j] = index THEN count ELSE 0
        BY <1>1, <1>2, <1>4 DEF Done
      <3>3. index = implementations[called] => \E j \in 1 .. called : implementations[j] = index
        BY <1>4
      <3> QED BY <3>1, <3>2, <3>3
    <2>2. DoneBefore' = DoneBefore
      BY <1>1, <1>7 DEF DoneBefore
    <2>3. pc[Bench] \in Comparing /\ 1 \in Indices /\ 2 \in Indices
      BY <1>1 DEF Comparing, Indices
    <2> QED BY <1>1, <1>3, <2>1, <2>2, <2>3 DEF TallyInv
  <1>10. MeasureInv'
    BY <1>1, <1>3, MeasureInvKept DEF Comparing
  <1>11. PairedInv'
    BY <1>2 DEF PairedInv
  <1> QED BY <1>5, <1>6, <1>8, <1>9, <1>10, <1>11 DEF BenchInv

\* EndBlock keeps it: both versions have all of the block, unless it was the first.
LEMMA EndBlockHolds ==
    ASSUME TraceInv, BenchInv, EndBlock
    PROVE  BenchInv'
  <1>1. /\ pc[Bench] = "call" /\ called = 2 /\ record_results' = TRUE /\ block' = block + 1
        /\ UNCHANGED <<ext, filter, suffixes, length_arguments, passes, implementations, called,
                       inputs, timings, count, recorded, results, returned>>
    BY DEF EndBlock
  <1>2. pc'[Bench] = "next"
    BY <1>1, Within DEF EndBlock, Comparing
  <1>3. BenchTypeOK /\ ResultsOK /\ LoopInv /\ TallyInv /\ MeasureInv /\ pc[Bench] \in Comparing
    BY <1>1 DEF BenchInv, Comparing
  <1>4. /\ length_arguments # <<>> /\ block \in Nat /\ block > 0 /\ passes \in Nat /\ passes > 0
        /\ passes <= Passes /\ Before < Len(length_arguments) /\ count = InBlock /\ recorded = 0
        /\ implementations \in {<<1, 2>>, <<2, 1>>} /\ record_results \in BOOLEAN
    BY <1>1, <1>3 DEF LoopInv, BenchTypeOK
  <1> DEFINE n == Len(length_arguments)
  <1>5. /\ block_size \in Nat /\ n \in Nat /\ Before \in Nat /\ Passes \in Nat /\ InBlock \in Int
        /\ block = 1 => Before = 0
        /\ block * block_size = Before + block_size
        /\ Least(Before, n) + InBlock = Least(Before + block_size, n)
    BY <1>3, <1>4, Numbers
  <1>6. Passes' = Passes /\ Before' = Before + block_size
    <2>1. (block + 1) - 1 = block
      BY <1>4
    <2>2. Before' = block * block_size
      BY <1>1, <2>1 DEF Before
    <2> QED BY <1>1, <1>5, <2>2 DEF Passes
  <1>7. BenchTypeOK'
    <2>1. block' \in Nat
      BY <1>1, <1>4
    <2> QED BY <1>1, <1>3, <2>1 DEF BenchTypeOK
  <1>8. ResultsOK'
    BY <1>1, <1>3 DEF ResultsOK, Timed
  <1>9. LoopInv'
    <2>1. block' > 0 /\ passes' # 0
      BY <1>1, <1>4
    <2> QED BY <1>1, <1>2, <1>3, <1>4, <1>6, <2>1 DEF LoopInv, Comparing
  <1>10. TallyInv'
    <2>1. \A index : Done(index)' = 0
      BY <1>2 DEF Done
    <2>2. ASSUME NEW index \in Indices
          PROVE  Done(index) = IF record_results THEN count ELSE 0
      <3>1. \E j \in 1 .. 2 : implementations[j] = index
        BY <1>4 DEF Indices
      <3> QED BY <1>1, <1>4, <3>1 DEF Done
    <2>3. ASSUME NEW index \in Indices
          PROVE  DoneBefore' = DoneBefore + Done(index)
      <3> DEFINE product == (Passes - passes) * n
      <3>1. DoneBefore' = product + Least(Before + block_size, n) - Least(block_size, n)
        BY <1>1, <1>6 DEF DoneBefore
      <3>2. DoneBefore = IF record_results THEN product + Least(Before, n) - Least(block_size, n) ELSE 0
        BY DEF DoneBefore
      <3>3. Passes - passes \in Int
        BY <1>4, <1>5
      <3>4. product \in Int /\ 0 * n = 0
        <4> HIDE DEF n
        <4> QED BY <1>5, <3>3, Products
      <3>5. Least(Before, n) \in Int /\ Least(block_size, n) \in Int
        BY <1>5 DEF Least
      <3>6. CASE record_results
        <4> HIDE DEF product, n
        <4> QED BY <1>4, <1>5, <2>2, <3>1, <3>2, <3>4, <3>5, <3>6
      <3>7. CASE ~record_results
        <4>1. passes = Passes /\ block = 1
          BY <1>3, <3>7 DEF LoopInv
        <4>2. Passes - passes = 0 /\ Before + block_size = block_size
          BY <1>5, <4>1
        <4>3. product = 0
          BY <3>4, <4>2
        <4>4. Least(Before + block_size, n) = Least(block_size, n)
          BY <4>2
        <4>5. Done(index) = 0
          BY <2>2, <3>7
        <4> HIDE DEF product, n
        <4> QED BY <3>1, <3>2, <3>5, <3>7, <4>3, <4>4, <4>5
      <3> QED BY <1>4, <3>6, <3>7
    <2>4. \A index \in Indices : Total(Lens(results[index])) = DoneBefore + Done(index)
      BY <1>3 DEF TallyInv
    <2>5. DoneBefore' + 0 = DoneBefore'
      <3>1. DoneBefore' = (Passes - passes) * n + Least(Before + block_size, n) - Least(block_size, n)
        BY <1>1, <1>6 DEF DoneBefore
      <3>2. Passes - passes \in Int
        BY <1>4, <1>5
      <3>3. (Passes - passes) * n \in Int
        <4> HIDE DEF n
        <4> QED BY <1>5, <3>2, Products
      <3>4. Least(Before + block_size, n) \in Int /\ Least(block_size, n) \in Int
        BY <1>5 DEF Least
      <3> QED BY <3>1, <3>3, <3>4
    <2>6. ASSUME NEW length
          PROVE  Tally(results[1], length) + 0 = Tally(results[2], length) + 0
      <3>1. Tally(results[1], length) + Occurs(inputs, Done(2), length)
                = Tally(results[2], length) + Occurs(inputs, Done(1), length)
        BY <1>3 DEF TallyInv
      <3>2. Done(1) = Done(2) /\ Done(1) \in Nat
        BY <1>4, <1>5, <2>2, <1>3 DEF Indices, BenchTypeOK
      <3>3. Occurs(inputs, Done(1), length) \in Nat
        BY <3>2, OccursNext
      <3>4. Tally(results[1], length) \in Nat /\ Tally(results[2], length) \in Nat
        BY <1>3 DEF ResultsOK, Timed, Tally, Indices
      <3> QED BY <3>1, <3>2, <3>3, <3>4
    <2>7. \A length : Occurs(inputs, 0, length) = 0
      BY OccursNone
    <2>8. \A length : Tally(results'[1], length) + Occurs(inputs', Done(2)', length)
                        = Tally(results'[2], length) + Occurs(inputs', Done(1)', length)
      BY <1>1, <2>1, <2>6, <2>7
    <2>9. \A index \in Indices : Total(Lens(results'[index])) = DoneBefore' + Done(index)'
      BY <1>1, <2>1, <2>3, <2>4, <2>5
    <2> QED BY <2>8, <2>9 DEF TallyInv
  <1>11. MeasureInv'
    BY <1>1, <1>3, MeasureInvKept
  <1>12. PairedInv'
    BY <1>2 DEF PairedInv
  <1> QED BY <1>7, <1>8, <1>9, <1>10, <1>11, <1>12 DEF BenchInv

\* EndPass keeps it: shuffling changes neither the number of lengths nor how often
\* each is there.
LEMMA EndPassHolds ==
    ASSUME TraceInv, BenchInv, EndPass
    PROVE  BenchInv'
  <1>1. /\ pc[Bench] = "next" /\ passes > 0 /\ Before >= Len(length_arguments)
        /\ length_arguments' \in Shuffles(length_arguments) /\ passes' = passes - 1 /\ block' = 1
        /\ UNCHANGED <<ext, pc, filter, suffixes, implementations, called, inputs, timings, count,
                       recorded, results, record_results, returned>>
    BY DEF EndPass, traceVars
  <1>2. BenchTypeOK /\ ResultsOK /\ LoopInv /\ TallyInv /\ MeasureInv /\ pc[Bench] \in Comparing
    BY <1>1 DEF BenchInv, Comparing
  <1>3. /\ length_arguments \in Seq(Int) /\ length_arguments # <<>> /\ block > 0
        /\ passes \in Nat /\ passes <= Passes /\ recorded = 0
    BY <1>1, <1>2 DEF LoopInv, BenchTypeOK
  <1> DEFINE n == Len(length_arguments)
  <1>4. /\ block_size \in Nat /\ block_size > 0 /\ n \in Nat /\ n > 0 /\ Before \in Nat
        /\ Passes \in Nat /\ (block = 1 => Before = 0)
    BY <1>2, <1>3, Numbers
  <1>5. record_results
    BY <1>1, <1>2, <1>4 DEF LoopInv, BenchTypeOK
  <1>6. /\ length_arguments' \in Seq(Int) /\ Len(length_arguments') = n
        /\ \A v : Times(DOMAIN length_arguments', length_arguments', v)
                    = Times(DOMAIN length_arguments, length_arguments, v)
    BY <1>1, <1>3, ShuffleKeeps
  <1>7. Passes' = Passes /\ Before' = 0
    <2>1. (1 - 1) * block_size = 0
      BY <1>4, Products
    <2> QED BY <1>1, <1>6, <2>1 DEF Passes, Before
  <1>8. passes' \in Nat /\ passes' <= Passes
    BY <1>1, <1>3, <1>4
  <1>9. BenchTypeOK'
    BY <1>1, <1>2, <1>6, <1>8 DEF BenchTypeOK
  <1>10. ResultsOK'
    BY <1>1, <1>2 DEF ResultsOK, Timed
  <1>11. LoopInv'
    <2>1. length_arguments' # <<>>
      BY <1>4, <1>6
    <2> QED BY <1>1, <1>2, <1>3, <1>5, <1>7, <1>8, <2>1 DEF LoopInv
  <1>12. TallyInv'
    <2>1. \A index : Done(index) = 0 /\ Done(index)' = 0
      BY <1>1 DEF Done
    <2>2. DoneBefore' = DoneBefore
      <3> DEFINE product == (Passes - passes) * n
      <3>1. (Passes - (passes - 1)) * n = product + n /\ product \in Int
        <4>1. Passes - passes \in Int /\ Passes - (passes - 1) = (Passes - passes) + 1
          BY <1>3, <1>4
        <4> HIDE DEF n
        <4> QED BY <1>4, <4>1, Products
      <3>2. DoneBefore' = (Passes - (passes - 1)) * n + Least(0, n) - Least(block_size, n)
        BY <1>1, <1>5, <1>6, <1>7 DEF DoneBefore
      <3>3. DoneBefore = product + Least(Before, n) - Least(block_size, n)
        BY <1>5 DEF DoneBefore
      <3>4. Least(0, n) = 0 /\ Least(Before, n) = n /\ Least(block_size, n) \in Int
        BY <1>1, <1>4 DEF Least
      <3> HIDE DEF product, n
      <3> QED BY <1>4, <3>1, <3>2, <3>3, <3>4
    <2> QED BY <1>1, <1>2, <2>1, <2>2 DEF TallyInv
  <1>13. MeasureInv'
    <2>1. \A length : Asked(Lines, length)' = Asked(Lines, length)
      BY <1>1 DEF Asked, Taken, Size
    <2> QED BY <1>1, <1>2, <1>6, <2>1 DEF MeasureInv
  <1>14. PairedInv'
    BY <1>1 DEF PairedInv
  <1> QED BY <1>9, <1>10, <1>11, <1>12, <1>13, <1>14 DEF BenchInv

\* A length with results has some.
LEMMA TallyOfTimed ==
    ASSUME NEW version, NEW acc, Timed(version, acc), NEW length
    PROVE  Tally(acc, length) # 0 <=> length \in DOMAIN acc
  <1> DEFINE S == {[version |-> version, length |-> length]}
  <1>1. CASE length \in DOMAIN acc
    <2>1. acc[length] \in Seq(S) /\ acc[length] # <<>>
      BY <1>1 DEF Timed
    <2> HIDE DEF S
    <2>2. Len(acc[length]) # 0
      BY <2>1
    <2> QED BY <1>1, <2>2 DEF Tally
  <1>2. CASE length \notin DOMAIN acc
    BY <1>2 DEF Tally
  <1> QED BY <1>1, <1>2

\* Results of two versions with as many timings of each length.
LEMMA SameTallies ==
    ASSUME NEW v, NEW acc, Timed(v, acc), NEW w, NEW other, Timed(w, other),
           \A length : Tally(acc, length) = Tally(other, length)
    PROVE  /\ DOMAIN acc = DOMAIN other
           /\ \A length \in DOMAIN acc :
                /\ Len(acc[length]) = Len(other[length])
                /\ Range(acc[length]) = {[version |-> v, length |-> length]}
  <1>1. \A length : Tally(acc, length) # 0 <=> length \in DOMAIN acc
    BY TallyOfTimed
  <1>2. \A length : Tally(other, length) # 0 <=> length \in DOMAIN other
    BY TallyOfTimed
  <1>3. DOMAIN acc = DOMAIN other
    BY <1>1, <1>2
  <1>4. \A length \in DOMAIN acc : Len(acc[length]) = Len(other[length])
    BY <1>3 DEF Tally
  <1>5. ASSUME NEW length \in DOMAIN acc
        PROVE  Range(acc[length]) = {[version |-> v, length |-> length]}
    <2> DEFINE timing == [version |-> v, length |-> length]
    <2>1. acc[length] \in Seq({timing}) /\ acc[length] # <<>>
      BY DEF Timed
    <2> HIDE DEF timing
    <2>2. PICK list \in Seq({timing}) : list = acc[length] /\ list # <<>>
      BY <2>1
    <2>3. 1 \in DOMAIN list /\ \A k \in DOMAIN list : list[k] = timing
      BY <2>2
    <2>4. Range(list) = {timing}
      BY <2>3 DEF Range
    <2> QED BY <2>2, <2>4 DEF timing
  <1> QED BY <1>3, <1>4, <1>5

\* Return keeps it: versions are put back in order, and each result gets its name.
LEMMA ReturnHolds ==
    ASSUME TraceInv, BenchInv, Return
    PROVE  BenchInv'
  <1>1. /\ pc[Bench] = "next" /\ passes = 0 /\ implementations' = Ordered
        /\ returned' = [s \in Range(suffixes) |->
                          IF s = suffixes[2] THEN results[Ordered[2]] ELSE results[Ordered[1]]]
        /\ UNCHANGED <<ext, filter, suffixes, length_arguments, passes, block, called, inputs, timings,
                       count, recorded, results, record_results>>
    BY DEF Return
  <1>2. pc'[Bench] = "returned"
    BY <1>1, Within DEF Return, Comparing
  <1>3. BenchTypeOK /\ ResultsOK /\ LoopInv /\ TallyInv /\ MeasureInv /\ pc[Bench] \in Comparing
    BY <1>1 DEF BenchInv, Comparing
  <1>4. length_arguments # <<>> /\ block > 0 /\ block = 1 /\ suffixes \in [Indices -> Versions]
    BY <1>1, <1>3 DEF LoopInv, BenchTypeOK
  <1> DEFINE n == Len(length_arguments)
  <1>5. /\ block_size \in Nat /\ n \in Nat /\ n > 0 /\ Passes \in Nat /\ Passes > 0 /\ Before = 0
    BY <1>3, <1>4, Numbers
  <1>6. record_results
    BY <1>1, <1>3, <1>5 DEF LoopInv
  <1>7. Ordered = <<1, 2>>
    BY <1>3, ShufflesOfTwo DEF Ordered, BenchTypeOK
  <1>8. BenchTypeOK'
    BY <1>1, <1>3, <1>7 DEF BenchTypeOK
  <1>9. ResultsOK'
    BY <1>1, <1>3 DEF ResultsOK, Timed
  <1>10. Before' = Before /\ InBlock' = InBlock /\ Passes' = Passes
    BY <1>1 DEF Before, InBlock, Passes
  <1>11. LoopInv'
    BY <1>1, <1>2, <1>3, <1>10 DEF LoopInv, Comparing
  <1>12. \A index : Done(index) = 0 /\ Done(index)' = 0
    BY <1>1, <1>2 DEF Done
  <1>13. TallyInv'
    <2>1. DoneBefore' = DoneBefore
      BY <1>1, <1>10 DEF DoneBefore
    <2> QED BY <1>1, <1>3, <1>12, <2>1 DEF TallyInv
  <1>14. MeasureInv'
    BY <1>1, <1>3, MeasureInvKept
  <1>15. PairedInv'
    <2> DEFINE total == (Passes * n) - Least(n, block_size)
    <2>1. DoneBefore = total
      <3>1. DoneBefore = (Passes - 0) * n + Least(0, n) - Least(block_size, n)
        BY <1>1, <1>5, <1>6 DEF DoneBefore
      <3>2. Passes - 0 = Passes
        BY <1>5
      <3>3. Least(0, n) = 0 /\ Least(block_size, n) = Least(n, block_size) /\ Least(n, block_size) \in Int
        BY <1>5 DEF Least
      <3>4. Passes * n \in Int
        <4> HIDE DEF n
        <4> QED BY <1>5, Products
      <3> QED BY <3>1, <3>2, <3>3, <3>4
    <2>2. total \in Int
      <3>1. Passes * n \in Int
        <4> HIDE DEF n
        <4> QED BY <1>5, Products
      <3> QED BY <1>5, <3>1 DEF Least
    <2> HIDE DEF total
    <2>3. 1 \in Indices /\ 2 \in Indices /\ \A index \in Indices : index = 1 \/ index = 2
      BY DEF Indices
    <2>4. ASSUME NEW index \in Indices
          PROVE  Timed(suffixes[index], results[index]) /\ Total(Lens(results[index])) = total
      <3>1. Total(Lens(results[index])) = DoneBefore + Done(index)
        BY <1>3 DEF TallyInv
      <3>2. Timed(suffixes[index], results[index])
        BY <1>3 DEF ResultsOK
      <3> QED BY <1>12, <2>1, <2>2, <3>1, <3>2
    <2>5. ASSUME NEW length
          PROVE  Tally(results[1], length) = Tally(results[2], length)
      <3>1. Tally(results[1], length) + Occurs(inputs, Done(2), length)
                = Tally(results[2], length) + Occurs(inputs, Done(1), length)
        BY <1>3 DEF TallyInv
      <3>2. Occurs(inputs, 0, length) = 0
        BY OccursNone
      <3>3. Tally(results[1], length) \in Nat /\ Tally(results[2], length) \in Nat
        BY <2>3, <2>4 DEF Timed, Tally
      <3> QED BY <1>12, <3>1, <3>2, <3>3
    <2>6. ASSUME NEW i \in Indices, NEW j \in Indices
          PROVE  /\ DOMAIN results[i] = DOMAIN results[j]
                 /\ \A length \in DOMAIN results[i] :
                    /\ Len(results[i][length]) = Len(results[j][length])
                    /\ Range(results[i][length]) = {[version |-> suffixes[i], length |-> length]}
      <3>1. \A length : Tally(results[i], length) = Tally(results[j], length)
        BY <2>3, <2>5
      <3>2. Timed(suffixes[i], results[i]) /\ Timed(suffixes[j], results[j])
        BY <2>4
      <3> QED BY <3>1, <3>2, SameTallies
    <2>7. \A s \in DOMAIN returned' : \E i \in Indices : suffixes[i] = s /\ returned'[s] = results[i]
      <3>1. DOMAIN returned' = Range(suffixes)
        BY <1>1
      <3>2. \A s \in Range(suffixes) : s = suffixes[1] \/ s = suffixes[2]
        BY <1>4 DEF Range, Indices
      <3>3. \A s \in DOMAIN returned' : returned'[s] = IF s = suffixes[2] THEN results[2] ELSE results[1]
        BY <1>1, <1>7
      <3> QED BY <2>3, <3>1, <3>2, <3>3
    <2>8. Paired(returned', total)
      <3>1. ASSUME NEW s \in DOMAIN returned', NEW length \in DOMAIN returned'[s]
            PROVE  Range(returned'[s][length]) = {[version |-> s, length |-> length]}
        BY <2>6, <2>7
      <3>2. ASSUME NEW s \in DOMAIN returned', NEW t \in DOMAIN returned'
            PROVE  /\ DOMAIN returned'[s] = DOMAIN returned'[t]
                   /\ \A length \in DOMAIN returned'[s] :
                        Len(returned'[s][length]) = Len(returned'[t][length])
        <4>1. PICK i \in Indices : returned'[s] = results[i]
          BY <2>7
        <4>2. PICK j \in Indices : returned'[t] = results[j]
          BY <2>7
        <4> QED BY <2>6, <4>1, <4>2
      <3>3. ASSUME NEW s \in DOMAIN returned'
            PROVE  Total(Lens(returned'[s])) = total
        BY <2>4, <2>7
      <3> QED BY <3>1, <3>2, <3>3 DEF Paired
    <2> QED BY <1>1, <1>10, <2>8 DEF PairedInv, total
  <1> QED BY <1>8, <1>9, <1>11, <1>13, <1>14, <1>15 DEF BenchInv
\* Every step keeps the invariant.
LEMMA NextHolds ==
    ASSUME IndInv, [Next]_vars
    PROVE  IndInv'
  <1>1. TraceInv /\ BenchInv
    BY DEF IndInv
  <1>2. ASSUME Compare \/ NextBlock \/ Call \/ Record \/ EndRecord \/ EndBlock \/ EndPass \/ Return
        PROVE  IndInv'
    <2>1. UNCHANGED <<ext, at, calls>>
      BY <1>2 DEF Compare, NextBlock, Call, Record, EndRecord, EndBlock, EndPass, Return, traceVars
    <2>2. \/ pc' = pc
          \/ \E label \in {"next", "call", "record", "returned", "raised"} : Goto(Bench, label)
      BY <1>2 DEF Compare, NextBlock, Call, Record, EndRecord, EndBlock, EndPass, Return, traceVars
    <2>3. TraceInv'
      BY <1>1, <2>1, <2>2, BenchStepKeepsTraceInv
    <2>4. BenchInv'
      BY <1>1, <1>2, CompareHolds, NextBlockHolds, CallHolds, RecordHolds, EndRecordHolds,
         EndBlockHolds, EndPassHolds, ReturnHolds
    <2> QED BY <2>3, <2>4 DEF IndInv
  <1>3. ASSUME NEW p \in Processes, TraceStep(p), UNCHANGED benchVars
        PROVE  IndInv'
    <2>1. TraceInv'
      BY <1>1, <1>3, TraceStepKeepsTraceInv
    <2>2. UNCHANGED ext
      BY <1>3 DEF TraceStep, LookUp, RequestFails, Request, Copy, CopyBreaks, EndCopy, Open, ReadLine,
         ReadRaises, EndRead
    <2>3. BenchInv'
      BY <1>1, <1>3, <2>2, TraceStepIsNotCompared, BenchInvKept
    <2> QED BY <2>1, <2>3 DEF IndInv
  <1>4. ASSUME NEW p \in Processes, Restart(p), IF p = Bench THEN Lost ELSE UNCHANGED benchVars
        PROVE  IndInv'
    <2>1. TraceInv'
      BY <1>1, <1>4, TraceStepKeepsTraceInv
    <2>2. pc' = [pc EXCEPT ![p] = "idle"] /\ UNCHANGED ext /\ pc \in [Processes -> Labels]
      BY <1>1, <1>4 DEF Restart, Goto, TraceInv
    <2>3. CASE p = Bench
      <3>1. pc'[Bench] = "idle" /\ Lost
        BY <1>4, <2>2, <2>3
      <3> QED BY <1>1, <2>1, <3>1, LostHolds DEF IndInv
    <2>4. CASE p # Bench
      <3>1. pc'[Bench] = pc[Bench] /\ UNCHANGED benchVars
        BY <1>4, <2>2, <2>4
      <3> QED BY <1>1, <2>1, <2>2, <3>1, BenchInvKept DEF IndInv
    <2> QED BY <2>3, <2>4
  <1>5. ASSUME UNCHANGED vars
        PROVE  IndInv'
    <2>1. UNCHANGED <<ext, pc, at, calls>> /\ UNCHANGED benchVars
      BY <1>5 DEF vars, traceVars, benchVars
    <2>2. TraceInv'
      BY <1>1, <2>1, BenchStepKeepsTraceInv
    <2>3. BenchInv'
      BY <1>1, <2>1, BenchInvKept
    <2> QED BY <2>2, <2>3 DEF IndInv
  <1> QED BY <1>2, <1>3, <1>4, <1>5 DEF Next
-----------------------------------------------------------------------------
(* The theorems.                                                           *)

\* The invariant: a reader of a compressed trace has every line before its place, and
\* the results of the versions differ by what is not done of the block.
THEOREM BenchInvariant == Spec => []IndInv
  <1>1. IndInv /\ [Next]_vars => IndInv'
    BY NextHolds
  <1> QED BY InitHolds, <1>1, PTL DEF Spec

\* What a comparison measures is the whole trace (MeasuresTheTrace), whatever readers
\* write or truncate of the cached file and however the lengths are shuffled.
THEOREM MeasuresTheWholeTrace == Spec => []MeasuresTheTrace
  <1>1. IndInv => MeasuresTheTrace
    <2> SUFFICES ASSUME IndInv, ext = ".bz2", pc[Bench] \in Comparing
                 PROVE  MeasuresTheTrace
      BY DEF MeasuresTheTrace, Comparing
    <2> DEFINE whole == {k \in DOMAIN Trace : Trace[k] # None /\ Taken(k)}
    <2>1. ASSUME NEW length
          PROVE  Cardinality({k \in DOMAIN length_arguments : length_arguments[k] = length})
                    = Cardinality({k \in whole : Size(k) = length})
      <3>1. Times(DOMAIN length_arguments, length_arguments, length) = Asked(Lines, length)
        BY DEF IndInv, BenchInv, MeasureInv
      <3>2. {k \in Lines : Taken(k) /\ Size(k) = length} = {k \in whole : Size(k) = length}
        BY DEF Lines
      <3> QED BY <3>1, <3>2 DEF Times, Asked
    <2> QED BY <2>1 DEF MeasuresTheTrace
  <1> QED BY BenchInvariant, <1>1, PTL

\* Both versions get the timings of the same inputs, each under its name and length,
\* one for each input of each pass but those of the first block (ResultsArePaired).
THEOREM VersionsArePaired == Spec => []ResultsArePaired
  <1>1. IndInv => ResultsArePaired
    BY PairedInvIs DEF IndInv, BenchInv
  <1> QED BY BenchInvariant, <1>1, PTL
=============================================================================
