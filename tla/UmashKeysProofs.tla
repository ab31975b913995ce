---------------------------- MODULE UmashKeysProofs ----------------------------
(***************************************************************************)
(* For words of any width: what is said to be prepared is usable, and with *)
(* it the 64-bit arithmetic of umash.c, with its delayed reductions, gives *)
(* the polynomial of the reference.                                        *)
(***************************************************************************)
EXTENDS UmashKeys, TLAPS, FiniteSetTheorems, WellFoundedInduction

-----------------------------------------------------------------------------
(* Residues. *)

Same(a, b, n) == \E k \in Int : a = b + k * n

\* The quotient and the remainder are the only ones that fit.
LEMMA DivisionIsUnique ==
    ASSUME NEW n \in Nat \ {0}, NEW q \in Int, NEW r \in 0 .. n - 1
    PROVE  (q * n + r) \div n = q /\ (q * n + r) % n = r
  OBVIOUS

\* They exist.
LEMMA Division ==
    ASSUME NEW n \in Nat \ {0}, NEW a \in Int
    PROVE  a \div n \in Int /\ a % n \in 0 .. n - 1 /\ a = (a \div n) * n + (a % n)
  OBVIOUS

\* What is in range and has the same residue is the residue.
LEMMA ResidueIs ==
    ASSUME NEW n \in Nat \ {0}, NEW a \in Int, NEW r \in 0 .. n - 1, Same(a, r, n)
    PROVE  a % n = r
  <1>1. PICK k \in Int : a = r + k * n
    BY DEF Same
  <1>2. a = k * n + r
    BY <1>1
  <1> QED BY <1>2, DivisionIsUnique

\* A number has the residue of its remainder.
LEMMA SameAsResidue ==
    ASSUME NEW n \in Nat \ {0}, NEW a \in Int
    PROVE  a % n \in 0 .. n - 1 /\ Same(a, a % n, n) /\ Same(a % n, a, n)
  <1>1. a % n \in 0 .. n - 1 /\ a \div n \in Int /\ a = (a \div n) * n + (a % n)
    BY Division
  <1>2. PICK q \in Int, r \in 0 .. n - 1 : r = a % n /\ a = q * n + r
    BY <1>1
  <1>3. PICK k \in Int : k = -q
    OBVIOUS
  <1>4. a = r + q * n /\ r = a + k * n
    BY <1>2, <1>3
  <1> QED BY <1>1, <1>2, <1>4, Zenon DEF Same

\* Having the same residue is an equivalence,
LEMMA SameTrans ==
    ASSUME NEW n \in Int, NEW a \in Int, NEW b \in Int, NEW c \in Int, Same(a, b, n), Same(b, c, n)
    PROVE  Same(a, c, n) /\ Same(b, a, n)
  <1>1. PICK k \in Int : a = b + k * n
    BY DEF Same
  <1>2. PICK l \in Int : b = c + l * n
    BY DEF Same
  <1>3. PICK u \in Int, v \in Int : u = k + l /\ v = -k
    OBVIOUS
  <1>4. a = c + u * n /\ b = a + v * n
    BY <1>1, <1>2, <1>3
  <1> QED BY <1>4, Zenon DEF Same

\* for it is reflexive
LEMMA SameRefl == ASSUME NEW n \in Int, NEW a \in Int PROVE Same(a, a, n)
  <1>1. a = a + 0 * n
    OBVIOUS
  <1> QED BY <1>1 DEF Same

\* and symmetric,
LEMMA SameSym ==
    ASSUME NEW n \in Int, NEW a \in Int, NEW b \in Int, Same(a, b, n)
    PROVE  Same(b, a, n)
  BY SameTrans, SameRefl

\* which sums
LEMMA SameSum ==
    ASSUME NEW n \in Int, NEW a \in Int, NEW b \in Int, NEW c \in Int, NEW d \in Int,
           Same(a, b, n), Same(c, d, n)
    PROVE  Same(a + c, b + d, n)
  <1>1. PICK k \in Int : a = b + k * n
    BY DEF Same
  <1>2. PICK l \in Int : c = d + l * n
    BY DEF Same
  <1>3. PICK u \in Int : u = k + l
    OBVIOUS
  <1>4. a + c = (b + d) + u * n
    BY <1>1, <1>2, <1>3
  <1> QED BY <1>4, Zenon DEF Same

\* and products keep.
LEMMA SameProduct ==
    ASSUME NEW n \in Int, NEW a \in Int, NEW b \in Int, NEW c \in Int, NEW d \in Int,
           Same(a, b, n), Same(c, d, n)
    PROVE  Same(a * c, b * d, n)
  <1>1. PICK k \in Int : a = b + k * n
    BY DEF Same
  <1>2. PICK l \in Int : c = d + l * n
    BY DEF Same
  <1>3. PICK u \in Int : u = (b * l + k * d) + (k * l) * n
    OBVIOUS
  <1>4. a * c = b * d + ((b * l + k * d) + (k * l) * n) * n
    BY <1>1, <1>2
  <1> QED BY <1>3, <1>4, Zenon DEF Same

\* Numbers with the same residue have the same remainder.
LEMMA SameResidues ==
    ASSUME NEW n \in Nat \ {0}, NEW a \in Int, NEW b \in Int, Same(a, b, n)
    PROVE  a % n = b % n
  <1>1. b % n \in 0 .. n - 1 /\ Same(b, b % n, n)
    BY SameAsResidue
  <1>2. Same(a, b % n, n)
    BY <1>1, SameTrans
  <1> QED BY <1>1, <1>2, ResidueIs

-----------------------------------------------------------------------------
(* Modular arithmetic utilities of umash.c. *)

\* The moduli: a word more or less is 8, modulo 2^64 - 8.
LEMMA Moduli ==
    ASSUME Eighth \in Nat, Eighth >= 4
    PROVE  /\ Poly!W \in Nat /\ Poly!W >= 32 /\ Poly!W = 8 * Eighth
           /\ Poly!Modulus \in Nat \ {0} /\ Poly!Modulus = Poly!W - 8
           /\ Poly!Field \in Nat \ {0} /\ Poly!Field = Eighth - 1 /\ Poly!Modulus = 8 * Poly!Field
  BY DEF Poly!W, Poly!Modulus, Poly!Field

\* Words wrap once at most when two are added.
LEMMA WrapSum ==
    ASSUME NEW w \in Nat \ {0}, NEW x \in 0 .. 2 * w - 1
    PROVE  x % w = IF x >= w THEN x - w ELSE x
  <1>1. CASE x >= w
    <2>1. x = 1 * w + (x - w) /\ x - w \in 0 .. w - 1
      BY <1>1
    <2> QED BY <1>1, <2>1, DivisionIsUnique
  <1>2. CASE x < w
    <2>1. x = 0 * w + x /\ x \in 0 .. w - 1
      BY <1>2
    <2> QED BY <1>2, <2>1, DivisionIsUnique
  <1> QED BY <1>1, <1>2

\* add_mod_fast does not overflow twice, and keeps the residue.
LEMMA AddFast ==
    ASSUME Eighth \in Nat, Eighth >= 4, NEW x \in Poly!Words, NEW y \in Poly!Words,
           x + y < 2 * Poly!W - 8
    PROVE  /\ Poly!add_mod_fast(x, y) \in Poly!Words
           /\ Same(Poly!add_mod_fast(x, y), x + y, Poly!Modulus)
  <1> DEFINE w == Poly!W
             s == Poly!add_mod_fast(x, y)
  <1>1. /\ w \in Nat /\ w >= 32 /\ x \in 0 .. w - 1 /\ y \in 0 .. w - 1 /\ Poly!Modulus = w - 8
        /\ x + y < 2 * w - 8
    BY Moduli DEF Poly!Words
  <1>2. CASE x + y >= w
    <2>1. Poly!Wrap(x + y) = (x + y) - w
      <3>1. w \in Nat \ {0} /\ x + y \in 0 .. 2 * w - 1
        BY <1>1
      <3>2. (x + y) % w = (x + y) - w
        BY <1>2, <3>1, WrapSum
      <3> QED BY <3>2 DEF Poly!Wrap
    <2>2. Poly!Wrap(Poly!Wrap(x + y) + 8) = (x + y) - w + 8
      <3>1. w \in Nat \ {0} /\ (x + y) - w + 8 \in 0 .. w - 1
        BY <1>1, <1>2
      <3>2. ((x + y) - w + 8) % w = (x + y) - w + 8
        BY <3>1
      <3> QED BY <2>1, <3>2 DEF Poly!Wrap
    <2>3. PICK k \in Int : k = -1
      OBVIOUS
    <2>4. s = (x + y) + k * (w - 8) /\ s \in 0 .. w - 1
      BY <1>1, <1>2, <2>2, <2>3 DEF Poly!add_mod_fast
    <2> QED BY <1>1, <2>4, Zenon DEF Same, Poly!Words
  <1>3. CASE x + y < w
    <2>1. s = (x + y) + 0 * (w - 8) /\ s \in 0 .. w - 1
      BY <1>1, <1>3 DEF Poly!add_mod_fast
    <2> QED BY <1>1, <2>1 DEF Same, Poly!Words
  <1> QED BY <1>1, <1>2, <1>3

\* The second half of add_mod_slow: a word is less than twice the modulus.
LEMMA ReducedOnce ==
    ASSUME Eighth \in Nat, Eighth >= 4, NEW x \in Poly!Words
    PROVE  /\ Poly!ReduceOnce(x) \in 0 .. Poly!Modulus - 1
           /\ Same(Poly!ReduceOnce(x), x, Poly!Modulus)
  <1> DEFINE w == Poly!W
             r == Poly!ReduceOnce(x)
  <1>1. w \in Nat /\ w >= 32 /\ x \in 0 .. w - 1 /\ Poly!Modulus = w - 8
    BY Moduli DEF Poly!Words
  <1>2. PICK k \in Int, l \in Int : k = -1 /\ l = 0
    OBVIOUS
  <1>3. CASE x >= w - 8
    <2>1. w \in Nat \ {0} /\ x + 8 \in 0 .. 2 * w - 1 /\ x + 8 >= w
      BY <1>1, <1>3
    <2>2. (x + 8) % w = (x + 8) - w
      BY <2>1, WrapSum
    <2>3. r = x + k * (w - 8) /\ r \in 0 .. w - 8 - 1
      BY <1>1, <1>2, <1>3, <2>2 DEF Poly!ReduceOnce, Poly!Wrap
    <2> QED BY <1>1, <2>3, Zenon DEF Same
  <1>4. CASE x < w - 8
    <2>1. r = x + l * (w - 8) /\ r \in 0 .. w - 8 - 1
      BY <1>1, <1>2, <1>4 DEF Poly!ReduceOnce
    <2> QED BY <1>1, <2>1, Zenon DEF Same
  <1> QED BY <1>1, <1>3, <1>4

\* add_mod_slow adds modulo 2^64 - 8, whatever the words are.
LEMMA AddSlow ==
    ASSUME Eighth \in Nat, Eighth >= 4, NEW x \in Poly!Words, NEW y \in Poly!Words
    PROVE  Poly!add_mod_slow(x, y) = (x + y) % Poly!Modulus
  <1> DEFINE w == Poly!W
             n == Poly!Modulus
             sum == Poly!Wrap(x + y)
             fixup == IF x + y >= w THEN 8 ELSE 0
             r == Poly!add_mod_slow(x, y)
  <1>1. /\ w \in Nat \ {0} /\ w >= 32 /\ x \in 0 .. w - 1 /\ y \in 0 .. w - 1
        /\ n \in Nat \ {0} /\ n = w - 8 /\ x + y \in 0 .. 2 * w - 1
    BY Moduli DEF Poly!Words
  <1>2. sum = IF x + y >= w THEN (x + y) - w ELSE x + y
    BY <1>1, WrapSum DEF Poly!Wrap
  <1>3. sum \in 0 .. w - 1 /\ fixup \in {0, 8} /\ Same(sum + fixup, x + y, n)
    <2>1. PICK k \in Int : k = IF x + y >= w THEN -1 ELSE 0
      OBVIOUS
    <2>2. sum + fixup = (x + y) + k * n
      BY <1>1, <1>2, <2>1
    <2>3. Same(sum + fixup, x + y, n)
      BY <2>2, Zenon DEF Same
    <2> QED BY <1>1, <1>2, <2>3
  <1>4. r = IF sum < w - 16 THEN Poly!Wrap(sum + fixup) ELSE Poly!add_mod_slow_slow_path(sum, fixup)
    BY DEF Poly!add_mod_slow
  <1> HIDE DEF sum, fixup
  <1>5. r \in 0 .. n - 1 /\ Same(r, sum + fixup, n)
    <2>1. CASE sum < w - 16
      <3>1. sum + fixup \in 0 .. n - 1 /\ sum + fixup \in 0 .. w - 1
        BY <1>1, <1>3, <2>1
      <3>2. r = sum + fixup
        BY <1>1, <1>4, <2>1, <3>1 DEF Poly!Wrap
      <3> QED BY <1>1, <3>1, <3>2, SameRefl
    <2>2. CASE sum >= w - 16
      <3>1. PICK once : once = Poly!ReduceOnce(sum)
        OBVIOUS
      <3>2. once \in 0 .. n - 1 /\ Same(once, sum, n)
        BY <1>1, <1>3, <3>1, ReducedOnce DEF Poly!Words
      <3>3. once + fixup \in 0 .. w - 1
        BY <1>1, <1>3, <3>2
      <3>4. PICK twice : twice = Poly!ReduceOnce(once + fixup)
        OBVIOUS
      <3>5. twice \in 0 .. n - 1 /\ Same(twice, once + fixup, n)
        BY <1>1, <3>3, <3>4, ReducedOnce DEF Poly!Words
      <3>6. r = twice
        <4>1. (once + fixup) % w = once + fixup
          BY <1>1, <3>3
        <4> QED BY <1>1, <1>3, <1>4, <2>2, <3>1, <3>4, <4>1
                DEF Poly!add_mod_slow_slow_path, Poly!Wrap
      <3>7. Same(once + fixup, sum + fixup, n)
        <4>1. fixup \in Int /\ sum \in Int /\ once \in Int /\ n \in Int
          BY <1>1, <1>3, <3>2
        <4>2. Same(fixup, fixup, n)
          BY <4>1, SameRefl
        <4> QED BY <4>1, <4>2, <3>2, SameSum
      <3>8. Same(twice, sum + fixup, n)
        BY <1>1, <1>3, <3>2, <3>5, <3>7, SameTrans
      <3> QED BY <3>5, <3>6, <3>8
    <2> QED BY <1>1, <1>3, <2>1, <2>2
  <1>6. Same(x + y, r, n)
    <2>1. PICK v \in Int, z \in Int : v = sum + fixup /\ z = x + y
      BY <1>1, <1>3
    <2>2. Same(z, v, n) /\ Same(v, r, n)
      BY <1>1, <1>3, <1>5, <2>1, SameSym
    <2> QED BY <1>1, <1>5, <2>1, <2>2, SameTrans
  <1>7. x + y \in Int
    BY <1>1
  <1>8. (x + y) % n = r
    BY <1>1, <1>5, <1>6, <1>7, ResidueIs
  <1> QED BY <1>8

\* mul128 splits the product of a multiplier and a word, and its high word is small.
LEMMA Product ==
    ASSUME Eighth \in Nat, Eighth >= 4, NEW k \in 0 .. Poly!Field - 1, NEW x \in Poly!Words
    PROVE  /\ Poly!mul128(k, x).hi \in 0 .. Poly!Field - 1
           /\ Poly!mul128(k, x).lo \in Poly!Words
           /\ k * x = Poly!mul128(k, x).hi * Poly!W + Poly!mul128(k, x).lo
  <1> DEFINE w == Poly!W
  <1>1. w \in Nat \ {0} /\ x \in 0 .. w - 1 /\ k \in Nat /\ Poly!Field \in Nat
    BY Moduli DEF Poly!Words
  <1>2. PICK p \in Int : p = k * x
    BY <1>1
  <1>3. p \in Nat /\ p <= k * w
    <2>1. k * x <= k * w /\ k * x \in Nat
      BY <1>1
    <2> QED BY <1>2, <2>1
  <1>4. PICK q \in Int, r \in 0 .. w - 1 : q = p \div w /\ r = p % w /\ p = q * w + r
    BY <1>1, <1>2, Division
  <1>5. q >= 0
    <2> SUFFICES ASSUME q <= -1 PROVE FALSE
      BY <1>4
    <2>1. q * w <= -w
      BY <1>1
    <2> QED BY <1>1, <1>3, <1>4, <2>1
  <1>6. q <= k
    <2> SUFFICES ASSUME q >= k + 1 PROVE FALSE
      BY <1>1, <1>4
    <2>1. q * w >= (k + 1) * w
      BY <1>1
    <2>2. (k + 1) * w = k * w + w
      BY <1>1
    <2> QED BY <1>1, <1>3, <1>4, <2>1, <2>2
  <1>7. Poly!mul128(k, x).hi = q /\ Poly!mul128(k, x).lo = r
    BY <1>2, <1>4 DEF Poly!mul128
  <1> QED BY <1>1, <1>2, <1>4, <1>5, <1>6, <1>7 DEF Poly!Words

\* mul_mod_fast multiplies without overflow, up to the residue.
LEMMA MulFast ==
    ASSUME Eighth \in Nat, Eighth >= 4, NEW k \in 0 .. Poly!Field - 1, NEW x \in Poly!Words
    PROVE  /\ Poly!mul_mod_fast(k, x) \in Poly!Words
           /\ Same(Poly!mul_mod_fast(k, x), k * x, Poly!Modulus)
  <1> DEFINE w == Poly!W
             n == Poly!Modulus
  <1>1. /\ w \in Nat \ {0} /\ w = 8 * Eighth /\ n = w - 8 /\ n \in Nat \ {0}
        /\ Poly!Field = Eighth - 1 /\ Poly!Field \in Nat \ {0} /\ x \in Nat /\ k \in Nat
    BY Moduli DEF Poly!Words
  <1>2. PICK hi \in 0 .. Poly!Field - 1, lo \in Poly!Words :
            /\ hi = Poly!mul128(k, x).hi /\ lo = Poly!mul128(k, x).lo
            /\ k * x = hi * w + lo
    BY Product
  <1>3. 8 * hi \in Poly!Words /\ Poly!Wrap(8 * hi) = 8 * hi /\ lo + 8 * hi < 2 * w - 8
    BY <1>1 DEF Poly!Words, Poly!Wrap
  <1>4. Poly!mul_mod_fast(k, x) = Poly!add_mod_fast(lo, 8 * hi)
    BY <1>2, <1>3 DEF Poly!mul_mod_fast
  <1>5. /\ Poly!add_mod_fast(lo, 8 * hi) \in Poly!Words
        /\ Same(Poly!add_mod_fast(lo, 8 * hi), lo + 8 * hi, n)
    BY <1>3, AddFast
  <1>6. Same(lo + 8 * hi, k * x, n)
    <2>1. PICK j \in Int : j = -hi
      OBVIOUS
    <2>2. hi * w = hi * n + 8 * hi
      BY <1>1
    <2>3. lo + 8 * hi = k * x + j * n
      BY <1>1, <1>2, <2>1, <2>2 DEF Poly!Words
    <2> QED BY <2>3, Zenon DEF Same
  <1>7. lo + 8 * hi \in Int /\ k * x \in Int /\ Poly!add_mod_fast(lo, 8 * hi) \in Int
    BY <1>1, <1>5 DEF Poly!Words
  <1> QED BY <1>1, <1>4, <1>5, <1>6, <1>7, SameTrans

\* A block on its own: horner_double_update is fully reduced, and exact, from a
\* reduced accumulator.
LEMMA HornerIsExact ==
    ASSUME Eighth \in Nat, Eighth >= 4, NEW a \in 0 .. Poly!Modulus - 1,
           NEW m0 \in 0 .. Poly!Field - 1, NEW m1 \in 0 .. Poly!Field - 1,
           NEW x \in Poly!Words, NEW y \in Poly!Words
    PROVE  Poly!horner_double_update(a, m0, m1, x, y) = (m0 * (a + x) + m1 * y) % Poly!Modulus
  <1> DEFINE w == Poly!W
             n == Poly!Modulus
  <1>1. /\ w \in Nat \ {0} /\ n = w - 8 /\ n \in Nat \ {0} /\ a \in 0 .. w - 9 /\ a \in Poly!Words
        /\ x \in 0 .. w - 1 /\ y \in 0 .. w - 1 /\ m0 \in Nat /\ m1 \in Nat
    BY Moduli DEF Poly!Words
  <1>2. PICK s \in Poly!Words : s = Poly!add_mod_fast(a, x) /\ Same(s, a + x, n)
    <2>1. a + x < 2 * w - 8
      BY <1>1
    <2>2. Poly!add_mod_fast(a, x) \in Poly!Words /\ Same(Poly!add_mod_fast(a, x), a + x, n)
      BY <1>1, <2>1, AddFast
    <2> QED BY <2>2
  <1>3. PICK p \in Poly!Words : p = Poly!mul_mod_fast(m0, s) /\ Same(p, m0 * s, n)
    BY MulFast
  <1>4. PICK q \in Poly!Words : q = Poly!mul_mod_fast(m1, y) /\ Same(q, m1 * y, n)
    BY MulFast
  <1>5. s \in Int /\ p \in Int /\ q \in Int /\ n \in Int /\ m0 \in Int /\ m1 \in Int
    BY <1>1 DEF Poly!Words
  <1>6. PICK t \in Int, u \in Int, v \in Int, z \in Int :
            t = a + x /\ u = m0 * s /\ v = m0 * t /\ z = m1 * y
    BY <1>1, <1>5
  <1>7. Same(u, v, n)
    <2>1. Same(m0, m0, n)
      BY <1>5, SameRefl
    <2> QED BY <1>2, <1>5, <1>6, <2>1, SameProduct
  <1>8. Same(p, v, n)
    BY <1>3, <1>5, <1>6, <1>7, SameTrans
  <1>9. Same(p + q, v + z, n)
    BY <1>4, <1>5, <1>6, <1>8, SameSum
  <1>10. (p + q) % n = (v + z) % n
    <2>1. p + q \in Int /\ v + z \in Int
      BY <1>5, <1>6
    <2> QED BY <1>1, <1>9, <2>1, SameResidues
  <1>11. Poly!horner_double_update(a, m0, m1, x, y) = Poly!add_mod_slow(p, q)
    BY <1>2, <1>3, <1>4 DEF Poly!horner_double_update
  <1> QED BY <1>6, <1>10, <1>11, AddSlow

\* An accumulator that is split represents base + 8 * fixup, modulo 2^64 - 8.
IsSplit(s) == s.base \in Poly!Words /\ s.fixup \in 0 .. Poly!MaxFixup

\* split_accumulator_eval gives that.
LEMMA SplitEval ==
    ASSUME Eighth \in Nat, Eighth >= 4, NEW s, IsSplit(s)
    PROVE  Poly!split_accumulator_eval(s) = (s.base + 8 * s.fixup) % Poly!Modulus
  <1>1. 8 * s.fixup \in Poly!Words
    BY Moduli DEF IsSplit, Poly!Words, Poly!MaxFixup
  <1> QED BY <1>1, AddSlow DEF IsSplit, Poly!split_accumulator_eval

\* The fixups go into the next hash without overflow, and what comes out can be
\* added to any base by add_mod_fast: an extremely high hash is reduced first.
LEMMA FixedHashFits ==
    ASSUME Eighth \in Nat, Eighth >= 4, NEW s, IsSplit(s), NEW h \in Poly!Words
    PROVE  /\ Poly!FixedHash(s, h) \in Poly!Words
           /\ s.base + Poly!FixedHash(s, h) < 2 * Poly!W - 8
           /\ Same(Poly!FixedHash(s, h), h + 8 * s.fixup, Poly!Modulus)
  <1> DEFINE w == Poly!W
             n == Poly!Modulus
             r == Poly!FixedHash(s, h)
  <1>1. PICK base \in 0 .. w - 1, fixup \in 0 .. 3 : base = s.base /\ fixup = s.fixup
    BY DEF IsSplit, Poly!Words, Poly!MaxFixup
  <1>2. w \in Nat \ {0} /\ w >= 32 /\ h \in 0 .. w - 1 /\ n = w - 8 /\ n \in Nat \ {0}
    BY Moduli DEF Poly!Words
  <1>3. CASE h > w - 32
    <2>1. 8 * fixup \in Poly!Words
      BY <1>2 DEF Poly!Words
    <2>2. r = (h + 8 * fixup) % n
      BY <1>1, <1>3, <2>1, AddSlow DEF Poly!FixedHash, Poly!HighHash, Poly!MaxFixup
    <2>3. PICK t \in Int : t = h + 8 * fixup
      BY <1>2
    <2>4. r \in 0 .. n - 1 /\ Same(r, t, n)
      BY <1>2, <2>2, <2>3, SameAsResidue
    <2>5. r \in 0 .. w - 1 /\ base + r < 2 * w - 8
      BY <1>1, <1>2, <2>4
    <2> QED BY <1>1, <2>3, <2>4, <2>5 DEF Poly!Words
  <1>4. CASE h <= w - 32
    <2>1. h + 8 * fixup \in 0 .. w - 8
      BY <1>1, <1>2, <1>4
    <2>2. r = h + 8 * fixup
      <3>1. ~Poly!HighHash(h)
        BY <1>2, <1>4 DEF Poly!HighHash, Poly!MaxFixup
      <3>2. (h + 8 * fixup) % w = h + 8 * fixup
        BY <1>2, <2>1
      <3> QED BY <1>1, <3>1, <3>2 DEF Poly!FixedHash, Poly!Wrap
    <2>3. Same(r, h + 8 * fixup, n)
      BY <1>2, <2>1, <2>2, SameRefl
    <2> QED BY <1>1, <1>2, <2>1, <2>2, <2>3 DEF Poly!Words
  <1> QED BY <1>2, <1>3, <1>4

\* The high words of two products are added without overflow; eight times the
\* sum carries at most once, into the bit that umash.c looks at.
LEMMA HighWords ==
    ASSUME Eighth \in Nat, Eighth >= 4, NEW hi \in 0 .. 2 * Poly!Field - 2
    PROVE  /\ Poly!Wrap(hi) = hi
           /\ Poly!Wrap(8 * hi) \in 0 .. Poly!W - 1
           /\ Poly!HighCarry(hi) \in 0 .. 1
           /\ 8 * hi = Poly!Wrap(8 * hi) + Poly!W * Poly!HighCarry(hi)
  <1> DEFINE w == Poly!W
  <1>1. w \in Nat \ {0} /\ w = 8 * Eighth /\ hi \in 0 .. 2 * Eighth - 4 /\ hi \in 0 .. w - 1
    BY Moduli
  <1>2. hi % w = hi
    BY <1>1
  <1>3. Poly!Wrap(8 * hi) = IF 8 * hi >= w THEN 8 * hi - w ELSE 8 * hi
    <2>1. 8 * hi \in 0 .. 2 * w - 1
      BY <1>1
    <2>2. (8 * hi) % w = IF 8 * hi >= w THEN 8 * hi - w ELSE 8 * hi
      BY <1>1, <2>1, WrapSum
    <2> QED BY <2>2 DEF Poly!Wrap
  <1>4. Poly!HighCarry(hi) = IF hi >= Eighth THEN 1 ELSE 0
    <2>1. CASE hi >= Eighth
      <3>1. hi = 1 * Eighth + (hi - Eighth) /\ hi - Eighth \in 0 .. Eighth - 1
        BY <1>1, <2>1
      <3>2. hi \div Eighth = 1
        BY <1>1, <3>1, DivisionIsUnique
      <3> QED BY <2>1, <3>2 DEF Poly!HighCarry
    <2>2. CASE hi < Eighth
      <3>1. hi = 0 * Eighth + hi /\ hi \in 0 .. Eighth - 1
        BY <1>1, <2>2
      <3>2. hi \div Eighth = 0
        BY <1>1, <3>1, DivisionIsUnique
      <3> QED BY <1>1, <2>2, <3>2 DEF Poly!HighCarry
    <2> QED BY <1>1, <2>1, <2>2
  <1> QED BY <1>1, <1>2, <1>3, <1>4 DEF Poly!Wrap

\* Two words are added with a carry.
LEMMA WordSum ==
    ASSUME Eighth \in Nat, Eighth >= 4, NEW a \in 0 .. Poly!W - 1, NEW b \in 0 .. Poly!W - 1
    PROVE  /\ Poly!Wrap(a + b) \in 0 .. Poly!W - 1
           /\ Poly!Carry(a + b) \in 0 .. 1
           /\ a + b = Poly!Wrap(a + b) + Poly!W * Poly!Carry(a + b)
  <1>1. Poly!W \in Nat \ {0} /\ a + b \in 0 .. 2 * Poly!W - 1
    BY Moduli
  <1>2. (a + b) % Poly!W = IF a + b >= Poly!W THEN (a + b) - Poly!W ELSE a + b
    BY <1>1, WrapSum
  <1> QED BY <1>1, <1>2 DEF Poly!Wrap, Poly!Carry

\* One block of a batch: split_accumulator_update keeps an accumulator that
\* represents the reference's, with at most MaxFixup fixups.
LEMMA SplitUpdateIsExact ==
    ASSUME Eighth \in Nat, Eighth >= 4, NEW s, IsSplit(s),
           NEW m0 \in 0 .. Poly!Field - 1, NEW m1 \in 0 .. Poly!Field - 1,
           NEW x \in Poly!Words, NEW y \in Poly!Words,
           NEW e \in Int, Same(s.base + 8 * s.fixup, e, Poly!Modulus)
    PROVE  /\ IsSplit(Poly!split_accumulator_update(s, m0, m1, x, y))
           /\ Poly!split_accumulator_eval(Poly!split_accumulator_update(s, m0, m1, x, y))
                 = (m0 * (e + x) + m1 * y) % Poly!Modulus
  <1> DEFINE w == Poly!W
             n == Poly!Modulus
             new == Poly!split_accumulator_update(s, m0, m1, x, y)
  <1>1. /\ w \in Nat \ {0} /\ w >= 32 /\ n = w - 8 /\ n \in Nat \ {0}
        /\ x \in 0 .. w - 1 /\ y \in 0 .. w - 1 /\ m0 \in Nat /\ m1 \in Nat
    BY Moduli DEF Poly!Words
  <1>2. PICK base \in 0 .. w - 1, fixup \in 0 .. 3 : base = s.base /\ fixup = s.fixup
    BY DEF IsSplit, Poly!Words, Poly!MaxFixup
  <1>3. PICK fixed \in Poly!Words :
            /\ fixed = Poly!FixedHash(s, x) /\ base + fixed < 2 * w - 8
            /\ Same(fixed, x + 8 * fixup, n)
    BY <1>2, FixedHashFits
  <1>4. PICK a \in Poly!Words : a = Poly!add_mod_fast(base, fixed) /\ Same(a, base + fixed, n)
    <2>1. base \in Poly!Words
      BY <1>2 DEF Poly!Words
    <2>2. /\ Poly!add_mod_fast(base, fixed) \in Poly!Words
          /\ Same(Poly!add_mod_fast(base, fixed), base + fixed, n)
      BY <1>3, <2>1, AddFast
    <2> QED BY <2>2
  <1>5. a \in Int /\ fixed \in Int /\ a \in 0 .. w - 1
    BY <1>1 DEF Poly!Words
  <1>6. Same(a, e + x, n)
    <2>1. PICK b \in Int, c \in Int, d \in Int, g \in Int, h \in Int :
              b = base + fixed /\ c = x + 8 * fixup /\ d = base + c /\ g = base + 8 * fixup /\ h = e + x
      BY <1>1, <1>5
    <2>2. Same(b, d, n)
      <3>1. Same(base, base, n)
        BY <1>1, SameRefl
      <3>2. Same(base + fixed, base + c, n)
        BY <1>1, <1>3, <1>5, <2>1, <3>1, SameSum
      <3> QED BY <2>1, <3>2
    <2>3. Same(d, h, n)
      <3>1. Same(x, x, n)
        BY <1>1, SameRefl
      <3>2. Same(g, e, n)
        BY <1>2, <2>1
      <3>3. Same(g + x, e + x, n)
        BY <1>1, <2>1, <3>1, <3>2, SameSum
      <3>4. d = g + x
        BY <1>1, <2>1
      <3> QED BY <2>1, <3>3, <3>4
    <2>4. Same(a, b, n)
      BY <1>4, <2>1
    <2>5. Same(a, d, n)
      BY <1>1, <1>5, <2>1, <2>2, <2>4, SameTrans
    <2>6. Same(a, h, n)
      BY <1>1, <1>5, <2>1, <2>3, <2>5, SameTrans
    <2> QED BY <2>1, <2>6
  <1>7. PICK hi0 \in 0 .. Poly!Field - 1, lo0 \in 0 .. w - 1 :
            /\ hi0 = Poly!mul128(m0, a).hi /\ lo0 = Poly!mul128(m0, a).lo
            /\ m0 * a = hi0 * w + lo0
    <2>1. /\ Poly!mul128(m0, a).hi \in 0 .. Poly!Field - 1
          /\ Poly!mul128(m0, a).lo \in Poly!Words
          /\ m0 * a = Poly!mul128(m0, a).hi * w + Poly!mul128(m0, a).lo
      BY Product
    <2> QED BY <2>1 DEF Poly!Words
  <1>8. PICK hi1 \in 0 .. Poly!Field - 1, lo1 \in 0 .. w - 1 :
            /\ hi1 = Poly!mul128(m1, y).hi /\ lo1 = Poly!mul128(m1, y).lo
            /\ m1 * y = hi1 * w + lo1
    <2>1. /\ Poly!mul128(m1, y).hi \in 0 .. Poly!Field - 1
          /\ Poly!mul128(m1, y).lo \in Poly!Words
          /\ m1 * y = Poly!mul128(m1, y).hi * w + Poly!mul128(m1, y).lo
      BY Product
    <2> QED BY <2>1 DEF Poly!Words
  <1>9. PICK hi \in 0 .. 2 * Poly!Field - 2 : hi = hi0 + hi1
    BY Moduli
  <1>10. PICK high \in 0 .. w - 1, c2 \in 0 .. 1 :
            /\ Poly!Wrap(hi) = hi /\ high = Poly!Wrap(8 * hi)
            /\ c2 = Poly!HighCarry(hi) /\ 8 * hi = high + w * c2
    <2>1. /\ Poly!Wrap(hi) = hi /\ Poly!Wrap(8 * hi) \in 0 .. w - 1
          /\ Poly!HighCarry(hi) \in 0 .. 1 /\ 8 * hi = Poly!Wrap(8 * hi) + w * Poly!HighCarry(hi)
      BY HighWords
    <2> QED BY <2>1, Zenon
  <1>11. PICK sum \in 0 .. w - 1, c1 \in 0 .. 1 :
            sum = Poly!Wrap(lo0 + lo1) /\ c1 = Poly!Carry(lo0 + lo1) /\ lo0 + lo1 = sum + w * c1
    <2>1. /\ Poly!Wrap(lo0 + lo1) \in 0 .. w - 1 /\ Poly!Carry(lo0 + lo1) \in 0 .. 1
          /\ lo0 + lo1 = Poly!Wrap(lo0 + lo1) + w * Poly!Carry(lo0 + lo1)
      BY WordSum
    <2> QED BY <2>1, Zenon
  <1>12. PICK top \in 0 .. w - 1, c3 \in 0 .. 1 :
            top = Poly!Wrap(sum + high) /\ c3 = Poly!Carry(sum + high) /\ sum + high = top + w * c3
    <2>1. /\ Poly!Wrap(sum + high) \in 0 .. w - 1 /\ Poly!Carry(sum + high) \in 0 .. 1
          /\ sum + high = Poly!Wrap(sum + high) + w * Poly!Carry(sum + high)
      BY WordSum
    <2> QED BY <2>1, Zenon
  <1>13. new = [base |-> top, fixup |-> c1 + c2 + c3]
    <2>1. Poly!add_mod_fast(s.base, Poly!FixedHash(s, x)) = a
      BY <1>2, <1>3, <1>4
    <2>2. /\ Poly!Wrap(Poly!mul128(m0, a).lo + Poly!mul128(m1, y).lo) = sum
          /\ Poly!Carry(Poly!mul128(m0, a).lo + Poly!mul128(m1, y).lo) = c1
      BY <1>7, <1>8, <1>11
    <2>3. Poly!Wrap(Poly!mul128(m0, a).hi + Poly!mul128(m1, y).hi) = hi
      BY <1>7, <1>8, <1>9, <1>10
    <2>4. /\ Poly!Wrap(8 * hi) = high /\ Poly!HighCarry(hi) = c2
          /\ Poly!Wrap(sum + high) = top /\ Poly!Carry(sum + high) = c3
      BY <1>10, <1>12
    <2>5. Poly!mul128(a, m0) = Poly!mul128(m0, a)
      <3>1. a * m0 = m0 * a
        BY <1>1, <1>5
      <3> QED BY <3>1 DEF Poly!mul128
    <2> QED BY <2>1, <2>2, <2>3, <2>4, <2>5 DEF Poly!split_accumulator_update
  <1>14. IsSplit(new)
    BY <1>13 DEF IsSplit, Poly!Words, Poly!MaxFixup
  <1>15. PICK v \in Int, p \in Int, q \in Int, r \in Int :
            v = top + 8 * (c1 + c2 + c3) /\ p = m0 * a /\ q = m1 * y /\ r = m0 * (e + x)
    BY <1>1, <1>5
  <1>16. Same(v, p + q, n)
    <2>1. PICK c \in Int, k \in Int : c = c1 + c2 + c3 /\ k = -(hi + c)
      OBVIOUS
    <2>2. PICK z0 \in Int, z1 \in Int, z2 \in Int, z3 \in Int :
              z0 = w * c /\ z1 = w * c1 /\ z2 = w * c2 /\ z3 = w * c3
      BY <1>1, <2>1
    <2>3. z0 = z1 + z2 + z3
      BY <1>1, <2>1, <2>2
    <2>4. lo0 + lo1 = (top + z0) - 8 * hi
      <3>1. lo0 + lo1 = sum + z1 /\ 8 * hi = high + z2 /\ sum + high = top + z3
        BY <1>10, <1>11, <1>12, <2>2
      <3> QED BY <2>3, <3>1
    <2>5. PICK u \in Int, u0 \in Int, u1 \in Int : u = hi * w /\ u0 = hi0 * w /\ u1 = hi1 * w
      BY <1>1
    <2>6. u = u0 + u1
      BY <1>1, <1>9, <2>5
    <2>7. p + q = u + lo0 + lo1
      BY <1>7, <1>8, <1>15, <2>5, <2>6
    <2>8. PICK t0 \in Int, t1 \in Int, t2 \in Int : t0 = hi * n /\ t1 = c * n /\ t2 = k * n
      BY <1>1, <2>1
    <2>9. u = t0 + 8 * hi /\ z0 = t1 + 8 * c /\ t2 = -t0 - t1
      BY <1>1, <2>1, <2>2, <2>5, <2>8
    <2>10. v = (p + q) + k * n
      BY <1>15, <2>1, <2>4, <2>7, <2>8, <2>9
    <2> QED BY <2>10, Zenon DEF Same
  <1>17. Same(p + q, r + q, n)
    <2>1. PICK h \in Int : h = e + x
      BY <1>1
    <2>2. Same(m0, m0, n) /\ Same(q, q, n)
      BY <1>1, <1>15, SameRefl
    <2>3. Same(m0 * a, m0 * h, n)
      BY <1>1, <1>5, <1>6, <2>1, <2>2, SameProduct
    <2>4. Same(p, r, n)
      BY <1>15, <2>1, <2>3
    <2> QED BY <1>1, <1>15, <2>2, <2>4, SameSum
  <1>18. v % n = (r + q) % n
    <2>1. PICK b \in Int, c \in Int : b = p + q /\ c = r + q
      BY <1>15
    <2>2. Same(v, c, n)
      BY <1>1, <1>15, <1>16, <1>17, <2>1, SameTrans
    <2> QED BY <1>1, <1>15, <2>1, <2>2, SameResidues
  <1>19. Poly!split_accumulator_eval(new) = v % n
    BY <1>13, <1>14, <1>15, SplitEval
  <1> QED BY <1>14, <1>15, <1>18, <1>19

\* A step of the polynomial, modulo 8 * n with a reduced square, and modulo n.
WithSquare(f, e, x, y, n) == (((f * f) % n) * (e + x) + f * y) % (8 * n)
InField(f, v, x, y, n) == (f * (f * (v + x) + y)) % n

\* A step of the reference keeps the value in the field.
LEMMA FieldStep ==
    ASSUME NEW n \in Nat \ {0}, NEW f \in Int, NEW e \in Int, NEW v \in Int, NEW x \in Int,
           NEW y \in Int, e % n = v
    PROVE  WithSquare(f, e, x, y, n) % n = InField(f, v, x, y, n)
  <1>1. PICK square \in Int, root \in Int : square = f * f /\ root = square % n
    BY SameAsResidue
  <1>2. Same(root, square, n)
    BY <1>1, SameAsResidue
  <1>3. PICK s \in Int, t \in Int, g \in Int, h \in Int, u \in Int :
            s = e + x /\ t = v + x /\ g = root * s /\ h = square * t /\ u = f * y
    BY <1>1
  <1>4. Same(s, t, n)
    <2>1. Same(e, v, n) /\ Same(x, x, n)
      <3>1. Same(e, e % n, n)
        BY SameAsResidue
      <3> QED BY <3>1, SameRefl
    <2>2. Same(e + x, v + x, n)
      BY <2>1, SameSum
    <2> QED BY <1>3, <2>2
  <1>5. Same(g, h, n)
    <2>1. Same(root * s, square * t, n)
      BY <1>2, <1>4, SameProduct
    <2> QED BY <1>3, <2>1
  <1>6. PICK a \in Int, b \in Int : a = g + u /\ b = h + u
    BY <1>3
  <1>7. Same(a, b, n)
    <2>1. Same(u, u, n)
      BY SameRefl
    <2>2. Same(g + u, h + u, n)
      BY <1>5, <2>1, SameSum
    <2> QED BY <1>6, <2>2
  <1>8. PICK c \in Int : c = a % (8 * n)
    OBVIOUS
  <1>9. Same(c, a, n)
    <2>1. PICK big \in Nat \ {0} : big = 8 * n
      OBVIOUS
    <2>2. Same(c, a, big)
      BY <1>8, <2>1, SameAsResidue
    <2>3. PICK k \in Int : c = a + k * big
      BY <2>2 DEF Same
    <2>4. PICK l \in Int : l = 8 * k
      OBVIOUS
    <2>5. k * big = l * n
      BY <2>1, <2>4
    <2>6. c = a + l * n
      BY <2>3, <2>5
    <2> QED BY <2>6, Zenon DEF Same
  <1>10. Same(c, b, n)
    BY <1>7, <1>9, SameTrans
  <1>11. c % n = b % n
    BY <1>10, SameResidues
  <1>12. f * (f * (v + x) + y) = b
    <2>1. f * (f * t + y) = (f * f) * t + f * y
      OBVIOUS
    <2> QED BY <1>1, <1>3, <1>6, <2>1
  <1>13. ((f * f) % n) * (e + x) + f * y = a
    BY <1>1, <1>3, <1>6
  <1> QED BY <1>8, <1>11, <1>12, <1>13 DEF WithSquare, InField

-----------------------------------------------------------------------------
(* The polynomial. *)

\* The parameters are those of the multiplier, and the accumulator, delayed or
\* not, is the reference's.
PolyInv ==
    /\ Poly!TypeOK
    /\ m[1] = (multiplier * multiplier) % Poly!Field
    /\ Poly!AccumulatorIsExact /\ Poly!HashesInField

\* The widths that the constants allow.
LEMMA Widths == KeysAssumption => Eighth \in Nat /\ Eighth >= 4 /\ Values \subseteq Poly!Words
  BY DEF KeysAssumption, Prep!EighthAssumption, Poly!ValuesAssumption

\* Nothing is hashed at first.
LEMMA PolyInit == Poly!Init => PolyInv
  <1> SUFFICES ASSUME Poly!Init PROVE PolyInv
    OBVIOUS
  <1>1. Eighth \in Nat /\ Eighth >= 4
    BY KeysAssumption, Widths
  <1>2. /\ Poly!W \in Nat \ {0} /\ Poly!Modulus \in Nat \ {0} /\ Poly!Field \in Nat \ {0}
        /\ 0 \in Poly!Words
    BY <1>1, Moduli DEF Poly!Words
  <1>3. 0 % Poly!Field = 0
    BY <1>2
  <1> QED BY <1>2, <1>3 DEF Poly!Init, PolyInv, Poly!TypeOK, Poly!AccumulatorIsExact,
              Poly!HashesInField, Poly!NoSplit, Poly!MaxFixup

\* A prepared multiplier is taken.
LEMMA StartKeeps ==
    ASSUME PolyInv, NEW pair, pair[2] \in 1 .. Poly!Field - 1,
           pair[1] = (pair[2] * pair[2]) % Poly!Field, Poly!Start(pair)
    PROVE  PolyInv'
  <1>1. Eighth \in Nat /\ Eighth >= 4
    BY KeysAssumption, Widths
  <1>2. Poly!Field \in Nat \ {0}
    BY <1>1, Moduli
  <1>3. pair[1] \in 0 .. Poly!Field - 1 /\ pair[2] \in 0 .. Poly!Field - 1
    <2>1. pair[2] * pair[2] \in Int /\ pair[2] \in 0 .. Poly!Field - 1
      BY <1>2
    <2> QED BY <1>2, <2>1, SameAsResidue
  <1>4. /\ multiplier' = pair[2] /\ m' = pair /\ poly' = "idle" /\ poly = "unused"
        /\ UNCHANGED <<acc, split, exact, field>>
    BY DEF Poly!Start
  <1>5. Poly!TypeOK'
    BY <1>3, <1>4 DEF PolyInv, Poly!TypeOK
  <1>6. Poly!AccumulatorIsExact' /\ Poly!HashesInField'
    BY <1>4 DEF PolyInv, Poly!AccumulatorIsExact, Poly!HashesInField
  <1> QED BY <1>4, <1>5, <1>6 DEF PolyInv

\* What poly_reduce of the reference makes of a block, with the parameters in use.
LEMMA ReduceIs ==
    ASSUME PolyInv, NEW x \in Poly!Words, NEW y \in Poly!Words, Poly!Reduce(x, y)
    PROVE  /\ exact' = (m[1] * (exact + x) + m[2] * y) % Poly!Modulus
           /\ exact' \in 0 .. Poly!Modulus - 1 /\ field' \in 0 .. Poly!Field - 1
           /\ exact' % Poly!Field = field'
  <1>1. Eighth \in Nat /\ Eighth >= 4
    BY KeysAssumption, Widths
  <1>2. /\ Poly!W \in Nat /\ Poly!Modulus \in Nat \ {0} /\ Poly!Field \in Nat \ {0}
        /\ Poly!Modulus = 8 * Poly!Field
    BY <1>1, Moduli
  <1>3. PICK g \in Int, e \in Int, v \in Int :
            g = multiplier /\ e = exact /\ v = field /\ e % Poly!Field = v
    BY <1>2 DEF PolyInv, Poly!TypeOK, Poly!HashesInField
  <1>4. x \in Int /\ y \in Int
    BY <1>2 DEF Poly!Words
  <1>5. m[1] = (g * g) % Poly!Field /\ m[2] = g
    BY <1>3 DEF PolyInv, Poly!TypeOK
  <1>6. /\ exact' = (((g * g) % Poly!Field) * (e + x) + g * y) % Poly!Modulus
        /\ field' = (g * (g * (v + x) + y)) % Poly!Field
    BY <1>3 DEF Poly!Reduce
  <1>7. exact' % Poly!Field = field'
    <2>1. WithSquare(g, e, x, y, Poly!Field) % Poly!Field = InField(g, v, x, y, Poly!Field)
      BY <1>2, <1>3, <1>4, FieldStep
    <2>2. exact' = WithSquare(g, e, x, y, Poly!Field) /\ field' = InField(g, v, x, y, Poly!Field)
      BY <1>2, <1>6 DEF WithSquare, InField
    <2> QED BY <2>1, <2>2
  <1>8. exact' \in 0 .. Poly!Modulus - 1
    <2>1. PICK square \in Int : square = g * g
      OBVIOUS
    <2>2. PICK root \in Int : root = square % Poly!Field
      BY <1>2, SameAsResidue
    <2>3. PICK s \in Int : s = root * (e + x) + g * y
      BY <1>4
    <2>4. exact' = s % Poly!Modulus
      BY <1>6, <2>1, <2>2, <2>3
    <2> QED BY <1>2, <2>4, SameAsResidue
  <1>9. field' \in 0 .. Poly!Field - 1
    <2>1. PICK s \in Int : s = g * (g * (v + x) + y)
      BY <1>4
    <2> QED BY <1>2, <1>6, <2>1, SameAsResidue
  <1> QED BY <1>3, <1>5, <1>6, <1>7, <1>8, <1>9

\* A step that absorbs a block, or opens or closes a batch, keeps the accumulator exact.
LEMMA AbsorbKeeps == ASSUME PolyInv, Poly!Absorb PROVE PolyInv'
  <1>1. Eighth \in Nat /\ Eighth >= 4 /\ Values \subseteq Poly!Words
    BY KeysAssumption, Widths
  <1>2. /\ Poly!W \in Nat \ {0} /\ Poly!W >= 32 /\ Poly!Modulus = Poly!W - 8
        /\ Poly!Modulus \in Nat \ {0} /\ Poly!Field \in Nat \ {0}
    BY <1>1, Moduli
  <1>3. /\ multiplier \in 0 .. Poly!Field - 1 /\ m[1] \in 0 .. Poly!Field - 1
        /\ m[2] \in 0 .. Poly!Field - 1 /\ exact \in 0 .. Poly!Modulus - 1
        /\ exact \in Poly!Words
    BY <1>2 DEF PolyInv, Poly!TypeOK, Poly!Words
  <1>4. ASSUME NEW x \in Values, NEW y \in Values, Poly!Block(x, y) PROVE PolyInv'
    <2>1. x \in Poly!Words /\ y \in Poly!Words
      BY <1>1
    <2>2. /\ exact' = (m[1] * (exact + x) + m[2] * y) % Poly!Modulus
          /\ exact' \in 0 .. Poly!Modulus - 1 /\ field' \in 0 .. Poly!Field - 1
          /\ exact' % Poly!Field = field'
      BY <1>4, <2>1, ReduceIs DEF Poly!Block
    <2>3. /\ poly = "idle" /\ UNCHANGED <<multiplier, m, poly, split>> /\ acc = exact
          /\ acc' = Poly!horner_double_update(acc, m[1], m[2], x, y)
      BY <1>4 DEF Poly!Block, PolyInv, Poly!AccumulatorIsExact
    <2>4. acc' = exact'
      <3>1. Poly!horner_double_update(exact, m[1], m[2], x, y)
              = (m[1] * (exact + x) + m[2] * y) % Poly!Modulus
        BY <1>1, <1>3, <2>1, HornerIsExact
      <3> QED BY <2>2, <2>3, <3>1
    <2>5. Poly!TypeOK'
      BY <1>2, <2>2, <2>3, <2>4 DEF PolyInv, Poly!TypeOK, Poly!Words
    <2> QED BY <2>2, <2>3, <2>4, <2>5 DEF PolyInv, Poly!AccumulatorIsExact, Poly!HashesInField
  <1>5. ASSUME NEW x \in Values, NEW y \in Values, Poly!BatchBlock(x, y) PROVE PolyInv'
    <2>1. x \in Poly!Words /\ y \in Poly!Words
      BY <1>1
    <2>2. /\ exact' = (m[1] * (exact + x) + m[2] * y) % Poly!Modulus
          /\ exact' \in 0 .. Poly!Modulus - 1 /\ field' \in 0 .. Poly!Field - 1
          /\ exact' % Poly!Field = field'
      BY <1>5, <2>1, ReduceIs DEF Poly!BatchBlock
    <2>3. /\ poly = "batch" /\ UNCHANGED <<multiplier, m, poly, acc>>
          /\ Poly!split_accumulator_eval(split) = exact
          /\ split' = Poly!split_accumulator_update(split, m[1], m[2], x, y)
      BY <1>5 DEF Poly!BatchBlock, PolyInv, Poly!AccumulatorIsExact
    <2>4. IsSplit(split)
      BY DEF PolyInv, Poly!TypeOK, IsSplit
    <2>5. PICK u \in Int : u = split.base + 8 * split.fixup
      BY <1>2, <2>4 DEF IsSplit, Poly!Words, Poly!MaxFixup
    <2>6. Same(u, exact, Poly!Modulus)
      <3>1. u % Poly!Modulus = exact
        BY <1>1, <2>3, <2>4, <2>5, SplitEval
      <3>2. Same(u, u % Poly!Modulus, Poly!Modulus)
        BY <1>2, SameAsResidue
      <3> QED BY <3>1, <3>2
    <2>7. /\ IsSplit(Poly!split_accumulator_update(split, m[1], m[2], x, y))
          /\ Poly!split_accumulator_eval(Poly!split_accumulator_update(split, m[1], m[2], x, y))
                = (m[1] * (exact + x) + m[2] * y) % Poly!Modulus
      <3>1. exact \in Int /\ Same(split.base + 8 * split.fixup, exact, Poly!Modulus)
        BY <1>2, <1>3, <2>5, <2>6
      <3>2. PICK e \in Int, m0 \in 0 .. Poly!Field - 1, m1 \in 0 .. Poly!Field - 1 :
                e = exact /\ m0 = m[1] /\ m1 = m[2]
        BY <1>3, <3>1
      <3>3. PICK s : s = split
        OBVIOUS
      <3>4. IsSplit(s) /\ Same(s.base + 8 * s.fixup, e, Poly!Modulus)
        BY <2>4, <3>1, <3>2, <3>3
      <3>5. /\ IsSplit(Poly!split_accumulator_update(s, m0, m1, x, y))
            /\ Poly!split_accumulator_eval(Poly!split_accumulator_update(s, m0, m1, x, y))
                  = (m0 * (e + x) + m1 * y) % Poly!Modulus
        BY <1>1, <2>1, <3>4, SplitUpdateIsExact
      <3> QED BY <3>2, <3>3, <3>5
    <2>8. PICK s : s = split'
      OBVIOUS
    <2>9. IsSplit(s) /\ Poly!split_accumulator_eval(s) = exact'
      BY <2>2, <2>3, <2>7, <2>8
    <2>10. Poly!split_accumulator_eval(split)' = exact'
      BY <2>8, <2>9 DEF Poly!split_accumulator_eval
    <2>11. Poly!TypeOK'
      BY <2>2, <2>3, <2>8, <2>9 DEF PolyInv, Poly!TypeOK, IsSplit
    <2> QED BY <2>2, <2>3, <2>10, <2>11 DEF PolyInv, Poly!AccumulatorIsExact, Poly!HashesInField
  <1>6. ASSUME Poly!StartBatch PROVE PolyInv'
    <2>1. /\ poly = "idle" /\ split' = [base |-> exact, fixup |-> 0] /\ acc' = 0 /\ poly' = "batch"
          /\ UNCHANGED <<multiplier, m, exact, field>>
      BY <1>6 DEF Poly!StartBatch, PolyInv, Poly!AccumulatorIsExact
    <2>2. PICK s : s = [base |-> exact, fixup |-> 0]
      OBVIOUS
    <2>3. IsSplit(s)
      BY <1>3, <2>2 DEF IsSplit, Poly!MaxFixup
    <2>4. Poly!split_accumulator_eval(s) = exact
      <3>1. s.base + 8 * s.fixup = exact /\ exact % Poly!Modulus = exact
        BY <1>2, <1>3, <2>2
      <3> QED BY <1>1, <2>3, <3>1, SplitEval
    <2>5. Poly!split_accumulator_eval(split)' = exact'
      BY <2>1, <2>2, <2>4 DEF Poly!split_accumulator_eval
    <2>6. Poly!TypeOK'
      BY <1>2, <2>1, <2>2, <2>3 DEF PolyInv, Poly!TypeOK, IsSplit, Poly!Words
    <2> QED BY <2>1, <2>5, <2>6 DEF PolyInv, Poly!AccumulatorIsExact, Poly!HashesInField
  <1>7. ASSUME Poly!EndBatch PROVE PolyInv'
    <2>1. /\ poly = "batch" /\ acc' = exact /\ split' = Poly!NoSplit /\ poly' = "idle"
          /\ UNCHANGED <<multiplier, m, exact, field>>
      BY <1>7 DEF Poly!EndBatch, PolyInv, Poly!AccumulatorIsExact
    <2>2. Poly!TypeOK'
      BY <1>2, <1>3, <2>1 DEF PolyInv, Poly!TypeOK, Poly!NoSplit, Poly!Words, Poly!MaxFixup
    <2> QED BY <2>1, <2>2 DEF PolyInv, Poly!AccumulatorIsExact, Poly!HashesInField
  <1> QED BY <1>4, <1>5, <1>6, <1>7 DEF Poly!Absorb

-----------------------------------------------------------------------------
(* The preparation of parameters. *)

\* A multiplier that is not 0 in the field, with its square.
Good(p, w) ==
    /\ p.poly[w][2] \in 1 .. Prep!modulo - 1
    /\ p.poly[w][1] = (p.poly[w][2] * p.poly[w][2]) % Prep!modulo

\* The first n words of the OH key differ.
Apart(p, n) == \A j, k \in 0 .. n - 1 : p.oh[j] = p.oh[k] => j = k

\* What is behind the index is usable, and what is said to be prepared is.
Progress ==
    /\ prep = "poly" => i \in 0 .. 1 /\ \A w \in 0 .. i - 1 : Good(params, w)
    /\ prep = "oh" => (\A w \in 0 .. 1 : Good(params, w)) /\ Apart(params, i)
    /\ success => prep \in {"idle", "returned"} /\ Prep!Usable(params)
    /\ prep = "idle" /\ caller = "derive" => success

\* Preparing what was prepared finds every word good.
AgainInv ==
    again =>
        /\ prep # "idle" /\ params = given /\ Prep!Usable(given)
        /\ prep = "poly" => candidate = given.poly[i][2]
        /\ prep = "returned" => success

\* The words of buf that were used.
Spent == {given.poly[k][1] : k \in 0 .. buf_idx - 1}

\* A replaced word was bad, and is replaced by a word of buf.
PolyWord(w) ==
    params.poly[w][2] # Prep!Given(given, w) =>
        /\ Prep!Given(given, w) \notin 1 .. Prep!modulo - 1
        /\ params.poly[w][2] \in {Prep!Mask(x) : x \in Spent}

OhWord(j) ==
    params.oh[j] # given.oh[j] =>
        Prep!value_is_repeated(params.oh, j, given.oh[j]) /\ params.oh[j] \in Spent

\* The words that are replaced so far, the candidate included.
PolyChanged ==
    IF prep = "poly"
    THEN {w \in 0 .. i : IF w = i THEN candidate # given.poly[w][2]
                         ELSE params.poly[w][2] # Prep!Given(given, w)}
    ELSE {w \in 0 .. 1 : params.poly[w][2] # Prep!Given(given, w)}
OhChanged == {j \in 0 .. OhCount - 1 : params.oh[j] # given.oh[j]}

\* Each word of buf is used for one word of the struct.
WordsInv ==
    /\ prep = "poly" =>
          /\ \A w \in 0 .. i - 1 : PolyWord(w)
          /\ candidate # given.poly[i][2] =>
                Prep!Given(given, i) \notin 1 .. Prep!modulo - 1 /\ candidate \in Spent
          /\ \A w \in i .. 1 : params.poly[w] = given.poly[w]
          /\ params.oh = given.oh
    /\ prep = "oh" =>
          /\ \A w \in 0 .. 1 : PolyWord(w)
          /\ \A j \in 0 .. OhCount - 1 : OhWord(j) /\ (j > i => params.oh[j] = given.oh[j])
    /\ prep \in {"poly", "oh"} => Cardinality(PolyChanged) + Cardinality(OhChanged) <= buf_idx
    /\ Prep!WordsAreTheCallers

PrepInv == Prep!TypeOK /\ Progress /\ AgainInv /\ WordsInv

\* The names that the two instances give to the same things.
LEMMA PrepIsPoly ==
    /\ Prep!W = Poly!W /\ Prep!Field = Poly!Field /\ Prep!modulo = Poly!Field
    /\ Prep!Words = Poly!Words
  BY DEF Prep!W, Poly!W, Prep!Field, Poly!Field, Prep!modulo, Prep!Words, Poly!Words

\* What the assumptions say of the parameters that callers, streams and tests give.
LEMMA Params ==
    /\ Eighth \in Nat /\ Eighth >= 4 /\ OhCount \in Nat \ {0}
    /\ Fills # {} /\ \A p \in Fills \cup Streams : Prep!IsStruct(p)
    /\ \A k \in Keys : k.poly \in 0 .. Eighth - 1 /\ k.oh \in [0 .. OhCount - 1 -> Prep!Words]
  BY KeysAssumption DEF KeysAssumption, Prep!EighthAssumption, Prep!ParamsAssumption

\* The field is one less than an eighth of the words.
LEMMA FieldWords ==
    /\ Prep!modulo \in Nat \ {0} /\ Prep!modulo = Eighth - 1
    /\ 0 .. Prep!modulo - 1 \subseteq Prep!Words
    /\ Prep!Words \subseteq Int
  BY Params, Moduli, PrepIsPoly DEF Poly!Words

\* Masking keeps what is in the field, and gives a word.
LEMMA Masked ==
    ASSUME NEW x \in Prep!Words
    PROVE  /\ Prep!Mask(x) \in 0 .. Eighth - 1
           /\ x \in 0 .. Prep!modulo - 1 => Prep!Mask(x) = x
  <1>1. Eighth \in Nat \ {0} /\ x \in Int /\ Prep!modulo = Eighth - 1
    BY Params, FieldWords
  <1>2. x % Eighth \in 0 .. Eighth - 1
    BY <1>1
  <1>3. x \in 0 .. Prep!modulo - 1 => x % Eighth = x
    BY <1>1
  <1> QED BY <1>2, <1>3 DEF Prep!Mask

\* What is accepted is not 0 in the field.
LEMMA Accepted ==
    ASSUME NEW x \in Prep!Words
    PROVE  Prep!IsMultiplier(Prep!Mask(x)) <=> Prep!Mask(x) \in 1 .. Prep!modulo - 1
  BY Masked, FieldWords DEF Prep!IsMultiplier

\* The square that is kept is reduced.
LEMMA Squares ==
    ASSUME NEW x \in 1 .. Prep!modulo - 1
    PROVE  /\ Prep!Multipliers(x) = <<(x * x) % Prep!modulo, x>>
           /\ (x * x) % Prep!modulo \in 0 .. Prep!modulo - 1
  <1>1. Eighth \in Nat /\ Eighth >= 4
    BY Params
  <1>2. /\ Poly!Field \in Nat \ {0} /\ Poly!Modulus \in Nat \ {0} /\ Poly!Modulus = 8 * Poly!Field
        /\ Poly!W \in Nat /\ Poly!Field = Prep!modulo /\ x \in 0 .. Poly!Field - 1
        /\ x \in Poly!Words
    BY <1>1, Moduli, PrepIsPoly, FieldWords
  <1>3. PICK s \in Int, p \in Int : s = Poly!mul_mod_fast(x, x) /\ p = x * x
    BY <1>1, <1>2, MulFast DEF Poly!Words
  <1>4. Same(s, p, Poly!Modulus)
    BY <1>1, <1>2, <1>3, MulFast
  <1>5. Same(s, p, Poly!Field)
    <2>1. PICK k \in Int : s = p + k * Poly!Modulus
      BY <1>4 DEF Same
    <2>2. PICK l \in Int : l = 8 * k
      OBVIOUS
    <2>3. s = p + l * Poly!Field
      BY <1>2, <2>1, <2>2
    <2> QED BY <2>3, Zenon DEF Same
  <1>6. s % Poly!Field = p % Poly!Field
    BY <1>2, <1>3, <1>5, SameResidues
  <1>7. Prep!mul_mod_fast(x, x) = Poly!mul_mod_fast(x, x)
    BY DEF Prep!mul_mod_fast, Poly!mul_mod_fast, Prep!mul128, Poly!mul128, Prep!add_mod_fast,
           Poly!add_mod_fast, Prep!Wrap, Poly!Wrap, Prep!W, Poly!W
  <1>8. Prep!Square(x) = (x * x) % Prep!modulo
    BY <1>2, <1>3, <1>6, <1>7, PrepIsPoly DEF Prep!Square
  <1>9. p % Poly!Field \in 0 .. Poly!Field - 1
    BY <1>2, SameAsResidue
  <1> QED BY <1>2, <1>3, <1>8, <1>9 DEF Prep!Multipliers

\* A struct with one pair, or one word, overwritten.
WithPoly(p, w, v) == [p EXCEPT !.poly[w] = v]
WithOh(p, j, v) == [p EXCEPT !.oh[j] = v]

\* Writing one pair of multipliers changes nothing else.
LEMMA SetPoly ==
    ASSUME NEW p, Prep!IsStruct(p), NEW w \in 0 .. 1, NEW v \in Prep!Words \X Prep!Words,
           NEW q, q = WithPoly(p, w, v)
    PROVE  /\ Prep!IsStruct(q) /\ q.oh = p.oh /\ q.poly[w] = v
           /\ \A u \in 0 .. 1 : u # w => q.poly[u] = p.poly[u]
           /\ v = p.poly[w] => q = p
  BY DEF Prep!IsStruct, WithPoly

\* Writing one word of the OH key changes nothing else.
LEMMA SetOh ==
    ASSUME NEW p, Prep!IsStruct(p), NEW j \in 0 .. OhCount - 1, NEW v \in Prep!Words,
           NEW q, q = WithOh(p, j, v)
    PROVE  /\ Prep!IsStruct(q) /\ q.poly = p.poly /\ q.oh[j] = v
           /\ \A k \in 0 .. OhCount - 1 : k # j => q.oh[k] = p.oh[k]
  BY DEF Prep!IsStruct, WithOh

\* The words of a struct are words.
LEMMA StructWords ==
    ASSUME NEW p, Prep!IsStruct(p)
    PROVE  /\ \A w \in 0 .. 1 : /\ p.poly[w] \in Prep!Words \X Prep!Words
                                /\ p.poly[w][1] \in Prep!Words /\ p.poly[w][2] \in Prep!Words
                                /\ p.poly[w] = <<p.poly[w][1], p.poly[w][2]>>
           /\ \A j \in 0 .. OhCount - 1 : p.oh[j] \in Prep!Words
  <1>1. p.poly \in [0 .. 1 -> Prep!Words \X Prep!Words] /\ p.oh \in [0 .. OhCount - 1 -> Prep!Words]
    BY DEF Prep!IsStruct
  <1>2. ASSUME NEW w \in 0 .. 1
        PROVE  /\ p.poly[w] \in Prep!Words \X Prep!Words
               /\ p.poly[w][1] \in Prep!Words /\ p.poly[w][2] \in Prep!Words
               /\ p.poly[w] = <<p.poly[w][1], p.poly[w][2]>>
    <2>1. p.poly[w] \in Prep!Words \X Prep!Words
      BY <1>1
    <2>2. PICK v : v = p.poly[w]
      OBVIOUS
    <2>3. v[1] \in Prep!Words /\ v[2] \in Prep!Words /\ v = <<v[1], v[2]>>
      BY <2>1, <2>2
    <2> QED BY <2>1, <2>2, <2>3
  <1> QED BY <1>1, <1>2

\* Both modules count alike.
LEMMA PrepCounts == ASSUME NEW S PROVE Prep!Cardinality(S) = Cardinality(S)
  BY DEF Prep!Cardinality, Cardinality

\* The sets of changed words are finite.
LEMMA ChangedFinite ==
    ASSUME Prep!TypeOK
    PROVE  /\ IsFiniteSet(PolyChanged) /\ Cardinality(PolyChanged) \in Nat
           /\ IsFiniteSet(OhChanged) /\ Cardinality(OhChanged) \in Nat
  <1>1. OhCount - 1 \in Int /\ i \in Int /\ 0 \in Int /\ 1 \in Int
    BY Params DEF Prep!TypeOK
  <1>2. IsFiniteSet(0 .. 1) /\ IsFiniteSet(0 .. i) /\ IsFiniteSet(0 .. OhCount - 1)
    <2>1. IsFiniteSet(0 .. 1)
      BY <1>1, FS_Interval
    <2>2. IsFiniteSet(0 .. i)
      BY <1>1, FS_Interval
    <2>3. IsFiniteSet(0 .. OhCount - 1)
      BY <1>1, FS_Interval
    <2> QED BY <2>1, <2>2, <2>3
  <1>3. PolyChanged \subseteq 0 .. i \/ PolyChanged \subseteq 0 .. 1
    BY DEF PolyChanged
  <1>4. OhChanged \subseteq 0 .. OhCount - 1
    BY DEF OhChanged
  <1>5. IsFiniteSet(PolyChanged) /\ IsFiniteSet(OhChanged)
    BY <1>2, <1>3, <1>4, FS_Subset
  <1> QED BY <1>5, FS_CardinalityType

\* A set that gains one element at most grows by one at most.
LEMMA Grow ==
    ASSUME NEW S, IsFiniteSet(S), NEW x, NEW T, T \subseteq S \cup {x}
    PROVE  /\ Cardinality(T) \in Nat /\ Cardinality(T) <= Cardinality(S) + 1
           /\ T \subseteq S => Cardinality(T) <= Cardinality(S)
  <1>1. /\ IsFiniteSet(S \cup {x}) /\ Cardinality(S) \in Nat
        /\ Cardinality(S \cup {x}) = IF x \in S THEN Cardinality(S) ELSE Cardinality(S) + 1
    BY FS_AddElement, FS_CardinalityType
  <1>2. IsFiniteSet(T) /\ Cardinality(T) <= Cardinality(S \cup {x})
    BY <1>1, FS_Subset
  <1>3. Cardinality(T) \in Nat
    BY <1>2, FS_CardinalityType
  <1>4. T \subseteq S => Cardinality(T) <= Cardinality(S)
    BY FS_Subset
  <1> QED BY <1>1, <1>2, <1>3, <1>4

\* The struct is counted as it is entered.
LEMMA PrepInit == Prep!Init => PrepInv
  <1> SUFFICES ASSUME Prep!Init PROVE PrepInv
    OBVIOUS
  <1>1. /\ caller = "user" /\ prep = "idle" /\ params \in Fills /\ given = params /\ ~again
        /\ ~success /\ buf_idx = 0 /\ i = 0 /\ candidate = 0
        /\ again \in BOOLEAN /\ success \in BOOLEAN
    BY DEF Prep!Init
  <1>2. Prep!IsStruct(params) /\ Prep!IsStruct(given)
    BY <1>1, Params
  <1>3. 0 \in Prep!Words /\ OhCount \in Nat
    BY Params, Moduli, PrepIsPoly DEF Poly!Words
  <1> QED BY <1>1, <1>2, <1>3
          DEF PrepInv, Prep!TypeOK, Progress, AgainInv, WordsInv, Prep!WordsAreTheCallers

\* A struct is entered with nothing changed in it.
LEMMA EnterKeeps ==
    ASSUME PrepInv, NEW p, Prep!IsStruct(p), Prep!Enter(p), caller' \in {"user", "derive"},
           again' \in BOOLEAN, again' => Prep!Usable(p)
    PROVE  PrepInv'
  <1>1. /\ prep' = "poly" /\ params' = p /\ given' = p /\ buf_idx' = 0 /\ i' = 0
        /\ candidate' = p.poly[0][2] /\ success' = FALSE
    BY DEF Prep!Enter
  <1>2. p.poly[0][2] \in Prep!Words
    BY StructWords
  <1>3. Prep!TypeOK'
    <2>1. 0 \in 0 .. OhCount /\ 0 \in 0 .. 2
      BY Params
    <2>2. Prep!IsStruct(params)' /\ Prep!IsStruct(given)'
      BY <1>1 DEF Prep!IsStruct
    <2>3. /\ caller' \in {"user", "derive", "tests"}
          /\ prep' \in {"idle", "poly", "oh", "returned"} /\ prep' # "oh"
          /\ again' \in BOOLEAN /\ success' \in BOOLEAN
          /\ buf_idx' \in 0 .. 2 /\ i' \in 0 .. OhCount /\ candidate' \in Prep!Words
      BY <1>1, <1>2, <2>1
    <2> QED BY <2>2, <2>3 DEF Prep!TypeOK
  <1>4. Progress' /\ AgainInv'
    BY <1>1 DEF Progress, AgainInv
  <1>5. PolyChanged' = {} /\ OhChanged' = {}
    BY <1>1 DEF PolyChanged, OhChanged
  <1>6. Cardinality(PolyChanged') + Cardinality(OhChanged') <= buf_idx'
    BY <1>1, <1>5, FS_EmptySet
  <1>7. WordsInv'
    BY <1>1, <1>6 DEF WordsInv, Prep!WordsAreTheCallers
  <1> QED BY <1>3, <1>4, <1>7 DEF PrepInv

\* umash_params_prepare is called, on what was prepared or not.
LEMMA PrepareKeeps == ASSUME PrepInv, Prep!Prepare PROVE PrepInv'
  <1>1. /\ Prep!Enter(params) /\ caller' = "user" /\ again' = success /\ prep = "idle"
    BY DEF Prep!Prepare
  <1>2. Prep!IsStruct(params) /\ success \in BOOLEAN /\ (success => Prep!Usable(params))
    BY DEF PrepInv, Prep!TypeOK, Progress
  <1> QED BY <1>1, <1>2, EnterKeeps

\* umash_params_derive fills the struct and calls it.
LEMMA DeriveKeeps == ASSUME PrepInv, Prep!Derive PROVE PrepInv'
  <1>1. PICK p \in Streams : Prep!Enter(p)
    BY DEF Prep!Derive
  <1>2. Prep!IsStruct(p)
    BY Params
  <1>3. caller' = "derive" /\ again' = FALSE
    BY DEF Prep!Derive
  <1> QED BY <1>1, <1>2, <1>3, EnterKeeps

\* A key of the reference is usable without a preparation.
LEMMA GenerateKeeps == ASSUME PrepInv, Prep!Generate PROVE PrepInv'
  <1>1. PICK k \in Prep!GeneratedKeys :
            params' = [poly |-> [w \in 0 .. 1 |-> <<(k.poly * k.poly) % Prep!Field, k.poly>>],
                       oh |-> k.oh]
    BY DEF Prep!Generate
  <1>2. /\ given' = params' /\ caller' = "tests" /\ success' = TRUE /\ prep' = "idle"
        /\ prep = "idle" /\ UNCHANGED <<again, buf_idx, i, candidate>>
    BY DEF Prep!Generate
  <1>3. /\ k \in Keys /\ 1 < k.poly /\ k.poly < Prep!Field
        /\ \A j \in 0 .. OhCount - 1 : ~Prep!value_is_repeated(k.oh, j, k.oh[j])
    BY <1>1 DEF Prep!GeneratedKeys, Prep!is_acceptable_multiplier
  <1>4. k.poly \in 1 .. Prep!modulo - 1 /\ k.oh \in [0 .. OhCount - 1 -> Prep!Words]
    BY <1>3, Params, FieldWords, PrepIsPoly
  <1>5. PICK x \in 1 .. Prep!modulo - 1, s \in 0 .. Prep!modulo - 1 :
            x = k.poly /\ s = (x * x) % Prep!modulo
    BY <1>4, Squares
  <1>6. params' = [poly |-> [w \in 0 .. 1 |-> <<s, x>>], oh |-> k.oh]
    BY <1>1, <1>5, PrepIsPoly
  <1>7. Prep!IsStruct(params')
    <2>1. s \in Prep!Words /\ x \in Prep!Words
      BY FieldWords
    <2> QED BY <1>4, <1>6, <2>1 DEF Prep!IsStruct
  <1>8. Prep!Usable(params')
    <2>1. \A w \in 0 .. 1 : params'.poly[w] = <<s, x>>
      BY <1>6
    <2>2. ASSUME NEW j \in 0 .. OhCount - 1, NEW l \in 0 .. OhCount - 1, k.oh[j] = k.oh[l]
          PROVE  j = l
      <3>1. ~(l \in 0 .. j - 1) /\ ~(j \in 0 .. l - 1)
        BY <1>3, <2>2 DEF Prep!value_is_repeated
      <3> QED BY <3>1, Params
    <2> QED BY <1>5, <1>6, <2>1, <2>2 DEF Prep!Usable
  <1>9. ~again /\ ~again'
    BY <1>2 DEF PrepInv, AgainInv
  <1>10. Prep!TypeOK'
    <2>1. /\ again' \in BOOLEAN /\ buf_idx' \in 0 .. 2 /\ i' \in 0 .. OhCount
          /\ candidate' \in Prep!Words
      BY <1>2 DEF PrepInv, Prep!TypeOK
    <2> QED BY <1>2, <1>7, <2>1 DEF Prep!TypeOK, Prep!IsStruct
  <1>11. Progress' /\ AgainInv' /\ WordsInv'
    BY <1>2, <1>8, <1>9 DEF Progress, AgainInv, WordsInv, Prep!WordsAreTheCallers
  <1> QED BY <1>10, <1>11 DEF PrepInv

\* A multiplier is accepted: it is the caller's unless that was bad.
LEMMA AcceptMultiplierKeeps == ASSUME PrepInv, Prep!AcceptMultiplier PROVE PrepInv'
  <1>1. /\ prep = "poly" /\ Prep!IsMultiplier(Prep!Mask(candidate))
        /\ params' = [params EXCEPT !.poly[i] = Prep!Multipliers(Prep!Mask(candidate))]
        /\ UNCHANGED <<caller, given, again, buf_idx, success>>
        /\ \/ i = 0 /\ i' = 1 /\ candidate' = params.poly[1][2] /\ prep' = "poly"
           \/ i # 0 /\ i' = 0 /\ candidate' = candidate /\ prep' = "oh"
    BY DEF Prep!AcceptMultiplier
  <1>2. /\ Prep!IsStruct(params) /\ Prep!IsStruct(given) /\ candidate \in Prep!Words /\ i \in 0 .. 1
        /\ again \in BOOLEAN /\ success \in BOOLEAN /\ buf_idx \in 0 .. 2
        /\ caller \in {"user", "derive", "tests"}
    BY <1>1 DEF PrepInv, Prep!TypeOK, Progress
  <1>3. ~success
    BY <1>1 DEF PrepInv, Progress
  <1>4. PICK x : x = Prep!Mask(candidate)
    OBVIOUS
  <1>5. x \in 1 .. Prep!modulo - 1
    BY <1>1, <1>2, <1>4, Accepted
  <1>6. PICK v : v = Prep!Multipliers(x)
    OBVIOUS
  <1>7. /\ v[1] = (x * x) % Prep!modulo /\ v[2] = x
        /\ v[1] \in 0 .. Prep!modulo - 1 /\ v \in Prep!Words \X Prep!Words
    BY <1>5, <1>6, Squares, FieldWords
  <1>n. PICK n \in 0 .. 1 : n = i
    BY <1>2
  <1>8. PICK q, p : q = params' /\ p = params /\ q = WithPoly(p, n, v)
    BY <1>1, <1>4, <1>6, <1>n DEF WithPoly
  <1>9. /\ Prep!IsStruct(q) /\ q.oh = params.oh /\ q.poly[i] = v
        /\ \A u \in 0 .. 1 : u # i => q.poly[u] = params.poly[u]
        /\ v = params.poly[i] => q = params
    <2>1. /\ Prep!IsStruct(q) /\ q.oh = p.oh /\ q.poly[n] = v
          /\ \A u \in 0 .. 1 : u # n => q.poly[u] = p.poly[u]
          /\ v = p.poly[n] => q = p
      <3>1. Prep!IsStruct(p) /\ v \in Prep!Words \X Prep!Words
        BY <1>2, <1>7, <1>8
      <3>2. q = WithPoly(p, n, v)
        BY <1>8
      <3> QED BY <3>1, <3>2, SetPoly
    <2> QED BY <2>1, <1>8, <1>n
  <1>10. \A w \in 0 .. i : Good(q, w)
    <2>1. Good(q, i)
      BY <1>5, <1>7, <1>9 DEF Good
    <2>2. \A w \in 0 .. i - 1 : Good(params, w)
      BY <1>1 DEF PrepInv, Progress
    <2>3. \A w \in 0 .. i - 1 : Good(q, w)
      BY <1>2, <1>9, <2>2 DEF Good
    <2> QED BY <1>2, <2>1, <2>3
  <1>11. again => q = params
    <2> SUFFICES ASSUME again PROVE v = params.poly[i]
      BY <1>9
    <2>1. candidate = params.poly[i][2] /\ Prep!Usable(params)
      BY <1>1 DEF PrepInv, AgainInv
    <2>2. /\ params.poly[i][2] \in 1 .. Prep!modulo - 1
          /\ params.poly[i][1] = (params.poly[i][2] * params.poly[i][2]) % Prep!modulo
      BY <1>2, <2>1 DEF Prep!Usable
    <2>3. x = candidate
      BY <1>2, <1>4, <2>1, <2>2, Masked
    <2>4. v = <<params.poly[i][1], params.poly[i][2]>>
      BY <1>5, <1>6, <2>1, <2>2, <2>3, Squares
    <2> QED BY <1>2, <2>4, StructWords
  <1>12. candidate' \in Prep!Words /\ i' \in 0 .. OhCount
    BY <1>1, <1>2, StructWords, Params
  <1>13. Prep!TypeOK'
    <2>1. Prep!IsStruct(params)' /\ Prep!IsStruct(given)'
      BY <1>1, <1>2, <1>8, <1>9 DEF Prep!IsStruct
    <2>2. (prep = "oh" =>
              \A w \in 0 .. 1 :
                  params.poly[w] \in (0 .. Prep!modulo - 1) \X (1 .. Prep!modulo - 1))'
      <3> SUFFICES ASSUME prep' = "oh", NEW w \in 0 .. 1
                   PROVE  q.poly[w] \in (0 .. Prep!modulo - 1) \X (1 .. Prep!modulo - 1)
        BY <1>8
      <3>1. Good(q, w)
        BY <1>1, <1>2, <1>10
      <3>2. q.poly[w][2] \in 1 .. Prep!modulo - 1 /\ q.poly[w][1] \in 0 .. Prep!modulo - 1
        BY <3>1, Squares DEF Good
      <3>3. q.poly[w] = <<q.poly[w][1], q.poly[w][2]>>
        BY <1>9, StructWords
      <3> QED BY <3>2, <3>3
    <2>3. /\ caller' \in {"user", "derive", "tests"}
          /\ prep' \in {"idle", "poly", "oh", "returned"}
          /\ again' \in BOOLEAN /\ success' \in BOOLEAN
          /\ buf_idx' \in 0 .. 2 /\ i' \in 0 .. OhCount /\ candidate' \in Prep!Words
      BY <1>1, <1>2, <1>12
    <2> QED BY <2>1, <2>2, <2>3 DEF Prep!TypeOK
  <1>14. Progress'
    <2>1. \A w \in 0 .. i : Good(params', w)
      BY <1>8, <1>10
    <2>2. Apart(params', 0)
      BY DEF Apart
    <2> QED BY <1>1, <1>2, <1>3, <2>1, <2>2 DEF Progress
  <1>15. AgainInv'
    <2> SUFFICES ASSUME again' PROVE AgainInv'
      BY DEF AgainInv
    <2>1. again /\ params' = params /\ params = given /\ Prep!Usable(given)
      BY <1>1, <1>8, <1>11 DEF PrepInv, AgainInv
    <2> QED BY <1>1, <1>2, <2>1 DEF AgainInv, Prep!Usable
  <1>16. WordsInv'
    <2>1. Spent' = Spent
      BY <1>1 DEF Spent
    <2>2. /\ \A w \in 0 .. i - 1 : PolyWord(w)
          /\ candidate # given.poly[i][2] =>
                Prep!Given(given, i) \notin 1 .. Prep!modulo - 1 /\ candidate \in Spent
          /\ \A w \in i .. 1 : params.poly[w] = given.poly[w]
          /\ params.oh = given.oh
          /\ Cardinality(PolyChanged) + Cardinality(OhChanged) <= buf_idx
      BY <1>1 DEF PrepInv, WordsInv
    <2>3. params'.oh = given'.oh /\ \A w \in 0 .. 1 : w > i => params'.poly[w] = given'.poly[w]
      BY <1>1, <1>2, <1>8, <1>9, <2>2
    <2>4. \A w \in 0 .. i : PolyWord(w)'
      <3>1. ASSUME NEW w \in 0 .. i - 1 PROVE PolyWord(w)'
        <4>1. params'.poly[w] = params.poly[w] /\ PolyWord(w)
          BY <1>2, <1>8, <1>9, <2>2
        <4> QED BY <1>1, <2>1, <4>1 DEF PolyWord
      <3>2. PolyWord(n)'
        <4>1. Prep!Given(given', n) = Prep!Given(given, n)
          BY <1>1
        <4>2. params'.poly[n][2] = x
          BY <1>7, <1>8, <1>9, <1>n
        <4>3. x # Prep!Given(given, n) => candidate # given.poly[n][2]
          BY <1>4 DEF Prep!Given
        <4>4. candidate \in Spent => x \in {Prep!Mask(y) : y \in Spent}
          BY <1>4
        <4>5. x # Prep!Given(given, n) =>
                  /\ Prep!Given(given, n) \notin 1 .. Prep!modulo - 1
                  /\ x \in {Prep!Mask(y) : y \in Spent}
          BY <1>n, <2>2, <4>3, <4>4
        <4> QED BY <2>1, <4>1, <4>2, <4>5 DEF PolyWord
      <3> QED BY <1>n, <3>1, <3>2
    <2>5. PolyChanged' \subseteq PolyChanged /\ OhChanged' \subseteq OhChanged
      <3>1. ASSUME NEW w \in 0 .. 1, w > i PROVE w \notin PolyChanged'
        <4>1. params'.poly[w] = given'.poly[w] /\ i = 0 /\ w = 1
          BY <1>2, <2>3, <3>1
        <4>2. prep' = "poly" /\ i' = 1 /\ candidate' = given'.poly[1][2]
          BY <1>1, <1>8, <1>9, <4>1, <1>n
        <4> QED BY <4>1, <4>2 DEF PolyChanged
      <3>2. ASSUME NEW w \in 0 .. i, w \in PolyChanged' PROVE w \in PolyChanged
        <4>1. params'.poly[w][2] # Prep!Given(given, w)
          BY <1>1, <1>2, <3>2 DEF PolyChanged
        <4>2. CASE w = i
          <5>1. params'.poly[w][2] = x
            BY <1>7, <1>8, <1>9, <4>2
          <5>2. candidate # given.poly[w][2]
            BY <1>4, <4>1, <5>1 DEF Prep!Given
          <5> QED BY <1>1, <4>2, <5>2 DEF PolyChanged
        <4>3. CASE w # i
          <5>1. params'.poly[w] = params.poly[w]
            BY <1>2, <1>8, <1>9, <4>3
          <5> QED BY <1>1, <4>1, <4>3, <5>1 DEF PolyChanged
        <4> QED BY <4>2, <4>3
      <3>3. PolyChanged' \subseteq 0 .. 1
        BY <1>1, <1>2 DEF PolyChanged
      <3>4. OhChanged' = {}
        BY <2>3 DEF OhChanged
      <3>5. \A w \in 0 .. 1 : w > i \/ w \in 0 .. i
        BY <1>2
      <3> QED BY <3>1, <3>2, <3>3, <3>4, <3>5
    <2>6. Cardinality(PolyChanged') + Cardinality(OhChanged') <= buf_idx'
      <3>1. PICK S, T, U, V : /\ S = PolyChanged /\ T = PolyChanged' /\ U = OhChanged
                              /\ V = OhChanged' /\ IsFiniteSet(S) /\ IsFiniteSet(U)
                              /\ Cardinality(S) \in Nat /\ Cardinality(U) \in Nat
        BY ChangedFinite DEF PrepInv
      <3>2. /\ Cardinality(T) \in Nat /\ Cardinality(T) <= Cardinality(S)
            /\ Cardinality(V) \in Nat /\ Cardinality(V) <= Cardinality(U)
        BY <2>5, <3>1, Grow
      <3> QED BY <1>1, <1>2, <2>2, <3>1, <3>2
    <2>7. ASSUME NEW j \in 0 .. OhCount - 1 PROVE OhWord(j)' /\ params'.oh[j] = given'.oh[j]
      BY <2>3 DEF OhWord
    <2> QED BY <1>1, <1>2, <2>3, <2>4, <2>6, <2>7 DEF WordsInv, Prep!WordsAreTheCallers
  <1> QED BY <1>13, <1>14, <1>15, <1>16 DEF PrepInv

\* The preparation fails, but never that of what was prepared.
LEMMA FailKeeps == ASSUME PrepInv, Prep!Fail, ~again PROVE PrepInv'
  <1>1. /\ prep' = "returned" /\ success' = FALSE
        /\ UNCHANGED <<caller, params, given, again, buf_idx, i, candidate>>
    BY DEF Prep!Fail
  <1>2. Prep!TypeOK'
    <2>1. Prep!IsStruct(params)' /\ Prep!IsStruct(given)'
      BY <1>1 DEF PrepInv, Prep!TypeOK, Prep!IsStruct
    <2> QED BY <1>1, <2>1 DEF PrepInv, Prep!TypeOK
  <1> QED BY <1>1, <1>2
          DEF PrepInv, Progress, AgainInv, WordsInv, Prep!WordsAreTheCallers

\* A word of buf replaces a bad multiplier, or the preparation fails.
LEMMA ReplaceMultiplierKeeps == ASSUME PrepInv, Prep!ReplaceMultiplier PROVE PrepInv'
  <1>1. /\ prep = "poly" /\ ~Prep!IsMultiplier(Prep!Mask(candidate))
        /\ \/ Prep!Fail
           \/ /\ ~Prep!Exhausted
              /\ candidate' = Prep!Drawn /\ buf_idx' = buf_idx + 1
              /\ UNCHANGED <<caller, prep, params, given, again, i, success>>
    BY DEF Prep!ReplaceMultiplier
  <1>2. /\ Prep!IsStruct(params) /\ Prep!IsStruct(given) /\ candidate \in Prep!Words /\ i \in 0 .. 1
        /\ buf_idx \in 0 .. 2
    BY <1>1 DEF PrepInv, Prep!TypeOK, Progress
  <1>3. PICK n \in 0 .. 1 : n = i
    BY <1>2
  <1>4. Prep!Mask(candidate) \notin 1 .. Prep!modulo - 1
    BY <1>1, <1>2, Accepted
  <1>5. ~again
    <2> SUFFICES ASSUME again PROVE FALSE
      OBVIOUS
    <2>1. candidate = given.poly[n][2] /\ Prep!Usable(given)
      BY <1>1, <1>3 DEF PrepInv, AgainInv
    <2>2. candidate \in 1 .. Prep!modulo - 1
      BY <2>1 DEF Prep!Usable
    <2> QED BY <1>2, <1>4, <2>2, Masked
  <1>6. CASE Prep!Fail
    BY <1>5, <1>6, FailKeeps
  <1>7. CASE ~Prep!Fail
    <2>1. /\ candidate' = given.poly[buf_idx][1] /\ buf_idx \in 0 .. 1 /\ buf_idx' = buf_idx + 1
          /\ UNCHANGED <<caller, prep, params, given, again, i, success>>
      BY <1>1, <1>2, <1>7 DEF Prep!Drawn, Prep!Exhausted
    <2>2. candidate' \in Prep!Words /\ buf_idx' \in 0 .. 2
      BY <1>2, <2>1, StructWords
    <2>3. Prep!TypeOK'
      <3>1. Prep!IsStruct(params)' /\ Prep!IsStruct(given)'
        BY <1>2, <2>1 DEF Prep!IsStruct
      <3> QED BY <1>1, <2>1, <2>2, <3>1 DEF PrepInv, Prep!TypeOK
    <2>4. Progress' /\ AgainInv'
      BY <1>1, <1>5, <2>1 DEF PrepInv, Progress, AgainInv, Good
    <2>5. Spent \subseteq Spent' /\ candidate' \in Spent'
      BY <2>1 DEF Spent
    <2>6. /\ \A w \in 0 .. n - 1 : PolyWord(w)
          /\ candidate # given.poly[n][2] => Prep!Given(given, n) \notin 1 .. Prep!modulo - 1
          /\ \A w \in n .. 1 : params.poly[w] = given.poly[w]
          /\ params.oh = given.oh
          /\ Cardinality(PolyChanged) + Cardinality(OhChanged) <= buf_idx
      BY <1>1, <1>3 DEF PrepInv, WordsInv
    <2>7. \A w \in 0 .. n - 1 : PolyWord(w)'
      BY <2>1, <2>5, <2>6 DEF PolyWord
    <2>8. Prep!Given(given, n) \notin 1 .. Prep!modulo - 1
      BY <1>4, <2>6 DEF Prep!Given
    <2>9. PolyChanged' \subseteq PolyChanged \cup {n} /\ OhChanged' \subseteq OhChanged
      BY <1>1, <1>3, <2>1 DEF PolyChanged, OhChanged
    <2>10. Cardinality(PolyChanged') + Cardinality(OhChanged') <= buf_idx'
      <3>1. PICK S, T, U, V : /\ S = PolyChanged /\ T = PolyChanged' /\ U = OhChanged
                              /\ V = OhChanged' /\ IsFiniteSet(S) /\ IsFiniteSet(U)
                              /\ Cardinality(S) \in Nat /\ Cardinality(U) \in Nat
        BY ChangedFinite DEF PrepInv
      <3>2. /\ Cardinality(T) \in Nat /\ Cardinality(T) <= Cardinality(S) + 1
            /\ Cardinality(V) \in Nat /\ Cardinality(V) <= Cardinality(U)
        BY <2>9, <3>1, Grow
      <3> QED BY <2>1, <2>6, <3>1, <3>2
    <2>11. WordsInv'
      <3>1. Prep!Given(given', n) \notin 1 .. Prep!modulo - 1
        BY <2>1, <2>8
      <3> QED BY <1>1, <1>3, <2>1, <2>5, <2>6, <2>7, <2>10, <3>1 DEF WordsInv, Prep!WordsAreTheCallers
    <2> QED BY <2>3, <2>4, <2>11 DEF PrepInv
  <1> QED BY <1>6, <1>7

\* A word of the OH key that repeats none before it is kept.
LEMMA AcceptOhKeeps == ASSUME PrepInv, Prep!AcceptOh PROVE PrepInv'
  <1>1. /\ prep = "oh" /\ i < OhCount /\ i' = i + 1
        /\ ~Prep!value_is_repeated(params.oh, i, params.oh[i])
        /\ UNCHANGED <<caller, prep, params, given, again, buf_idx, candidate, success>>
    BY DEF Prep!AcceptOh
  <1>2. i \in 0 .. OhCount - 1 /\ i' \in 0 .. OhCount
    BY <1>1, Params DEF PrepInv, Prep!TypeOK
  <1>3. Prep!TypeOK'
    <2>1. Prep!IsStruct(params)' /\ Prep!IsStruct(given)'
      BY <1>1 DEF PrepInv, Prep!TypeOK, Prep!IsStruct
    <2> QED BY <1>1, <1>2, <2>1 DEF PrepInv, Prep!TypeOK
  <1>4. Apart(params, i + 1)
    <2>1. Apart(params, i)
      BY <1>1 DEF PrepInv, Progress
    <2> SUFFICES ASSUME NEW j \in 0 .. i, NEW k \in 0 .. i, params.oh[j] = params.oh[k]
                 PROVE  j = k
      BY <1>2 DEF Apart
    <2>2. CASE j < i /\ k < i
      BY <1>2, <2>1, <2>2 DEF Apart
    <2>3. CASE j = i
      BY <1>1, <1>2, <2>3 DEF Prep!value_is_repeated
    <2>4. CASE k = i
      BY <1>1, <1>2, <2>4 DEF Prep!value_is_repeated
    <2> QED BY <1>2, <2>2, <2>3, <2>4
  <1>5. Progress' /\ AgainInv'
    BY <1>1, <1>4 DEF PrepInv, Progress, AgainInv, Good, Apart
  <1>6. WordsInv'
    <2>1. /\ \A w \in 0 .. 1 : PolyWord(w)
          /\ \A j \in 0 .. OhCount - 1 : OhWord(j) /\ (j > i => params.oh[j] = given.oh[j])
          /\ Cardinality(PolyChanged) + Cardinality(OhChanged) <= buf_idx
      BY <1>1 DEF PrepInv, WordsInv
    <2>2. \A w \in 0 .. 1 : PolyWord(w)'
      BY <1>1, <2>1 DEF PolyWord, Spent
    <2>3. \A j \in 0 .. OhCount - 1 : OhWord(j)' /\ (j > i' => params'.oh[j] = given'.oh[j])
      BY <1>1, <1>2, <2>1 DEF OhWord, Spent
    <2>4. PolyChanged' = PolyChanged /\ OhChanged' = OhChanged
      BY <1>1 DEF PolyChanged, OhChanged
    <2> QED BY <1>1, <2>1, <2>2, <2>3, <2>4 DEF WordsInv, Prep!WordsAreTheCallers
  <1> QED BY <1>3, <1>5, <1>6 DEF PrepInv

\* A word of buf replaces a repeated word, or the preparation fails.
LEMMA ReplaceOhKeeps == ASSUME PrepInv, Prep!ReplaceOh PROVE PrepInv'
  <1>1. /\ prep = "oh" /\ i < OhCount /\ Prep!value_is_repeated(params.oh, i, params.oh[i])
        /\ \/ Prep!Fail
           \/ /\ ~Prep!Exhausted
              /\ params' = [params EXCEPT !.oh[i] = Prep!Drawn] /\ buf_idx' = buf_idx + 1
              /\ UNCHANGED <<caller, prep, given, again, i, candidate, success>>
    BY DEF Prep!ReplaceOh
  <1>2. /\ Prep!IsStruct(params) /\ Prep!IsStruct(given) /\ buf_idx \in 0 .. 2
        /\ OhCount \in Nat \ {0}
    BY Params DEF PrepInv, Prep!TypeOK
  <1>3. PICK n \in 0 .. OhCount - 1 : n = i
    BY <1>1, Params DEF PrepInv, Prep!TypeOK
  <1>4. ~again
    <2> SUFFICES ASSUME again PROVE FALSE
      OBVIOUS
    <2>1. Prep!Usable(params)
      BY DEF PrepInv, AgainInv
    <2>2. PICK j \in 0 .. n - 1 : params.oh[j] = params.oh[n]
      BY <1>1, <1>3 DEF Prep!value_is_repeated
    <2> QED BY <1>2, <2>1, <2>2 DEF Prep!Usable
  <1>5. CASE Prep!Fail
    BY <1>4, <1>5, FailKeeps
  <1>6. CASE ~Prep!Fail
    <2>1. PICK p, q, v : /\ p = params /\ q = params' /\ v = given.poly[buf_idx][1]
                         /\ q = WithOh(p, n, v)
      BY <1>1, <1>3, <1>6 DEF WithOh, Prep!Drawn
    <2>2. /\ buf_idx \in 0 .. 1 /\ buf_idx' = buf_idx + 1
          /\ UNCHANGED <<caller, prep, given, again, i, candidate, success>>
      BY <1>1, <1>2, <1>6 DEF Prep!Exhausted
    <2>3. v \in Prep!Words
      BY <1>2, <2>1, <2>2, StructWords
    <2>4. /\ Prep!IsStruct(q) /\ q.poly = p.poly /\ q.oh[n] = v
          /\ \A k \in 0 .. OhCount - 1 : k # n => q.oh[k] = p.oh[k]
      <3>1. Prep!IsStruct(p)
        BY <1>2, <2>1
      <3>2. q = WithOh(p, n, v)
        BY <2>1
      <3> QED BY <2>3, <3>1, <3>2, SetOh
    <2>5. Prep!TypeOK'
      <3>1. Prep!IsStruct(params)' /\ Prep!IsStruct(given)'
        BY <1>2, <2>1, <2>2, <2>4 DEF Prep!IsStruct
      <3>2. \A w \in 0 .. 1 : params'.poly[w] \in (0 .. Prep!modulo - 1) \X (1 .. Prep!modulo - 1)
        BY <1>1, <2>1, <2>4 DEF PrepInv, Prep!TypeOK
      <3>3. /\ caller' \in {"user", "derive", "tests"}
            /\ prep' \in {"idle", "poly", "oh", "returned"}
            /\ again' \in BOOLEAN /\ success' \in BOOLEAN
            /\ buf_idx' \in 0 .. 2 /\ i' \in 0 .. OhCount /\ candidate' \in Prep!Words
        BY <2>2 DEF PrepInv, Prep!TypeOK
      <3> QED BY <3>1, <3>2, <3>3 DEF Prep!TypeOK
    <2>6. Progress' /\ AgainInv'
      <3>1. (\A w \in 0 .. 1 : Good(p, w)) /\ Apart(p, n) /\ ~success
        BY <1>1, <1>3, <2>1 DEF PrepInv, Progress
      <3>2. \A w \in 0 .. 1 : Good(q, w)
        BY <2>4, <3>1 DEF Good
      <3>3. Apart(q, n)
        BY <1>2, <2>4, <3>1 DEF Apart
      <3> QED BY <1>1, <1>3, <1>4, <2>1, <2>2, <3>1, <3>2, <3>3 DEF Progress, AgainInv
    <2>7. Spent \subseteq Spent' /\ v \in Spent'
      BY <2>1, <2>2 DEF Spent
    <2>8. /\ \A w \in 0 .. 1 : PolyWord(w)
          /\ \A j \in 0 .. OhCount - 1 : OhWord(j) /\ (j > n => p.oh[j] = given.oh[j])
          /\ Cardinality(PolyChanged) + Cardinality(OhChanged) <= buf_idx
      BY <1>1, <1>3, <2>1 DEF PrepInv, WordsInv
    <2>9. \A w \in 0 .. 1 : PolyWord(w)'
      BY <2>1, <2>2, <2>4, <2>7, <2>8 DEF PolyWord
    <2>10. ASSUME NEW j \in 0 .. OhCount - 1
           PROVE  OhWord(j)' /\ (j > n => q.oh[j] = given'.oh[j])
      <3>1. ASSUME NEW needle, j <= n
            PROVE  Prep!value_is_repeated(q.oh, j, needle) <=> Prep!value_is_repeated(p.oh, j, needle)
        BY <1>2, <2>4, <3>1 DEF Prep!value_is_repeated
      <3>2. CASE j > n
        <4>1. q.oh[j] = p.oh[j] /\ p.oh[j] = given.oh[j]
          BY <1>2, <2>4, <2>8, <3>2
        <4> QED BY <2>1, <2>2, <4>1 DEF OhWord
      <3>3. CASE j = n
        <4>1. Prep!value_is_repeated(p.oh, j, given.oh[j])
          <5>1. p.oh[j] # given.oh[j] => Prep!value_is_repeated(p.oh, j, given.oh[j])
            BY <2>1, <2>8 DEF OhWord
          <5>2. Prep!value_is_repeated(p.oh, j, p.oh[j])
            BY <1>1, <1>3, <2>1, <3>3
          <5> QED BY <5>1, <5>2
        <4>2. Prep!value_is_repeated(q.oh, j, given.oh[j]) /\ q.oh[j] \in Spent'
          BY <1>2, <2>4, <2>7, <3>1, <3>3, <4>1
        <4> QED BY <2>1, <2>2, <3>3, <4>2 DEF OhWord
      <3>4. CASE j < n
        <4>1. q.oh[j] = p.oh[j]
          BY <1>2, <2>4, <3>4
        <4>2. p.oh[j] # given.oh[j] =>
                  Prep!value_is_repeated(p.oh, j, given.oh[j]) /\ p.oh[j] \in Spent
          BY <2>1, <2>8 DEF OhWord
        <4>3. j <= n
          BY <3>4
        <4>4. q.oh[j] # given.oh[j] =>
                  Prep!value_is_repeated(q.oh, j, given.oh[j]) /\ q.oh[j] \in Spent'
          BY <2>7, <3>1, <4>1, <4>2, <4>3
        <4> QED BY <2>1, <2>2, <3>4, <4>4 DEF OhWord
      <3> QED BY <1>2, <3>2, <3>3, <3>4
    <2>11. PolyChanged' \subseteq PolyChanged /\ OhChanged' \subseteq OhChanged \cup {n}
      <3>1. PolyChanged' \subseteq PolyChanged
        BY <1>1, <2>1, <2>2, <2>4 DEF PolyChanged
      <3>2. OhChanged' \subseteq OhChanged \cup {n}
        BY <2>1, <2>2, <2>4 DEF OhChanged
      <3> QED BY <3>1, <3>2
    <2>12. Cardinality(PolyChanged') + Cardinality(OhChanged') <= buf_idx'
      <3>1. PICK S, T, U, V : /\ S = PolyChanged /\ T = PolyChanged' /\ U = OhChanged
                              /\ V = OhChanged' /\ IsFiniteSet(S) /\ IsFiniteSet(U)
                              /\ Cardinality(S) \in Nat /\ Cardinality(U) \in Nat
        BY ChangedFinite DEF PrepInv
      <3>2. /\ Cardinality(T) \in Nat /\ Cardinality(T) <= Cardinality(S)
            /\ Cardinality(V) \in Nat /\ Cardinality(V) <= Cardinality(U) + 1
        BY <2>11, <3>1, Grow
      <3> QED BY <2>2, <2>8, <3>1, <3>2
    <2>13. WordsInv'
      BY <1>1, <1>3, <2>1, <2>2, <2>9, <2>10, <2>12 DEF WordsInv, Prep!WordsAreTheCallers
    <2> QED BY <2>5, <2>6, <2>13 DEF PrepInv
  <1> QED BY <1>5, <1>6

\* When every word was examined, the parameters are prepared.
LEMMA SucceedKeeps == ASSUME PrepInv, Prep!Succeed PROVE PrepInv'
  <1>1. /\ prep = "oh" /\ i = OhCount /\ prep' = "returned" /\ success' = TRUE
        /\ UNCHANGED <<caller, params, given, again, buf_idx, i, candidate>>
    BY DEF Prep!Succeed
  <1>2. Prep!TypeOK'
    <2>1. Prep!IsStruct(params)' /\ Prep!IsStruct(given)'
      BY <1>1 DEF PrepInv, Prep!TypeOK, Prep!IsStruct
    <2> QED BY <1>1, <2>1 DEF PrepInv, Prep!TypeOK
  <1>3. Prep!Usable(params)
    BY <1>1 DEF PrepInv, Progress, Good, Apart, Prep!Usable
  <1>4. Progress' /\ AgainInv'
    BY <1>1, <1>3 DEF PrepInv, Progress, AgainInv, Prep!Usable
  <1>5. WordsInv'
    <2>1. /\ \A w \in 0 .. 1 : PolyWord(w)
          /\ \A j \in 0 .. OhCount - 1 : OhWord(j)
          /\ Cardinality(PolyChanged) + Cardinality(OhChanged) <= buf_idx
      BY <1>1 DEF PrepInv, WordsInv
    <2>2. /\ PolyChanged = {w \in 0 .. 1 : params.poly[w][2] # Prep!Given(given, w)}
          /\ OhChanged = {j \in 0 .. OhCount - 1 : params.oh[j] # given.oh[j]}
      BY <1>1 DEF PolyChanged, OhChanged
    <2>3. /\ \A w \in PolyChanged : /\ Prep!Given(given, w) \notin 1 .. Prep!modulo - 1
                                    /\ params.poly[w][2] \in {Prep!Mask(x) : x \in Spent}
          /\ \A j \in OhChanged : /\ Prep!value_is_repeated(params.oh, j, given.oh[j])
                                  /\ params.oh[j] \in Spent
      BY <2>1, <2>2 DEF PolyWord, OhWord
    <2>4. Prep!WordsAreTheCallers'
      <3>1. Prep!Cardinality(PolyChanged) + Prep!Cardinality(OhChanged) <= buf_idx
        BY <2>1, PrepCounts
      <3> QED BY <1>1, <2>2, <2>3, <3>1 DEF Prep!WordsAreTheCallers, Spent
    <2> QED BY <1>1, <2>4 DEF WordsInv
  <1> QED BY <1>2, <1>4, <1>5 DEF PrepInv

\* The caller gets the struct back, and may fill it again when that failed.
LEMMA ReturnKeeps == ASSUME PrepInv, Prep!Return PROVE PrepInv'
  <1>1. /\ prep = "returned" /\ prep' = "idle" /\ (caller = "derive" => success)
        /\ (success => params' = params) /\ (~success => params' \in Streams \cup {params})
        /\ given' = params' /\ again' = FALSE /\ buf_idx' = 0 /\ i' = 0 /\ candidate' = 0
        /\ UNCHANGED <<caller, success>>
    BY DEF Prep!Return, Prep!DeriveStops
  <1>2. Prep!IsStruct(params')
    <2>1. Prep!IsStruct(params)
      BY DEF PrepInv, Prep!TypeOK
    <2>2. success \in BOOLEAN
      BY DEF PrepInv, Prep!TypeOK
    <2> QED BY <1>1, <2>1, <2>2, Params
  <1>3. Prep!TypeOK'
    <2>1. 0 \in 0 .. OhCount /\ 0 \in 0 .. 2 /\ 0 \in Prep!Words
      BY Params, Moduli, PrepIsPoly DEF Poly!Words
    <2>2. Prep!IsStruct(params)' /\ Prep!IsStruct(given)'
      BY <1>1, <1>2 DEF Prep!IsStruct
    <2>3. /\ caller' \in {"user", "derive", "tests"} /\ success' \in BOOLEAN
          /\ again' \in BOOLEAN
      BY <1>1 DEF PrepInv, Prep!TypeOK
    <2> QED BY <1>1, <2>1, <2>2, <2>3 DEF Prep!TypeOK
  <1>4. Progress'
    BY <1>1 DEF PrepInv, Progress
  <1>5. AgainInv' /\ WordsInv'
    BY <1>1 DEF AgainInv, WordsInv, Prep!WordsAreTheCallers
  <1> QED BY <1>3, <1>4, <1>5 DEF PrepInv

-----------------------------------------------------------------------------
(* Words as bits. *)

Word == 0 .. Range64 - 1

\* The natural numbers are in every set that has 0 and the successors of its own.
LEMMA SetOfNaturals ==
    ASSUME NEW S, 0 \in S, \A n \in Nat : n \in S => n + 1 \in S
    PROVE  \A n \in Nat : n \in S
  <1> DEFINE Missing == Nat \ S
             Less == {pair \in Nat \X Nat : pair[1] < pair[2]}
  <1> SUFFICES ASSUME Missing # {}
               PROVE  FALSE
    OBVIOUS
  <1>1. IsWellFoundedOn(Less, Nat)
    <2>1. OpToRel(<, Nat) = Less
      BY Zenon DEF OpToRel
    <2> QED BY <2>1, NatLessThanWellFounded, Zenon
  <1>2. Missing \subseteq Nat
    OBVIOUS
  <1> HIDE DEF Missing, Less
  <1>3. PICK n \in Missing : \A k \in Missing : <<k, n>> \notin Less
    BY <1>1, <1>2, WFMin
  <1> USE DEF Missing
  <1>4. n \in Nat /\ n # 0
    OBVIOUS
  <1>5. n - 1 \in Nat /\ n - 1 < n /\ (n - 1) + 1 = n
    BY <1>4
  <1>6. <<n - 1, n>> \in Less
    BY <1>4, <1>5 DEF Less
  <1>7. n - 1 \in S
    BY <1>3, <1>5, <1>6
  <1> QED BY <1>5, <1>7

\* What the proofs use of the constants.
LEMMA ShortConstants ==
    /\ ShortAssumption /\ WordBits \in Nat \ {0} /\ WordBits = 8 * ByteBits
    /\ \A n \in 0 .. WordBits : 2 ^ n \in Nat /\ 2 ^ (n + 1) = 2 * 2 ^ n
  BY KeysAssumption DEF KeysAssumption, ShortAssumption, WordBits, WordSize

\* Powers of two are positive,
LEMMA PowersArePositive == \A n \in 0 .. WordBits : 2 ^ n \in Nat \ {0}
  <1> DEFINE S == {n \in Nat : n <= WordBits => 2 ^ n \in Nat \ {0}}
  <1>1. 0 \in S
    <2>1. 2 ^ 0 = 1
      OBVIOUS
    <2> QED BY <2>1
  <1>2. ASSUME NEW n \in Nat, n \in S
        PROVE  n + 1 \in S
    <2> SUFFICES ASSUME n + 1 <= WordBits
                 PROVE  2 ^ (n + 1) \in Nat \ {0}
      OBVIOUS
    <2>1. n \in 0 .. WordBits
      BY ShortConstants
    <2>2. 2 ^ n \in Nat \ {0}
      BY <1>2, <2>1
    <2>3. 2 ^ (n + 1) = 2 * 2 ^ n
      BY <2>1, ShortConstants
    <2> QED BY <2>2, <2>3
  <1> HIDE DEF S
  <1>3. \A n \in Nat : n \in S
    BY <1>1, <1>2, SetOfNaturals
  <1> QED BY <1>3, ShortConstants DEF S

\* and the sum of exponents is that of a product.
LEMMA PowerOfSum ==
    ASSUME NEW l \in Nat, NEW n \in Nat, l + n <= WordBits
    PROVE  2 ^ (l + n) = 2 ^ l * 2 ^ n
  <1> DEFINE S == {k \in Nat : l + k <= WordBits => 2 ^ (l + k) = 2 ^ l * 2 ^ k}
  <1>0. WordBits \in Nat
    BY ShortConstants
  <1>1. 0 \in S
    <2>1. 2 ^ 0 = 1 /\ l + 0 = l
      OBVIOUS
    <2>2. 2 ^ l \in Nat
      BY <1>0, PowersArePositive
    <2>3. PICK p \in Nat : p = 2 ^ l
      BY <2>2
    <2>4. 2 ^ (l + 0) = p
      BY <2>1, <2>3
    <2>5. p = p * 1
      OBVIOUS
    <2> QED BY <2>1, <2>3, <2>4, <2>5
  <1>2. ASSUME NEW k \in Nat, k \in S
        PROVE  k + 1 \in S
    <2> SUFFICES ASSUME l + (k + 1) <= WordBits
                 PROVE  2 ^ (l + (k + 1)) = 2 ^ l * 2 ^ (k + 1)
      OBVIOUS
    <2>1. k \in 0 .. WordBits /\ l + k \in 0 .. WordBits /\ l \in 0 .. WordBits
      BY <1>0
    <2>2. l + (k + 1) = (l + k) + 1
      OBVIOUS
    <2>3. PICK p \in Nat, q \in Nat : p = 2 ^ l /\ q = 2 ^ k
      BY <2>1, PowersArePositive
    <2>4. 2 ^ (l + k) = p * q
      BY <1>2, <2>1, <2>3
    <2>5. 2 ^ ((l + k) + 1) = 2 * (p * q) /\ 2 ^ (k + 1) = 2 * q
      BY <2>1, <2>3, <2>4, ShortConstants
    <2>6. 2 * (p * q) = p * (2 * q)
      OBVIOUS
    <2> QED BY <2>2, <2>3, <2>5, <2>6
  <1> HIDE DEF S
  <1>3. n \in S
    BY <1>1, <1>2, SetOfNaturals
  <1> QED BY <1>3 DEF S

\* The next digit of a number, and those above.
LEMMA NextDigit ==
    ASSUME NEW p \in Nat \ {0}, NEW x \in Nat
    PROVE  x % (2 * p) = (x % p) + p * ((x \div p) % 2)
  <1>1. PICK q \in Int, r \in 0 .. p - 1 : q = x \div p /\ r = x % p /\ x = q * p + r
    BY Division
  <1>2. PICK h \in Int, b \in 0 .. 1 : h = q \div 2 /\ b = q % 2 /\ q = h * 2 + b
    <2>1. 2 \in Nat \ {0}
      OBVIOUS
    <2> QED BY <2>1, Division
  <1>3. x = h * (2 * p) + (r + p * b)
    <2>1. q * p = h * (2 * p) + p * b
      BY <1>2
    <2> QED BY <1>1, <2>1
  <1>4. r + p * b \in 0 .. 2 * p - 1 /\ 2 * p \in Nat \ {0}
    <2>1. b = 0 \/ b = 1
      OBVIOUS
    <2> QED BY <2>1
  <1>5. PICK t \in Nat \ {0}, u \in Int : t = 2 * p /\ u = r + p * b /\ u \in 0 .. t - 1
    BY <1>4
  <1>6. (h * t + u) % t = u
    BY <1>5, DivisionIsUnique
  <1> QED BY <1>1, <1>2, <1>3, <1>5, <1>6

\* Digits above a cut do not depend on those below it.
LEMMA UpperDigits ==
    ASSUME NEW p \in Nat \ {0}, NEW s \in Nat \ {0}, NEW q \in Nat, NEW b \in 0 .. p - 1
    PROVE  (q * p + b) \div (p * s) = q \div s
  <1>1. PICK d \in Int, r \in 0 .. s - 1 : d = q \div s /\ q = d * s + r
    BY Division
  <1>2. q * p + b = d * (p * s) + (r * p + b)
    <2>1. q * p = d * (p * s) + r * p
      BY <1>1
    <2> QED BY <2>1
  <1>3. r * p + b \in 0 .. p * s - 1 /\ p * s \in Nat \ {0}
    <2>1. r * p <= (s - 1) * p
      OBVIOUS
    <2>2. (s - 1) * p = p * s - p
      OBVIOUS
    <2>3. r * p >= 0 /\ r * p \in Int /\ p * s \in Int
      OBVIOUS
    <2> QED BY <2>1, <2>2, <2>3
  <1>4. PICK t \in Nat \ {0}, u \in Int : t = p * s /\ u = r * p + b /\ u \in 0 .. t - 1
    BY <1>3
  <1>5. (d * t + u) \div t = d
    BY <1>4, DivisionIsUnique
  <1>6. (q * p + b) \div (p * s) = d
    BY <1>2, <1>4, <1>5
  <1> QED BY <1>1, <1>6

\* Twice as much above a digit does not change it.
LEMMA LowerDigits ==
    ASSUME NEW p \in Nat \ {0}, NEW q \in Nat, NEW b \in Nat
    PROVE  ((q * (2 * p) + b) \div p) % 2 = (b \div p) % 2
  <1>1. PICK d \in Int, r \in 0 .. p - 1 : d = b \div p /\ b = d * p + r
    BY Division
  <1>2. q * (2 * p) + b = (2 * q + d) * p + r
    <2>1. (2 * q + d) * p = q * (2 * p) + d * p
      OBVIOUS
    <2> QED BY <1>1, <2>1
  <1>3. (q * (2 * p) + b) \div p = 2 * q + d
    <2>1. PICK e \in Int : e = 2 * q + d
      OBVIOUS
    <2>2. (e * p + r) \div p = e
      BY DivisionIsUnique
    <2> QED BY <1>2, <2>1, <2>2
  <1>4. (2 * q + d) % 2 = d % 2
    OBVIOUS
  <1> QED BY <1>1, <1>3, <1>4

\* Bits are 0 or 1,
LEMMA Bits ==
    ASSUME NEW x \in Nat, NEW k \in 0 .. WordBits
    PROVE  Bit(x, k) \in {0, 1}
  <1>1. PICK p \in Nat \ {0} : p = 2 ^ k
    BY PowersArePositive
  <1>2. x \div p \in Int
    BY Division
  <1>3. PICK q \in Int : q = x \div p
    BY <1>2
  <1>4. q % 2 \in {0, 1}
    OBVIOUS
  <1> QED BY <1>1, <1>3, <1>4 DEF Bit

\* and a number below a power of two has no bits from its exponent on.
LEMMA NoBitsAbove ==
    ASSUME NEW n \in Nat, NEW k \in n .. WordBits, NEW x \in 0 .. 2 ^ n - 1
    PROVE  Bit(x, k) = 0 /\ x \in 0 .. 2 ^ k - 1
  <1>0. WordBits \in Nat
    BY ShortConstants
  <1>1. PICK p \in Nat \ {0}, s \in Nat \ {0} : p = 2 ^ n /\ s = 2 ^ (k - n)
    <2>1. n \in 0 .. WordBits /\ k - n \in 0 .. WordBits
      BY <1>0
    <2> QED BY <2>1, PowersArePositive
  <1>2. 2 ^ k = p * s
    <2>1. k - n \in Nat /\ n + (k - n) = k /\ k <= WordBits
      BY <1>0
    <2> QED BY <1>1, <2>1, PowerOfSum
  <1>3. PICK c \in 0 .. p - 1, z \in Nat : c = x /\ z = 0
    BY <1>1
  <1>4. z * p + c = x
    BY <1>3
  <1>5. (z * p + c) \div (p * s) = z \div s
    BY UpperDigits
  <1>6. z \div s = 0
    BY <1>3
  <1>7. Bit(x, k) = 0
    BY <1>2, <1>4, <1>5, <1>6 DEF Bit
  <1>8. p <= p * s /\ p * s \in Int
    OBVIOUS
  <1> QED BY <1>2, <1>3, <1>7, <1>8

\* The bits of a number that is cut in two: those below the cut
LEMMA BitsBelow ==
    ASSUME NEW n \in 0 .. WordBits, NEW k \in 0 .. n - 1, NEW q \in Nat, NEW b \in Nat
    PROVE  Bit(q * 2 ^ n + b, k) = Bit(b, k)
  <1>0. WordBits \in Nat
    BY ShortConstants
  <1>1. PICK p \in Nat \ {0}, s \in Nat \ {0} : p = 2 ^ k /\ s = 2 ^ (n - (k + 1))
    <2>1. k \in 0 .. WordBits /\ n - (k + 1) \in 0 .. WordBits
      BY <1>0
    <2> QED BY <2>1, PowersArePositive
  <1>2. 2 ^ n = (2 * p) * s
    <2>1. /\ k \in 0 .. WordBits /\ n - (k + 1) \in Nat /\ k + 1 \in Nat
          /\ (k + 1) + (n - (k + 1)) = n /\ n <= WordBits
      BY <1>0
    <2>2. 2 ^ (k + 1) = 2 * p
      BY <1>1, <2>1, ShortConstants
    <2> QED BY <1>1, <2>1, <2>2, PowerOfSum
  <1>3. PICK t \in Nat : t = q * s
    OBVIOUS
  <1>4. q * 2 ^ n = t * (2 * p)
    <2>1. q * ((2 * p) * s) = (q * s) * (2 * p)
      OBVIOUS
    <2> QED BY <1>2, <1>3, <2>1
  <1>5. ((t * (2 * p) + b) \div p) % 2 = (b \div p) % 2
    BY LowerDigits
  <1> QED BY <1>1, <1>4, <1>5 DEF Bit

\* and those above the cut.
LEMMA BitsAbove ==
    ASSUME NEW n \in 0 .. WordBits, NEW k \in 0 .. WordBits - n, NEW q \in Nat, NEW b \in 0 .. 2 ^ n - 1
    PROVE  Bit(q * 2 ^ n + b, n + k) = Bit(q, k)
  <1>0. WordBits \in Nat
    BY ShortConstants
  <1>1. PICK p \in Nat \ {0}, s \in Nat \ {0} : p = 2 ^ n /\ s = 2 ^ k
    <2>1. k \in 0 .. WordBits
      BY <1>0
    <2> QED BY <2>1, PowersArePositive
  <1>2. 2 ^ (n + k) = p * s
    <2>1. n \in Nat /\ k \in Nat /\ n + k <= WordBits
      BY <1>0
    <2> QED BY <1>1, <2>1, PowerOfSum
  <1>3. PICK c \in 0 .. p - 1 : c = b
    BY <1>1
  <1>4. (q * p + c) \div (p * s) = q \div s
    BY UpperDigits
  <1> QED BY <1>1, <1>2, <1>3, <1>4 DEF Bit

\* The bits of a remainder and of a quotient.
LEMMA BitsOfParts ==
    ASSUME NEW n \in 0 .. WordBits, NEW x \in Nat
    PROVE  /\ x % 2 ^ n \in 0 .. 2 ^ n - 1 /\ x \div 2 ^ n \in Nat
           /\ x = (x \div 2 ^ n) * 2 ^ n + (x % 2 ^ n)
           /\ \A k \in 0 .. n - 1 : Bit(x % 2 ^ n, k) = Bit(x, k)
           /\ \A k \in 0 .. WordBits - n : Bit(x \div 2 ^ n, k) = Bit(x, n + k)
  <1>1. PICK p \in Nat \ {0} : p = 2 ^ n
    BY PowersArePositive
  <1>2. PICK q \in Int, r \in 0 .. p - 1 : q = x \div p /\ r = x % p /\ x = q * p + r
    BY Division
  <1>3. q \in Nat
    <2>1. ASSUME q < 0
          PROVE  FALSE
      <3>1. q * p <= (-1) * p
        BY <2>1
      <3> QED BY <1>2, <3>1
    <2> QED BY <2>1
  <1>4. \A k \in 0 .. n - 1 : Bit(q * 2 ^ n + r, k) = Bit(r, k)
    <2>1. r \in Nat
      OBVIOUS
    <2> QED BY <1>3, <2>1, BitsBelow
  <1>5. \A k \in 0 .. WordBits - n : Bit(q * 2 ^ n + r, n + k) = Bit(q, k)
    <2>1. r \in 0 .. 2 ^ n - 1
      BY <1>1
    <2> QED BY <1>3, <2>1, BitsAbove
  <1> QED BY <1>1, <1>2, <1>3, <1>4, <1>5

\* Words with the same bits are the same.
LEMMA SameBits ==
    ASSUME NEW x \in Word, NEW y \in Word, \A k \in 0 .. WordBits - 1 : Bit(x, k) = Bit(y, k)
    PROVE  x = y
  <1> DEFINE S == {n \in Nat : n <= WordBits => x % 2 ^ n = y % 2 ^ n}
  <1>0. WordBits \in Nat /\ x \in Nat /\ y \in Nat
    BY ShortConstants DEF Word
  <1>1. 0 \in S
    <2>1. 2 ^ 0 = 1 /\ x % 1 = 0 /\ y % 1 = 0
      BY <1>0
    <2> QED BY <2>1
  <1>2. ASSUME NEW n \in Nat, n \in S
        PROVE  n + 1 \in S
    <2> SUFFICES ASSUME n + 1 <= WordBits
                 PROVE  x % 2 ^ (n + 1) = y % 2 ^ (n + 1)
      OBVIOUS
    <2>1. n \in 0 .. WordBits /\ n \in 0 .. WordBits - 1
      BY <1>0
    <2>2. PICK p \in Nat \ {0} : p = 2 ^ n
      BY <2>1, PowersArePositive
    <2>3. 2 ^ (n + 1) = 2 * p
      BY <2>1, <2>2, ShortConstants
    <2>4. /\ x % (2 * p) = (x % p) + p * ((x \div p) % 2)
          /\ y % (2 * p) = (y % p) + p * ((y \div p) % 2)
      BY <1>0, NextDigit
    <2>5. x % p = y % p
      BY <1>2, <2>1, <2>2
    <2>6. (x \div p) % 2 = (y \div p) % 2
      BY <2>1, <2>2 DEF Bit
    <2> QED BY <2>3, <2>4, <2>5, <2>6
  <1> HIDE DEF S
  <1>3. WordBits \in S
    BY <1>0, <1>1, <1>2, SetOfNaturals
  <1>4. x % Range64 = y % Range64
    BY <1>3 DEF S, Range64
  <1>5. PICK p \in Nat \ {0} : p = Range64
    BY <1>0, PowersArePositive DEF Range64
  <1>6. x \in 0 .. p - 1 /\ y \in 0 .. p - 1
    BY <1>5 DEF Word
  <1>7. x % p = x /\ y % p = y
    BY <1>6
  <1> QED BY <1>4, <1>5, <1>7

\* A word that is made bit by bit
LEMMA LowWords ==
    ASSUME NEW S
    PROVE  \E h : /\ h[0] = 0 /\ h[WordBits] = WordWith(S)
                  /\ \A n \in 1 .. WordBits :
                        h[n] = h[n - 1] + (IF n - 1 \in S THEN 2 ^ (n - 1) ELSE 0)
  <1> DEFINE Low(h, m1) == [n \in 0 .. m1 |->
                 IF n = 0 THEN 0 ELSE h[n - 1] + (IF n - 1 \in S THEN 2 ^ (n - 1) ELSE 0)]
             low == CHOOSE h : h = Low(h, WordBits)
             T == {m1 \in Nat : \E h : h = Low(h, m1)}
  <1>0. WordBits \in Nat \ {0}
    BY ShortConstants
  <1>1. WordWith(S) = low[WordBits]
    BY DEF WordWith
  <1>2. 0 \in T
    <2>1. PICK h : h = [n \in 0 .. 0 |-> 0]
      OBVIOUS
    <2>2. h = Low(h, 0)
      BY <2>1
    <2> HIDE DEF Low
    <2> QED BY <2>2
  <1>3. ASSUME NEW m1 \in Nat, m1 \in T
        PROVE  m1 + 1 \in T
    <2>1. PICK h : h = Low(h, m1)
      BY <1>3
    <2>2. PICK g : g = Low(h, m1 + 1)
      OBVIOUS
    <2>3. \A n \in 0 .. m1 : g[n] = h[n]
      BY <2>1, <2>2
    <2>4. \A n \in 0 .. m1 + 1 : n # 0 => n - 1 \in 0 .. m1
      OBVIOUS
    <2>5. g = Low(g, m1 + 1)
      BY <2>2, <2>3, <2>4
    <2> HIDE DEF Low
    <2> QED BY <2>5
  <1>4. WordBits \in T
    <2> HIDE DEF T
    <2> QED BY <1>0, <1>2, <1>3, SetOfNaturals
  <1>5. low = Low(low, WordBits)
    <2>1. \E h : h = Low(h, WordBits)
      BY <1>4
    <2> HIDE DEF Low
    <2> QED BY <2>1
  <1> HIDE DEF low
  <1>6. low[0] = 0
    BY <1>0, <1>5
  <1>7. \A n \in 1 .. WordBits : low[n] = low[n - 1] + (IF n - 1 \in S THEN 2 ^ (n - 1) ELSE 0)
    BY <1>0, <1>5
  <1> QED BY <1>1, <1>6, <1>7

\* has the bits it is made of,
LEMMA WordWithIs ==
    ASSUME NEW S
    PROVE  /\ WordWith(S) \in Word
           /\ \A k \in 0 .. WordBits - 1 : Bit(WordWith(S), k) = IF k \in S THEN 1 ELSE 0
  <1>0. WordBits \in Nat
    BY ShortConstants
  <1>1. PICK h : /\ h[0] = 0 /\ h[WordBits] = WordWith(S)
                 /\ \A n \in 1 .. WordBits :
                       h[n] = h[n - 1] + (IF n - 1 \in S THEN 2 ^ (n - 1) ELSE 0)
    BY LowWords
  <1> DEFINE Right(n) == /\ h[n] \in 0 .. 2 ^ n - 1
                         /\ \A k \in 0 .. n - 1 : Bit(h[n], k) = IF k \in S THEN 1 ELSE 0
             Q == {n \in Nat : n <= WordBits => Right(n)}
  <1>2. 0 \in Q
    <2>1. 2 ^ 0 = 1
      OBVIOUS
    <2> QED BY <1>1, <2>1
  <1>3. ASSUME NEW n \in Nat, n \in Q
        PROVE  n + 1 \in Q
    <2> SUFFICES ASSUME n + 1 <= WordBits
                 PROVE  Right(n + 1)
      OBVIOUS
    <2>1. n \in 0 .. WordBits /\ n + 1 \in 1 .. WordBits /\ (n + 1) - 1 = n
      BY <1>0
    <2>2. PICK p \in Nat \ {0} : p = 2 ^ n /\ 2 ^ (n + 1) = 2 * p
      BY <2>1, PowersArePositive, ShortConstants
    <2>3. Right(n)
      BY <1>3, <2>1
    <2>4. PICK v \in 0 .. p - 1 : v = h[n]
      BY <2>2, <2>3
    <2>5. \A k \in 0 .. n - 1 : Bit(v, k) = IF k \in S THEN 1 ELSE 0
      BY <2>3, <2>4
    <2>6. h[n + 1] = v + (IF n \in S THEN p ELSE 0)
      BY <1>1, <2>1, <2>2, <2>4
    <2>7. CASE n \notin S
      <3>1. h[n + 1] = v
        BY <2>6, <2>7
      <3>2. Bit(v, n) = 0
        <4>1. v \in 0 .. 2 ^ n - 1 /\ n \in n .. WordBits
          BY <2>1, <2>2
        <4> QED BY <4>1, NoBitsAbove
      <3>3. \A k \in 0 .. (n + 1) - 1 : Bit(v, k) = IF k \in S THEN 1 ELSE 0
        BY <2>5, <2>7, <3>2
      <3>4. v \in 0 .. 2 * p - 1
        OBVIOUS
      <3> QED BY <2>2, <3>1, <3>3, <3>4
    <2>8. CASE n \in S
      <3>1. h[n + 1] = p + v
        BY <2>6, <2>8
      <3>2. p + v \in 0 .. 2 * p - 1 /\ p + v = 1 * 2 ^ n + v /\ v \in Nat /\ 1 \in Nat
        BY <2>2
      <3>3. Bit(p + v, n) = 1
        <4>1. (1 * p + v) \div p = 1
          BY DivisionIsUnique
        <4> QED BY <2>2, <3>2, <4>1 DEF Bit
      <3>4. ASSUME NEW k \in 0 .. n - 1
            PROVE  Bit(p + v, k) = Bit(v, k)
        <4>1. Bit(1 * 2 ^ n + v, k) = Bit(v, k)
          BY <2>1, <3>2, BitsBelow
        <4> QED BY <3>2, <4>1
      <3>5. \A k \in 0 .. (n + 1) - 1 : Bit(p + v, k) = IF k \in S THEN 1 ELSE 0
        <4> SUFFICES ASSUME NEW k \in 0 .. (n + 1) - 1
                     PROVE  Bit(p + v, k) = IF k \in S THEN 1 ELSE 0
          OBVIOUS
        <4>1. CASE k = n
          BY <2>8, <3>3, <4>1
        <4>2. CASE k # n
          <5>1. k \in 0 .. n - 1
            BY <4>2
          <5> QED BY <2>5, <3>4, <5>1
        <4> QED BY <4>1, <4>2
      <3> QED BY <2>2, <3>1, <3>2, <3>5
    <2> QED BY <2>7, <2>8
  <1>4. WordBits \in Q
    <2> HIDE DEF Q
    <2> QED BY <1>0, <1>2, <1>3, SetOfNaturals
  <1> QED BY <1>0, <1>1, <1>4 DEF Word, Range64

\* and an exclusive or those that differ.
LEMMA XorBits ==
    ASSUME NEW x \in Nat, NEW y \in Nat
    PROVE  /\ x ^^ y \in Word
           /\ \A k \in 0 .. WordBits - 1 : Bit(x ^^ y, k) = (Bit(x, k) + Bit(y, k)) % 2
  <1> DEFINE S == {k \in 0 .. WordBits - 1 : Bit(x, k) # Bit(y, k)}
  <1>1. x ^^ y = WordWith(S)
    BY DEF ^^
  <1>3. /\ WordWith(S) \in Word
        /\ \A k \in 0 .. WordBits - 1 : Bit(WordWith(S), k) = IF k \in S THEN 1 ELSE 0
    <2> HIDE DEF S
    <2> QED BY WordWithIs
  <1> SUFFICES ASSUME NEW k \in 0 .. WordBits - 1
               PROVE  Bit(x ^^ y, k) = (Bit(x, k) + Bit(y, k)) % 2
    BY <1>1, <1>3
  <1>4. Bit(x ^^ y, k) = IF Bit(x, k) # Bit(y, k) THEN 1 ELSE 0
    BY <1>1, <1>3
  <1>5. k \in 0 .. WordBits
    BY ShortConstants
  <1>6. Bit(x, k) \in {0, 1} /\ Bit(y, k) \in {0, 1}
    BY <1>5, Bits
  <1> QED BY <1>4, <1>6

-----------------------------------------------------------------------------
(* Rotations, and the finalizer. *)

\* Where bit j goes, and the bit that goes to bit k.
Goes(j, count) == (j + count) % WordBits
Turned(k, count) == (k - count) % WordBits

\* Each is the inverse of the other.
LEMMA TurnIs ==
    ASSUME NEW j \in 0 .. WordBits - 1, NEW k \in 0 .. WordBits - 1, NEW c \in Int
    PROVE  Goes(j, c) = k <=> j = Turned(k, c)
  <1>p. PICK p \in Nat \ {0} : p = WordBits
    BY ShortConstants
  <1>0. PICK d \in Int : d = -c
    OBVIOUS
  <1>1. Same(c, c, p) /\ Same(d, d, p)
    BY SameRefl
  <1>2. ASSUME (j + c) % p = k
        PROVE  j = (k - c) % p
    <2>1. PICK e \in Int : e = j + c
      OBVIOUS
    <2>2. Same(k, e, p)
      BY <1>2, <2>1, SameAsResidue
    <2>3. Same(k + d, e + d, p)
      BY <1>1, <2>2, SameSum
    <2>4. PICK g \in Int : g = k + d /\ g = k - c /\ e + d = j
      BY <1>0, <2>1
    <2>5. Same(g, j, p)
      BY <2>3, <2>4
    <2> QED BY <1>p, <2>4, <2>5, ResidueIs
  <1>3. ASSUME j = (k - c) % p
        PROVE  (j + c) % p = k
    <2>1. PICK e \in Int : e = k - c
      OBVIOUS
    <2>2. Same(j, e, p)
      BY <1>3, <2>1, SameAsResidue
    <2>3. Same(j + c, e + c, p)
      BY <1>1, <2>2, SameSum
    <2>4. PICK g \in Int : g = j + c /\ e + c = k
      BY <2>1
    <2>5. Same(g, k, p)
      BY <2>3, <2>4
    <2> QED BY <1>p, <2>4, <2>5, ResidueIs
  <1> QED BY <1>p, <1>2, <1>3 DEF Goes, Turned

\* It is a bit of the word.
LEMMA TurnedIn == ASSUME NEW k \in Int, NEW c \in Int PROVE Turned(k, c) \in 0 .. WordBits - 1
  <1>1. PICK p \in Nat \ {0}, e \in Int : p = WordBits /\ e = k - c
    BY ShortConstants
  <1>2. e % p \in 0 .. p - 1
    BY Division
  <1> QED BY <1>1, <1>2 DEF Turned

\* Turning twice is turning by the sum.
LEMMA TurnedTwice ==
    ASSUME NEW k \in Int, NEW a \in Int, NEW b \in Int, NEW c \in Int, Same(a + b, c, WordBits)
    PROVE  Turned(Turned(k, a), b) = Turned(k, c)
  <1>1. PICK p \in Nat \ {0}, e \in Int, d \in Int, n \in Int :
            p = WordBits /\ e = k - a /\ d = -b /\ n = -1
    BY ShortConstants
  <1>2. PICK r \in 0 .. p - 1 : r = e % p /\ Same(r, e, p)
    BY SameAsResidue
  <1>3. Same(r + d, e + d, p)
    <2>1. r \in Int /\ p \in Int /\ Same(r, e, p) /\ Same(d, d, p)
      BY <1>2, SameRefl
    <2> QED BY <2>1, SameSum
  <1>4. Same(k, k, p) /\ Same(n, n, p) /\ Same(a + b, c, p)
    BY <1>1, SameRefl
  <1>5. PICK s \in Int : s = a + b
    OBVIOUS
  <1>6. Same(s * n, c * n, p)
    BY <1>4, <1>5, SameProduct
  <1>7. PICK s1 \in Int, c1 \in Int : s1 = s * n /\ c1 = c * n /\ s1 = -s /\ c1 = -c
    BY <1>1
  <1>8. Same(k + s1, k + c1, p)
    BY <1>4, <1>6, <1>7, SameSum
  <1>9. PICK u \in Int, v \in Int, t \in Int :
            u = r + d /\ v = e + d /\ t = k + c1 /\ u = r - b /\ v = k + s1 /\ t = k - c
    BY <1>1, <1>5, <1>7
  <1>10. Same(u, v, p) /\ Same(v, t, p)
    BY <1>3, <1>8, <1>9
  <1>11. Same(u, t, p)
    BY <1>10, SameTrans
  <1>12. u % p = t % p
    BY <1>11, SameResidues
  <1> QED BY <1>1, <1>2, <1>9, <1>12 DEF Turned

\* The bits of the reference's rotation,
LEMMA RotlBits ==
    ASSUME NEW x \in Nat, NEW c \in Int
    PROVE  /\ rotl(x, c) \in Word
           /\ \A k \in 0 .. WordBits - 1 : Bit(rotl(x, c), k) = Bit(x, Turned(k, c))
  <1> DEFINE ones == {j \in 0 .. WordBits - 1 : Bit(x, j) = 1}
             S == {(k + c) % WordBits : k \in ones}
  <1>1. rotl(x, c) = WordWith(S)
    BY DEF rotl
  <1>2. /\ WordWith(S) \in Word
        /\ \A k \in 0 .. WordBits - 1 : Bit(WordWith(S), k) = IF k \in S THEN 1 ELSE 0
    <2> HIDE DEF S
    <2> QED BY WordWithIs
  <1>3. ASSUME NEW k \in 0 .. WordBits - 1
        PROVE  Bit(WordWith(S), k) = Bit(x, Turned(k, c))
    <2>1. PICK t \in 0 .. WordBits - 1 : t = Turned(k, c)
      <3>1. k \in Int
        BY ShortConstants
      <3> QED BY <3>1, TurnedIn
    <2>2. k \in S <=> t \in ones
      <3>1. \A j \in 0 .. WordBits - 1 : Goes(j, c) = k <=> j = t
        BY <2>1, TurnIs
      <3>2. k \in S <=> \E j \in ones : Goes(j, c) = k
        BY DEF Goes
      <3> QED BY <3>1, <3>2
    <2>3. Bit(x, t) \in {0, 1}
      <3>1. t \in 0 .. WordBits
        BY ShortConstants
      <3> QED BY <3>1, Bits
    <2> QED BY <1>2, <2>1, <2>2, <2>3
  <1> QED BY <1>1, <1>2, <1>3

\* which are those of the code's, a shift to either side.
LEMMA Rotl64Is ==
    ASSUME NEW x \in Word, NEW r \in 0 .. WordBits
    PROVE  rotl64(x, r) = rotl(x, r)
  <1>0. WordBits \in Nat /\ x \in Nat
    BY ShortConstants DEF Word
  <1>1. PICK t \in 0 .. WordBits : t = WordBits - r /\ r + t = WordBits
    BY <1>0
  <1>2. PICK p \in Nat \ {0}, s \in Nat \ {0} : p = 2 ^ r /\ s = 2 ^ t
    BY PowersArePositive
  <1>3. Range64 = p * s
    <2>1. r \in Nat /\ t \in Nat /\ r + t <= WordBits
      BY <1>0, <1>1
    <2> QED BY <1>1, <1>2, <2>1, PowerOfSum DEF Range64
  <1>4. PICK h \in Nat, l \in 0 .. s - 1 : h = x \div s /\ l = x % s /\ x = h * s + l
    BY <1>0, <1>2, BitsOfParts
  <1>5. h < p
    <2>1. ASSUME h >= p
          PROVE  FALSE
      <3>1. h * s >= p * s
        BY <2>1
      <3> QED BY <1>3, <1>4, <3>1 DEF Word
    <2> QED BY <2>1
  <1>6. l * p + h \in 0 .. p * s - 1 /\ l * p \in 0 .. p * s - 1 /\ p * s \in Nat \ {0}
    <2>1. l * p <= (s - 1) * p /\ (s - 1) * p = p * s - p
      OBVIOUS
    <2>2. l * p >= 0 /\ l * p \in Int /\ p * s \in Int
      OBVIOUS
    <2> QED BY <1>5, <2>1, <2>2
  <1>7. rotl64(x, r) = l * p + h
    <2>1. PICK q \in Nat \ {0}, u \in Int : q = p * s /\ u = l * p /\ u \in 0 .. q - 1
      BY <1>6
    <2>2. x * p = h * q + u
      <3>1. (h * s + l) * p = h * (p * s) + l * p
        OBVIOUS
      <3> QED BY <1>4, <2>1, <3>1
    <2>3. (h * q + u) % q = u
      <3>1. PICK v \in 0 .. q - 1, g \in Int : v = u /\ g = h
        BY <2>1
      <3>2. (g * q + v) % q = v
        BY DivisionIsUnique
      <3> QED BY <3>1, <3>2
    <2>4. Wrapped(x * 2 ^ r) = u
      BY <1>2, <1>3, <2>1, <2>2, <2>3 DEF Wrapped
    <2> QED BY <1>1, <1>2, <1>4, <2>1, <2>4 DEF rotl64, ShiftRight
  <1>8. PICK y \in Word : y = l * p + h
    BY <1>3, <1>6 DEF Word
  <1>9. ASSUME NEW k \in 0 .. WordBits - 1
        PROVE  Bit(y, k) = Bit(x, Turned(k, r))
    <2>0. PICK w \in Nat \ {0} : w = WordBits
      BY ShortConstants
    <2>a. h \in 0 .. 2 ^ r - 1 /\ l \in Nat
      BY <1>2, <1>5
    <2>1. CASE k < r
      <3>1. k \in 0 .. r - 1
        BY <2>1
      <3>2. Bit(l * 2 ^ r + h, k) = Bit(h, k)
        BY <2>a, <3>1, BitsBelow
      <3>3. k \in 0 .. WordBits - t
        BY <1>1, <3>1
      <3>4. Bit(h, k) = Bit(x, t + k)
        BY <1>0, <1>2, <1>4, <3>3, BitsOfParts
      <3>5. Turned(k, r) = t + k
        <4>1. t + k \in 0 .. w - 1 /\ (-1) \in Int /\ k - r = (-1) * w + (t + k)
          BY <1>1, <2>0, <3>1
        <4>2. ((-1) * w + (t + k)) % w = t + k
          BY <4>1, DivisionIsUnique
        <4> QED BY <2>0, <4>1, <4>2 DEF Turned
      <3> QED BY <1>2, <1>8, <3>2, <3>4, <3>5
    <2>2. CASE k >= r
      <3>1. PICK j \in 0 .. t - 1 : j = k - r /\ k = r + j
        BY <1>1, <2>2
      <3>2. j \in 0 .. WordBits - r
        BY <1>1, <3>1
      <3>3. Bit(l * 2 ^ r + h, r + j) = Bit(l, j)
        BY <2>a, <3>2, BitsAbove
      <3>4. Bit(l, j) = Bit(x, j)
        BY <1>0, <1>2, <1>4, <3>1, BitsOfParts
      <3>5. Turned(k, r) = j
        <4>1. j \in 0 .. w - 1 /\ 0 \in Int /\ k - r = 0 * w + j
          BY <1>1, <2>0, <3>1
        <4>2. (0 * w + j) % w = j
          BY <4>1, DivisionIsUnique
        <4> QED BY <2>0, <4>1, <4>2 DEF Turned
      <3> QED BY <1>2, <1>8, <3>1, <3>3, <3>4, <3>5
    <2> QED BY <2>1, <2>2
  <1>10. rotl(x, r) \in Word /\ \A k \in 0 .. WordBits - 1 : Bit(rotl(x, r), k) = Bit(x, Turned(k, r))
    BY <1>0, RotlBits
  <1>11. y = rotl(x, r)
    BY <1>9, <1>10, SameBits
  <1> QED BY <1>7, <1>8, <1>11

\* A word and two of its rotations.
XorRot2(x, a, b) == (x ^^ rotl(x, a)) ^^ rotl(x, b)

\* Its bits.
LEMMA XorRot2Bits ==
    ASSUME NEW x \in Word, NEW a \in Int, NEW b \in Int
    PROVE  /\ XorRot2(x, a, b) \in Word
           /\ \A k \in 0 .. WordBits - 1 :
                 Bit(XorRot2(x, a, b), k)
                     = (Bit(x, k) + Bit(x, Turned(k, a)) + Bit(x, Turned(k, b))) % 2
  <1>0. x \in Nat /\ Word \subseteq Nat
    BY DEF Word
  <1>1. PICK y \in Word, z \in Word : y = rotl(x, a) /\ z = rotl(x, b)
    BY <1>0, RotlBits
  <1>2. PICK v \in Word : v = x ^^ y
    BY <1>0, XorBits
  <1>3. v ^^ z \in Word
    BY <1>0, XorBits
  <1>4. XorRot2(x, a, b) = v ^^ z
    BY <1>1, <1>2 DEF XorRot2
  <1>5. ASSUME NEW k \in 0 .. WordBits - 1
        PROVE  Bit(v ^^ z, k) = (Bit(x, k) + Bit(x, Turned(k, a)) + Bit(x, Turned(k, b))) % 2
    <2>1. Bit(v ^^ z, k) = (Bit(v, k) + Bit(z, k)) % 2
      BY <1>0, XorBits
    <2>2. Bit(v, k) = (Bit(x, k) + Bit(y, k)) % 2
      BY <1>0, <1>2, XorBits
    <2>3. Bit(y, k) = Bit(x, Turned(k, a)) /\ Bit(z, k) = Bit(x, Turned(k, b))
      BY <1>0, <1>1, RotlBits
    <2>4. Turned(k, a) \in 0 .. WordBits - 1 /\ Turned(k, b) \in 0 .. WordBits - 1
      <3>1. k \in Int
        BY ShortConstants
      <3> QED BY <3>1, TurnedIn
    <2>5. Bit(x, k) \in {0, 1} /\ Bit(x, Turned(k, a)) \in {0, 1} /\ Bit(x, Turned(k, b)) \in {0, 1}
      <3>1. \A n \in 0 .. WordBits - 1 : n \in 0 .. WordBits
        BY ShortConstants
      <3> QED BY <1>0, <2>4, <3>1, Bits
    <2> QED BY <2>1, <2>2, <2>3, <2>5
  <1> QED BY <1>3, <1>4, <1>5

\* Twice the same is the word with rotations twice as far.
LEMMA XorRot2Twice ==
    ASSUME NEW x \in Word, NEW a \in Int, NEW b \in Int, NEW c \in Int, NEW d \in Int,
           Same(a + a, c, WordBits), Same(b + b, d, WordBits)
    PROVE  XorRot2(XorRot2(x, a, b), a, b) = XorRot2(x, c, d)
  <1> DEFINE y == XorRot2(x, a, b)
             z == XorRot2(y, a, b)
             t == XorRot2(x, c, d)
  <1>0. WordBits \in Nat /\ x \in Nat
    BY ShortConstants DEF Word
  <1>1. y \in Word /\ t \in Word
    BY XorRot2Bits
  <1>2. z \in Word
    <2> HIDE DEF y
    <2> QED BY <1>1, XorRot2Bits
  <1>3. \A k \in 0 .. WordBits - 1 :
           Bit(y, k) = (Bit(x, k) + Bit(x, Turned(k, a)) + Bit(x, Turned(k, b))) % 2
    BY XorRot2Bits
  <1>4. \A k \in 0 .. WordBits - 1 :
           Bit(t, k) = (Bit(x, k) + Bit(x, Turned(k, c)) + Bit(x, Turned(k, d))) % 2
    BY XorRot2Bits
  <1>5. \A k \in 0 .. WordBits - 1 :
           Bit(z, k) = (Bit(y, k) + Bit(y, Turned(k, a)) + Bit(y, Turned(k, b))) % 2
    <2> HIDE DEF y
    <2> QED BY <1>1, XorRot2Bits
  <1>6. \A k \in 0 .. WordBits - 1 : Bit(x, k) \in {0, 1}
    <2>1. \A n \in 0 .. WordBits - 1 : n \in 0 .. WordBits
      BY ShortConstants
    <2> QED BY <1>0, <2>1, Bits
  <1> HIDE DEF y, z, t
  <1>7. ASSUME NEW k \in 0 .. WordBits - 1
        PROVE  Bit(z, k) = Bit(t, k)
    <2>1. PICK ka \in 0 .. WordBits - 1, kb \in 0 .. WordBits - 1 :
              ka = Turned(k, a) /\ kb = Turned(k, b)
      <3>1. k \in Int
        BY <1>0
      <3> QED BY <3>1, TurnedIn
    <2>2. PICK kc \in 0 .. WordBits - 1, kd \in 0 .. WordBits - 1, ke \in 0 .. WordBits - 1 :
              kc = Turned(k, c) /\ kd = Turned(k, d) /\ ke = Turned(ka, b)
      <3>1. k \in Int /\ ka \in Int
        BY <1>0
      <3> QED BY <3>1, TurnedIn
    <2>3. k \in Int /\ ka \in Int /\ kb \in Int
      BY <1>0
    <2>4. Turned(ka, a) = kc
      BY <2>1, <2>2, <2>3, TurnedTwice
    <2>5. Turned(kb, b) = kd
      BY <2>1, <2>2, <2>3, TurnedTwice
    <2>6. Turned(kb, a) = ke
      <3>1. PICK e \in Int : e = a + b /\ e = b + a
        OBVIOUS
      <3>2. Same(a + b, e, WordBits) /\ Same(b + a, e, WordBits)
        BY <1>0, <3>1, SameRefl
      <3>3. Turned(ka, b) = Turned(k, e)
        BY <2>1, <2>3, <3>2, TurnedTwice
      <3>4. Turned(kb, a) = Turned(k, e)
        BY <2>1, <2>3, <3>2, TurnedTwice
      <3> QED BY <2>2, <3>3, <3>4
    <2>7. /\ Bit(y, k) = (Bit(x, k) + Bit(x, ka) + Bit(x, kb)) % 2
          /\ Bit(y, ka) = (Bit(x, ka) + Bit(x, kc) + Bit(x, ke)) % 2
          /\ Bit(y, kb) = (Bit(x, kb) + Bit(x, ke) + Bit(x, kd)) % 2
      BY <1>3, <2>1, <2>2, <2>4, <2>5, <2>6
    <2>8. Bit(z, k) = (Bit(y, k) + Bit(y, ka) + Bit(y, kb)) % 2
      BY <1>5, <2>1
    <2>9. Bit(t, k) = (Bit(x, k) + Bit(x, kc) + Bit(x, kd)) % 2
      BY <1>4, <2>2
    <2>10. PICK v0 \in {0, 1}, va \in {0, 1}, vb \in {0, 1}, vc \in {0, 1}, vd \in {0, 1}, ve \in {0, 1} :
               /\ v0 = Bit(x, k) /\ va = Bit(x, ka) /\ vb = Bit(x, kb)
               /\ vc = Bit(x, kc) /\ vd = Bit(x, kd) /\ ve = Bit(x, ke)
      BY <1>6
    <2>11. (((v0 + va + vb) % 2) + ((va + vc + ve) % 2) + ((vb + ve + vd) % 2)) % 2
               = (v0 + vc + vd) % 2
      OBVIOUS
    <2> QED BY <2>7, <2>8, <2>9, <2>10, <2>11
  <1>8. z = t
    BY <1>1, <1>2, <1>7, SameBits
  <1> QED BY <1>8 DEF z, t, y

\* Rotations modulo the width are the same.
LEMMA XorRot2Same ==
    ASSUME NEW x \in Word, NEW a \in Int, NEW b \in Int, NEW c \in Int, NEW d \in Int,
           Same(a, c, WordBits), Same(b, d, WordBits)
    PROVE  XorRot2(x, a, b) = XorRot2(x, c, d)
  <1> DEFINE y == XorRot2(x, a, b)
             t == XorRot2(x, c, d)
  <1>1. y \in Word /\ t \in Word
    BY XorRot2Bits
  <1>2. \A k \in 0 .. WordBits - 1 :
           Bit(y, k) = (Bit(x, k) + Bit(x, Turned(k, a)) + Bit(x, Turned(k, b))) % 2
    BY XorRot2Bits
  <1>3. \A k \in 0 .. WordBits - 1 :
           Bit(t, k) = (Bit(x, k) + Bit(x, Turned(k, c)) + Bit(x, Turned(k, d))) % 2
    BY XorRot2Bits
  <1> HIDE DEF y, t
  <1>4. ASSUME NEW k \in 0 .. WordBits - 1, NEW r \in Int, NEW s \in Int, Same(r, s, WordBits)
        PROVE  Turned(k, r) = Turned(k, s)
    <2>1. PICK p \in Nat \ {0} : p = WordBits
      BY ShortConstants
    <2>2. PICK u \in Int, v \in Int : u = k - r /\ v = k - s
      BY <2>1
    <2>3. PICK n \in Int : r = s + n * p
      BY <2>1, <1>4 DEF Same
    <2>4. PICK l \in Int : l = -n
      OBVIOUS
    <2>5. u = v + l * p
      BY <2>1, <2>2, <2>3, <2>4
    <2>6. Same(u, v, p)
      BY <2>5 DEF Same
    <2>7. u % p = v % p
      BY <2>6, SameResidues
    <2> QED BY <2>1, <2>2, <2>7 DEF Turned
  <1>5. \A k \in 0 .. WordBits - 1 : Bit(y, k) = Bit(t, k)
    BY <1>2, <1>3, <1>4
  <1>6. y = t
    BY <1>1, <1>5, SameBits
  <1> QED BY <1>6 DEF y, t

\* The code's finalizer is the reference's.
LEMMA FinalizeIs ==
    ASSUME NEW x \in Word
    PROVE  /\ finalize(x) = XorRot2(x, Rotations[1], Rotations[2])
           /\ ReferenceFinalize(x) = XorRot2(x, Rotations[1], Rotations[2])
  <1>1. \A j \in 1 .. 2 : Rotations[j] \in 0 .. WordBits
    BY ShortConstants DEF ShortAssumption
  <1>2. \A j \in 1 .. 2 : rotl64(x, Rotations[j]) = rotl(x, Rotations[j])
    BY <1>1, Rotl64Is
  <1> QED BY <1>2 DEF finalize, ReferenceFinalize, XorRot2

\* The inverse in the tests finds the accumulator again: after each step it has
\* the accumulator and rotations of it by 2^n times as much, which is a multiple
\* of the width in the end.
LEMMA InverseIs ==
    ASSUME NEW x \in Word
    PROVE  xor_rot2_inv(finalize(x)) = x
  <1> DEFINE Far(n, j) == (2 ^ n * Rotations[j]) % WordBits
             squares == CHOOSE n \in 0 .. WordBits : 2 ^ n = WordBits
             y == finalize(x)
  <1>0. PICK w \in Nat \ {0} : w = WordBits
    BY ShortConstants
  <1>1. squares \in 0 .. WordBits /\ 2 ^ squares = WordBits
    BY ShortConstants DEF ShortAssumption
  <1> HIDE DEF squares
  <1>2. PICK r1 \in Int, r2 \in Int : r1 = Rotations[1] /\ r2 = Rotations[2]
    BY ShortConstants DEF ShortAssumption
  <1> DEFINE g == [n \in 0 .. squares |-> XorRot2(x, Far(n, 1), Far(n, 2))]
  <1>3. \A n \in 0 .. squares : \A j \in 1 .. 2 :
           Far(n, j) \in Int /\ Same(2 ^ n * Rotations[j], Far(n, j), WordBits)
    <2> SUFFICES ASSUME NEW n \in 0 .. squares, NEW j \in 1 .. 2
                 PROVE  Far(n, j) \in Int /\ Same(2 ^ n * Rotations[j], Far(n, j), WordBits)
      OBVIOUS
    <2>1. PICK q \in Int, r \in Int : q = 2 ^ n /\ r = Rotations[j]
      <3>1. n \in 0 .. WordBits
        BY <1>1
      <3> QED BY <1>2, <3>1, PowersArePositive
    <2>2. PICK e \in Int : e = q * r
      OBVIOUS
    <2>3. e % w \in 0 .. w - 1 /\ Same(e, e % w, w)
      BY SameAsResidue
    <2> QED BY <1>0, <2>1, <2>2, <2>3
  <1>4. g[0] = y
    <2>0. PICK o \in 0 .. squares : o = 0 /\ 2 ^ o = 1
      <3>1. 0 \in 0 .. squares /\ 2 ^ 0 = 1
        BY <1>0, <1>1
      <3> QED BY <3>1
    <2>1. /\ Same(2 ^ o * Rotations[1], Far(o, 1), WordBits) /\ Far(o, 1) \in Int
          /\ Same(2 ^ o * Rotations[2], Far(o, 2), WordBits) /\ Far(o, 2) \in Int
      BY <1>3
    <2>2. 2 ^ o * Rotations[1] = r1 /\ 2 ^ o * Rotations[2] = r2
      BY <1>2, <2>0
    <2>3. XorRot2(x, r1, r2) = XorRot2(x, Far(o, 1), Far(o, 2))
      <3> HIDE DEF Far
      <3> QED BY <2>1, <2>2, XorRot2Same
    <2>4. g[o] = XorRot2(x, Far(o, 1), Far(o, 2))
      OBVIOUS
    <2>5. y = XorRot2(x, r1, r2)
      BY <1>2, FinalizeIs
    <2> QED BY <2>0, <2>3, <2>4, <2>5
  <1>5. ASSUME NEW n \in 0 .. squares, n # 0
        PROVE  g[n] = XorRot2(g[n - 1], Far(n - 1, 1), Far(n - 1, 2))
    <2>1. PICK o \in 0 .. squares : o = n - 1 /\ n = o + 1 /\ o \in 0 .. WordBits
      BY <1>1, <1>5
    <2>2. 2 ^ n = 2 * 2 ^ o
      BY <2>1, ShortConstants
    <2>3. ASSUME NEW j \in 1 .. 2
          PROVE  Same(Far(o, j) + Far(o, j), Far(n, j), WordBits)
      <3>1. PICK q \in Int, r \in Int : q = 2 ^ o /\ r = Rotations[j]
        BY <1>2, <2>1, PowersArePositive
      <3>2. PICK e \in Int, d \in Int : e = q * r /\ d = (2 * q) * r /\ d = e + e
        OBVIOUS
      <3>3. PICK a \in Int, b \in Int : a = Far(o, j) /\ b = Far(n, j)
        BY <1>3
      <3>4. Same(e, a, w) /\ Same(d, b, w)
        BY <1>0, <1>3, <2>2, <3>1, <3>2, <3>3
      <3>5. Same(a, e, w)
        BY <3>4, SameSym
      <3>6. Same(a + a, e + e, w)
        BY <3>5, SameSum
      <3>7. PICK c \in Int : c = a + a
        OBVIOUS
      <3>8. Same(c, d, w)
        BY <3>2, <3>6, <3>7
      <3>9. Same(c, b, w)
        BY <3>4, <3>8, SameTrans
      <3> QED BY <1>0, <3>3, <3>7, <3>9
    <2>4. /\ Far(o, 1) \in Int /\ Far(o, 2) \in Int /\ Far(n, 1) \in Int /\ Far(n, 2) \in Int
          /\ Same(Far(o, 1) + Far(o, 1), Far(n, 1), WordBits)
          /\ Same(Far(o, 2) + Far(o, 2), Far(n, 2), WordBits)
      BY <1>3, <2>1, <2>3
    <2>5. XorRot2(XorRot2(x, Far(o, 1), Far(o, 2)), Far(o, 1), Far(o, 2))
              = XorRot2(x, Far(n, 1), Far(n, 2))
      <3> HIDE DEF Far
      <3> QED BY <2>4, XorRot2Twice
    <2>6. g[n] = XorRot2(x, Far(n, 1), Far(n, 2)) /\ g[o] = XorRot2(x, Far(o, 1), Far(o, 2))
      BY <2>1
    <2> QED BY <2>1, <2>5, <2>6
  <1>6. g[squares] = x
    <2>1. ASSUME NEW j \in 1 .. 2
          PROVE  Same(Far(squares, j), 0, WordBits)
      <3>1. PICK r \in Int : r = Rotations[j]
        BY <1>2
      <3>2. PICK e \in Int : e = w * r /\ e = r * w + 0
        OBVIOUS
      <3>3. e % w = 0
        BY <3>2, DivisionIsUnique
      <3>4. Far(squares, j) = 0
        BY <1>0, <1>1, <3>1, <3>2, <3>3
      <3> QED BY <1>0, <3>4, SameRefl
    <2>2. Far(squares, 1) \in Int /\ Far(squares, 2) \in Int /\ 0 \in Int
      BY <1>1, <1>3
    <2>3. XorRot2(x, Far(squares, 1), Far(squares, 2)) = XorRot2(x, 0, 0)
      <3> HIDE DEF Far
      <3> QED BY <2>1, <2>2, XorRot2Same
    <2>4. XorRot2(x, 0, 0) = x
      <3>1. XorRot2(x, 0, 0) \in Word
        BY XorRot2Bits
      <3>2. ASSUME NEW k \in 0 .. WordBits - 1
            PROVE  Bit(XorRot2(x, 0, 0), k) = Bit(x, k)
        <4>1. Turned(k, 0) = k
          <5>1. PICK b \in 0 .. w - 1 : b = k
            BY <1>0
          <5>2. b - 0 = b /\ b % w = b
            OBVIOUS
          <5> QED BY <1>0, <5>1, <5>2 DEF Turned
        <4>2. Bit(XorRot2(x, 0, 0), k) = (Bit(x, k) + Bit(x, k) + Bit(x, k)) % 2
          <5>1. 0 \in Int
            OBVIOUS
          <5> QED BY <4>1, <5>1, XorRot2Bits
        <4>3. Bit(x, k) \in {0, 1}
          <5>1. x \in Nat /\ k \in 0 .. WordBits
            BY ShortConstants DEF Word
          <5> QED BY <5>1, Bits
        <4> QED BY <4>2, <4>3
      <3> QED BY <3>1, <3>2, SameBits
    <2> QED BY <1>1, <2>3, <2>4
  <1> DEFINE Unmix(h) == [n \in 0 .. squares |->
                 IF n = 0 THEN y
                 ELSE (h[n - 1] ^^ rotl(h[n - 1], Far(n - 1, 1))) ^^ rotl(h[n - 1], Far(n - 1, 2))]
             unmixed == CHOOSE h : h = Unmix(h)
  <1>7. xor_rot2_inv(y) = unmixed[squares]
    BY DEF xor_rot2_inv, squares
  <1>8. g = Unmix(g)
    <2>1. \A n \in 0 .. squares : g[n] = Unmix(g)[n]
      <3> SUFFICES ASSUME NEW n \in 0 .. squares
                   PROVE  g[n] = Unmix(g)[n]
        OBVIOUS
      <3> HIDE DEF g, Far, y
      <3>1. CASE n = 0
        BY <1>4, <3>1
      <3>2. CASE n # 0
        BY <1>5, <3>2 DEF XorRot2
      <3> QED BY <3>1, <3>2
    <2> HIDE DEF Far, y
    <2> QED BY <2>1
  <1>9. unmixed = Unmix(unmixed)
    <2> HIDE DEF g, Unmix
    <2> QED BY <1>8
  <1>10. unmixed[squares] = g[squares]
    <2> DEFINE S == {n \in Nat : n <= squares => unmixed[n] = g[n]}
    <2>1. squares \in Nat
      BY <1>0, <1>1
    <2> HIDE DEF unmixed, g, Far, y
    <2>2. 0 \in S
      <3>1. unmixed[0] = y
        BY <1>9, <2>1
      <3> QED BY <1>4, <3>1
    <2>3. ASSUME NEW n \in Nat, n \in S
          PROVE  n + 1 \in S
      <3> SUFFICES ASSUME n + 1 <= squares
                   PROVE  unmixed[n + 1] = g[n + 1]
        OBVIOUS
      <3>1. PICK o \in 0 .. squares : o = n + 1 /\ o # 0 /\ o - 1 = n /\ n <= squares
        BY <2>1
      <3>2. unmixed[n] = g[n]
        BY <2>3, <3>1
      <3>3. unmixed[o] = (unmixed[o - 1] ^^ rotl(unmixed[o - 1], Far(o - 1, 1)))
                             ^^ rotl(unmixed[o - 1], Far(o - 1, 2))
        BY <1>9, <3>1
      <3>4. g[o] = XorRot2(g[o - 1], Far(o - 1, 1), Far(o - 1, 2))
        BY <1>5, <3>1
      <3> QED BY <3>1, <3>2, <3>3, <3>4 DEF XorRot2
    <2> HIDE DEF S
    <2>4. squares \in S
      BY <2>1, <2>2, <2>3, SetOfNaturals
    <2> QED BY <2>4 DEF S
  <1> QED BY <1>6, <1>7, <1>10

-----------------------------------------------------------------------------
(* Short inputs. *)

\* The order does not matter to an exclusive or.
LEMMA XorCommutes == ASSUME NEW x, NEW y PROVE x ^^ y = y ^^ x
  <1>1. {k \in 0 .. WordBits - 1 : Bit(x, k) # Bit(y, k)}
          = {k \in 0 .. WordBits - 1 : Bit(y, k) # Bit(x, k)}
    OBVIOUS
  <1> QED BY <1>1 DEF ^^

\* The length of a buffer.
LEMMA Lengths ==
    ASSUME NEW n \in Nat, NEW buf, DOMAIN buf = 0 .. n - 1
    PROVE  Len(buf) = n
  <1>1. 0 \in Int /\ n - 1 \in Int
    OBVIOUS
  <1>2. Cardinality(0 .. n - 1) = n
    BY <1>1, FS_Interval
  <1> QED BY <1>2 DEF Len

\* Unpacking a slice loads the bytes of the slice.
LEMMA Slices ==
    ASSUME NEW n \in Nat, NEW buf \in Buffers(n), NEW count \in 0 .. n
    PROVE  /\ Unpack(First(buf, count)) = Load(buf, 0, count)
           /\ Unpack(Last(buf, count)) = LastBytes(buf, count)
  <1>1. Len(buf) = n
    BY Lengths DEF Buffers
  <1>2. Len(First(buf, count)) = count /\ Len(Last(buf, count)) = count
    BY Lengths DEF First, Last
  <1>3. /\ \A j \in 0 .. 3 : j < count => First(buf, count)[0 + j] = buf[0 + j]
        /\ \A j \in 0 .. 3 : j < count =>
              Last(buf, count)[0 + j] = buf[(Len(buf) - count) + j]
    BY <1>1 DEF First, Last
  <1> QED BY <1>2, <1>3 DEF Unpack, Load, LastBytes

\* Half a word is four bytes, and a word two halves.
LEMMA Halves ==
    /\ Range8 \in Nat \ {0, 1} /\ Range32 \in Nat \ {0}
    /\ Range32 = Range8 * (Range8 * (Range8 * Range8))
    /\ Range64 = Range32 * Range32
  <1>0. PICK b \in Nat \ {0} : b = ByteBits /\ WordBits = 8 * b
    BY ShortConstants DEF ShortAssumption
  <1>1. PICK r \in Nat \ {0} : r = 2 ^ b
    BY <1>0, PowersArePositive
  <1>2. r >= 2
    <2>1. PICK c \in 0 .. WordBits : c = b - 1 /\ b = c + 1
      BY <1>0
    <2>2. PICK q \in Nat \ {0} : q = 2 ^ c /\ 2 ^ b = 2 * q
      BY <1>0, <2>1, ShortConstants, PowersArePositive
    <2> QED BY <1>1, <2>2
  <1>3. 2 ^ (b + b) = r * r
    <2>1. b + b <= WordBits
      BY <1>0
    <2> QED BY <1>1, <2>1, PowerOfSum
  <1>4. PICK d \in Nat, s \in Nat : d = b + b /\ s = 2 ^ d /\ s = r * r
    BY <1>3
  <1>5. 2 ^ (d + d) = s * s
    <2>1. d + d <= WordBits
      BY <1>0, <1>4
    <2> QED BY <1>4, <2>1, PowerOfSum
  <1>6. PICK h \in Nat, t \in Nat : h = d + d /\ t = 2 ^ h /\ t = s * s
    BY <1>5
  <1>7. 2 ^ (h + h) = t * t
    <2>1. h + h <= WordBits
      BY <1>0, <1>4, <1>6
    <2> QED BY <1>6, <2>1, PowerOfSum
  <1>8. WordBits \div 2 = h /\ h + h = WordBits
    BY <1>0, <1>4, <1>6
  <1>9. t = r * (r * (r * r)) /\ t # 0
    <2>1. (r * r) * (r * r) = r * (r * (r * r))
      OBVIOUS
    <2>2. h \in 0 .. WordBits
      BY <1>8, ShortConstants
    <2> QED BY <1>4, <1>6, <2>1, <2>2, PowersArePositive
  <1> QED BY <1>0, <1>1, <1>2, <1>6, <1>7, <1>8, <1>9 DEF Range8, Range32, Range64

\* A load is a number, 0 when nothing is loaded.
LEMMA Loads ==
    ASSUME NEW n \in Nat, NEW buf \in Buffers(n), NEW start \in 0 .. n, NEW count \in 0 .. n - start
    PROVE  Load(buf, start, count) \in Int /\ (count = 0 => Load(buf, start, count) = 0)
  <1> DEFINE byte(j) == IF j < count THEN buf[start + j] ELSE 0
  <1>1. Range8 \in Nat
    BY Halves
  <1>2. /\ byte(0) \in Int /\ byte(1) \in Int /\ byte(2) \in Int /\ byte(3) \in Int
        /\ count = 0 => byte(0) = 0 /\ byte(1) = 0 /\ byte(2) = 0 /\ byte(3) = 0
    BY DEF Buffers
  <1>3. Load(buf, start, count)
          = byte(0) + Range8 * (byte(1) + Range8 * (byte(2) + Range8 * byte(3)))
    BY DEF Load
  <1> HIDE DEF byte
  <1>4. PICK r \in Int, b0 \in Int, b1 \in Int, b2 \in Int, b3 \in Int :
            /\ r = Range8 /\ b0 = byte(0) /\ b1 = byte(1) /\ b2 = byte(2) /\ b3 = byte(3)
            /\ count = 0 => b0 = 0 /\ b1 = 0 /\ b2 = 0 /\ b3 = 0
    BY <1>1, <1>2
  <1>5. b0 + r * (b1 + r * (b2 + r * b3)) \in Int
    OBVIOUS
  <1>6. count = 0 => b0 + r * (b1 + r * (b2 + r * b3)) = 0
    BY <1>4
  <1> QED BY <1>3, <1>4, <1>5, <1>6

\* vec_to_u64 is the reference's, whatever the size.
LEMMA VecIsReference ==
    ASSUME NEW n \in 0 .. WordSize, NEW buf \in Buffers(n)
    PROVE  vec_to_u64(buf) = ReferenceVec(buf)
  <1>1. n \in Nat /\ n <= 8 /\ Len(buf) = n
    BY Lengths DEF Buffers, WordSize
  <1>2. PICK c \in 0 .. n, d \in 0 .. n :
            /\ c = IF n >= 4 THEN 4 ELSE n % 2
            /\ d = IF n >= 4 THEN 4 ELSE 2 * (n \div 2)
    BY <1>1
  <1>3. PICK lo \in Int, hi \in Int : lo = Load(buf, 0, c) /\ hi = LastBytes(buf, d)
    <2>1. Load(buf, 0, c) \in Int
      BY <1>1, Loads
    <2>2. Load(buf, n - d, d) \in Int
      <3>1. n - d \in 0 .. n /\ d \in 0 .. n - (n - d)
        BY <1>1
      <3> QED BY <1>1, <3>1, Loads
    <2> QED BY <1>1, <2>1, <2>2 DEF LastBytes
  <1>4. lo = Unpack(First(buf, c)) /\ hi = Unpack(Last(buf, d))
    BY <1>1, <1>3, Slices
  <1>5. lo = IF n >= 4 THEN Load(buf, 0, 4) ELSE IF n % 2 = 1 THEN Load(buf, 0, 1) ELSE 0
    <2>1. c = 0 => lo = 0
      BY <1>1, <1>3, Loads
    <2>2. \/ n >= 4 /\ c = 4
          \/ n < 4 /\ n % 2 = 1 /\ c = 1
          \/ n < 4 /\ n % 2 # 1 /\ c = 0
      BY <1>1, <1>2
    <2> QED BY <1>1, <1>3, <2>1, <2>2
  <1>6. hi = IF n >= 4 THEN LastBytes(buf, 4) ELSE IF n >= 2 THEN LastBytes(buf, 2) ELSE 0
    <2>1. d = 0 => hi = 0
      <3>1. n \in 0 .. n /\ 0 \in 0 .. n - n
        BY <1>1
      <3>2. Load(buf, n, 0) = 0
        BY <1>1, <3>1, Loads
      <3> QED BY <1>1, <1>3, <3>2 DEF LastBytes
    <2>2. (n >= 4 /\ d = 4) \/ (n < 4 /\ n >= 2 /\ d = 2) \/ (n < 2 /\ d = 0)
      BY <1>1, <1>2
    <2> QED BY <1>1, <1>3, <2>1, <2>2
  <1>7. lo + hi = hi + lo
    OBVIOUS
  <1>8. vec_to_u64(buf) = (hi * Range32) + ((lo + hi) % Range32)
    BY <1>1, <1>5, <1>6, Zenon DEF vec_to_u64
  <1>9. ReferenceVec(buf) = (hi * Range32) + ((hi + lo) % Range32)
    BY <1>1, <1>2, <1>4, Zenon DEF ReferenceVec
  <1> QED BY <1>7, <1>8, <1>9

\* SplitMix64 on the same words gives the same hash.
LEMMA ShortHashes ==
    ASSUME NEW n \in 0 .. WordSize, NEW buf \in Buffers(n), NEW oh, NEW seed, NEW w \in 0 .. 1
    PROVE  LET hash == umash_fp_short(oh, seed, buf)[w]
           IN  /\ hash = Reference(oh, seed, buf, w = 1)
               /\ hash = umash_short(oh, w * OH_SHORT_HASH_SHIFT, seed, buf)
  <1>1. n \in 0 .. 8 /\ Len(buf) = n
    BY Lengths DEF Buffers, WordSize
  <1>2. PICK first, noise, h :
            /\ first \in {0, 4} /\ first = w * OH_SHORT_HASH_SHIFT
            /\ first = IF w = 1 THEN SHORT_KEY_SHIFT ELSE 0
            /\ noise = Wrapped(seed + oh[first + n])
            /\ h = Premix(vec_to_u64(buf))
    BY DEF OH_SHORT_HASH_SHIFT, SHORT_KEY_SHIFT
  <1>3. h ^^ noise = noise ^^ h
    BY XorCommutes
  <1>4. umash_fp_short(oh, seed, buf)[w] = Postmix(noise ^^ h)
    <2>1. n + OH_SHORT_HASH_SHIFT = 4 + n /\ 0 + n = n
      BY <1>1 DEF OH_SHORT_HASH_SHIFT
    <2>2. CASE w = 0
      <3>1. umash_fp_short(oh, seed, buf)[0] = Postmix(Wrapped(seed + oh[n]) ^^ h)
        BY <1>1, <1>2 DEF umash_fp_short
      <3> QED BY <1>2, <2>1, <2>2, <3>1
    <2>3. CASE w = 1
      <3>1. umash_fp_short(oh, seed, buf)[1] = Postmix(Wrapped(seed + oh[4 + n]) ^^ h)
        BY <1>1, <1>2, <2>1 DEF umash_fp_short
      <3> QED BY <1>2, <2>3, <3>1 DEF SHORT_KEY_SHIFT
    <2> QED BY <2>2, <2>3
  <1>5. umash_short(oh, first, seed, buf) = Postmix(h ^^ noise)
    BY <1>1, <1>2 DEF umash_short, Noise
  <1>6. Reference(oh, seed, buf, w = 1) = Postmix(h ^^ noise)
    <2>1. PICK key : key = [j \in 0 .. WordSize |-> oh[first + j]]
      OBVIOUS
    <2>2. Reference(oh, seed, buf, w = 1) = ReferenceShort(key, seed, buf)
      BY <1>2, <2>1, Zenon DEF Reference
    <2>3. (seed + key[Len(buf)]) % Range64 = noise
      BY <1>1, <1>2, <2>1 DEF Wrapped, WordSize
    <2>4. ReferenceVec(buf) = vec_to_u64(buf)
      BY VecIsReference
    <2>5. ReferenceShort(key, seed, buf) = Postmix(h ^^ noise)
      BY <1>2, <2>3, <2>4, Zenon DEF ReferenceShort, Premix, Postmix, Wrapped, ShiftRight
    <2> QED BY <2>2, <2>5
  <1> QED BY <1>2, <1>3, <1>4, <1>5, <1>6

-----------------------------------------------------------------------------
(* SplitMix64 on short inputs. *)

\* Bits move down by a shift to the right.
LEMMA ShiftBits ==
    ASSUME NEW x \in Word, NEW s \in 1 .. WordBits, NEW k \in 0 .. WordBits - 1
    PROVE  /\ ShiftRight(x, s) \in Nat
           /\ Bit(ShiftRight(x, s), k) = IF k + s < WordBits THEN Bit(x, k + s) ELSE 0
  <1>0. WordBits \in Nat /\ x \in Nat /\ s \in 0 .. WordBits
    BY ShortConstants DEF Word
  <1>1. PICK q \in Nat : q = ShiftRight(x, s)
    BY <1>0, BitsOfParts DEF ShiftRight
  <1>2. CASE k + s <= WordBits
    <2>1. k \in 0 .. WordBits - s /\ k + s = s + k
      BY <1>0, <1>2
    <2>2. Bit(q, k) = Bit(x, s + k)
      BY <1>0, <1>1, <2>1, BitsOfParts DEF ShiftRight
    <2>3. Bit(x, WordBits) = 0
      <3>1. WordBits \in WordBits .. WordBits /\ x \in 0 .. 2 ^ WordBits - 1
        BY <1>0 DEF Word, Range64
      <3> QED BY <1>0, <3>1, NoBitsAbove
    <2>4. k + s < WordBits \/ s + k = WordBits
      BY <1>0, <1>2
    <2>5. s + k = WordBits => ~(k + s < WordBits)
      BY <1>0
    <2> QED BY <1>1, <2>1, <2>2, <2>3, <2>4, <2>5
  <1>3. CASE k + s > WordBits
    <2>1. PICK t \in 0 .. WordBits : t = WordBits - s /\ s + t = WordBits /\ k \in t .. WordBits
      BY <1>0, <1>3
    <2>2. PICK p \in Nat \ {0}, u \in Nat \ {0} : p = 2 ^ s /\ u = 2 ^ t
      BY <1>0, PowersArePositive
    <2>3. Range64 = p * u
      <3>1. s \in Nat /\ t \in Nat /\ s + t <= WordBits
        BY <1>0, <2>1
      <3> QED BY <2>1, <2>2, <3>1, PowerOfSum DEF Range64
    <2>4. q < u
      <3>1. x = q * p + (x % 2 ^ s) /\ x % 2 ^ s \in 0 .. 2 ^ s - 1
        BY <1>0, <1>1, <2>2, BitsOfParts DEF ShiftRight
      <3>2. PICK l \in 0 .. p - 1 : x = q * p + l
        BY <2>2, <3>1
      <3>3. ASSUME q >= u
            PROVE  FALSE
        <4>1. q * p >= u * p /\ u * p = p * u
          BY <3>3
        <4> QED BY <2>3, <3>2, <4>1 DEF Word
      <3> QED BY <3>3
    <2>5. Bit(q, k) = 0
      <3>1. q \in 0 .. 2 ^ t - 1 /\ t \in Nat
        BY <2>2, <2>4
      <3> QED BY <2>1, <3>1, NoBitsAbove
    <2>6. ~(k + s < WordBits)
      BY <1>0, <1>3
    <2> QED BY <1>1, <2>5, <2>6
  <1> QED BY <1>0, <1>2, <1>3

\* An exclusive or with such a shift can be undone, from the highest bit down.
LEMMA XorShiftIsOneToOne ==
    ASSUME NEW x \in Word, NEW y \in Word, NEW s \in 1 .. WordBits,
           x ^^ ShiftRight(x, s) = y ^^ ShiftRight(y, s)
    PROVE  x = y
  <1> DEFINE S == {n \in Nat : n <= WordBits =>
                      \A k \in 0 .. WordBits - 1 : k >= WordBits - n => Bit(x, k) = Bit(y, k)}
  <1>0. WordBits \in Nat /\ x \in Nat /\ y \in Nat
    BY ShortConstants DEF Word
  <1>1. 0 \in S
    BY <1>0
  <1>2. ASSUME NEW n \in Nat, n \in S
        PROVE  n + 1 \in S
    <2> SUFFICES ASSUME n + 1 <= WordBits, NEW k \in 0 .. WordBits - 1, k >= WordBits - (n + 1)
                 PROVE  Bit(x, k) = Bit(y, k)
      OBVIOUS
    <2>1. \A l \in 0 .. WordBits - 1 : l >= WordBits - n => Bit(x, l) = Bit(y, l)
      BY <1>0, <1>2
    <2>2. PICK u \in Nat, v \in Nat : u = ShiftRight(x, s) /\ v = ShiftRight(y, s)
      BY ShiftBits
    <2>3. Bit(u, k) = Bit(v, k)
      <3>1. /\ Bit(u, k) = IF k + s < WordBits THEN Bit(x, k + s) ELSE 0
            /\ Bit(v, k) = IF k + s < WordBits THEN Bit(y, k + s) ELSE 0
        BY <2>2, ShiftBits
      <3>2. k + s < WordBits => k + s \in 0 .. WordBits - 1 /\ k + s >= WordBits - n
        BY <1>0
      <3> QED BY <2>1, <3>1, <3>2
    <2>4. Bit(x ^^ u, k) = (Bit(x, k) + Bit(u, k)) % 2 /\ Bit(y ^^ v, k) = (Bit(y, k) + Bit(v, k)) % 2
      BY <1>0, <2>2, XorBits
    <2>5. Bit(x, k) \in {0, 1} /\ Bit(y, k) \in {0, 1} /\ Bit(u, k) \in {0, 1}
      <3>1. k \in 0 .. WordBits
        BY <1>0
      <3> QED BY <1>0, <3>1, Bits
    <2> QED BY <2>2, <2>3, <2>4, <2>5
  <1> HIDE DEF S
  <1>3. WordBits \in S
    BY <1>0, <1>1, <1>2, SetOfNaturals
  <1>4. \A k \in 0 .. WordBits - 1 : Bit(x, k) = Bit(y, k)
    BY <1>0, <1>3 DEF S
  <1> QED BY <1>4, SameBits

\* So can one with a given word.
LEMMA XorIsOneToOne ==
    ASSUME NEW z \in Word, NEW x \in Word, NEW y \in Word, z ^^ x = z ^^ y
    PROVE  x = y
  <1>0. WordBits \in Nat /\ x \in Nat /\ y \in Nat /\ z \in Nat
    BY ShortConstants DEF Word
  <1>1. ASSUME NEW k \in 0 .. WordBits - 1
        PROVE  Bit(x, k) = Bit(y, k)
    <2>1. Bit(z ^^ x, k) = (Bit(z, k) + Bit(x, k)) % 2 /\ Bit(z ^^ y, k) = (Bit(z, k) + Bit(y, k)) % 2
      BY <1>0, XorBits
    <2>2. Bit(x, k) \in {0, 1} /\ Bit(y, k) \in {0, 1} /\ Bit(z, k) \in {0, 1}
      <3>1. k \in 0 .. WordBits
        BY <1>0
      <3> QED BY <1>0, <3>1, Bits
    <2> QED BY <2>1, <2>2
  <1> QED BY <1>1, SameBits

\* Applied twice, it gives the word again.
LEMMA XorUndoesItself ==
    ASSUME NEW z \in Word, NEW x \in Word
    PROVE  z ^^ (z ^^ x) = x
  <1>0. WordBits \in Nat /\ x \in Nat /\ z \in Nat
    BY ShortConstants DEF Word
  <1>1. PICK y \in Word : y = z ^^ x /\ y \in Nat
    BY <1>0, XorBits DEF Word
  <1>2. z ^^ y \in Word
    BY <1>0, <1>1, XorBits
  <1>3. ASSUME NEW k \in 0 .. WordBits - 1
        PROVE  Bit(z ^^ y, k) = Bit(x, k)
    <2>1. Bit(z ^^ y, k) = (Bit(z, k) + Bit(y, k)) % 2 /\ Bit(y, k) = (Bit(z, k) + Bit(x, k)) % 2
      BY <1>0, <1>1, XorBits
    <2>2. Bit(x, k) \in {0, 1} /\ Bit(z, k) \in {0, 1}
      <3>1. k \in 0 .. WordBits
        BY <1>0
      <3> QED BY <1>0, <3>1, Bits
    <2> QED BY <2>1, <2>2
  <1> QED BY <1>1, <1>2, <1>3, SameBits

\* A power of two that divides an odd multiple of a number divides the number,
LEMMA OddFactor ==
    ASSUME NEW a \in Nat, a % 2 = 1, NEW d \in Int, Same(d * a, 0, Range64)
    PROVE  Same(d, 0, Range64)
  <1> DEFINE S == {n \in Nat : n <= WordBits => Same(d, 0, 2 ^ n)}
  <1>0. WordBits \in Nat
    BY ShortConstants
  <1>1. 0 \in S
    <2>1. 2 ^ 0 = 1 /\ d = 0 + d * 1
      OBVIOUS
    <2> QED BY <2>1 DEF Same
  <1>2. ASSUME NEW n \in Nat, n \in S
        PROVE  n + 1 \in S
    <2> SUFFICES ASSUME n + 1 <= WordBits
                 PROVE  Same(d, 0, 2 ^ (n + 1))
      OBVIOUS
    <2>1. PICK o \in Nat : o = n + 1 /\ o <= WordBits /\ n \in 0 .. WordBits /\ WordBits - o \in 0 .. WordBits
      BY <1>0
    <2>2. PICK p \in Nat \ {0}, s \in Nat \ {0} : p = 2 ^ n /\ s = 2 ^ (WordBits - o)
      BY <2>1, PowersArePositive
    <2>3. 2 ^ o = 2 * p
      BY <2>1, <2>2, ShortConstants
    <2>4. Range64 = (2 * p) * s
      <3>1. PICK l \in Nat : l = WordBits - o /\ o + l = WordBits /\ o + l <= WordBits
        BY <1>0, <2>1
      <3>2. 2 ^ (o + l) = 2 ^ o * 2 ^ l
        BY <3>1, PowerOfSum
      <3> QED BY <2>2, <2>3, <3>1, <3>2 DEF Range64
    <2>5. PICK e \in Int : d = e * p
      <3>1. PICK e \in Int : d = 0 + e * p
        BY <1>2, <2>1, <2>2 DEF Same
      <3> QED BY <3>1
    <2>6. PICK k \in Int : d * a = k * ((2 * p) * s)
      <3>1. PICK k \in Int : d * a = 0 + k * ((2 * p) * s)
        BY <2>4 DEF Same
      <3>2. PICK t \in Int : t = k * ((2 * p) * s)
        OBVIOUS
      <3>3. 0 + t = t
        OBVIOUS
      <3> QED BY <3>1, <3>2, <3>3
    <2>7. PICK l \in Int, m2 \in Int : l = e * a /\ m2 = k * s
      OBVIOUS
    <2>8. l * p = (2 * m2) * p
      <3>1. d * a = l * p /\ k * ((2 * p) * s) = (2 * m2) * p
        BY <2>5, <2>7
      <3> QED BY <2>6, <3>1
    <2>9. l = 2 * m2
      BY <2>8
    <2>10. PICK h \in Int : e = 2 * h
      <3>1. PICK b \in Int : a = 2 * b + 1
        BY <1>0
      <3>2. e = 2 * (m2 - e * b)
        <4>1. e * a = 2 * (e * b) + e
          BY <3>1
        <4> QED BY <2>7, <2>9, <4>1
      <3>3. m2 - e * b \in Int
        OBVIOUS
      <3> QED BY <3>2, <3>3
    <2>11. d = 0 + h * (2 * p)
      BY <2>5, <2>10
    <2> QED BY <2>1, <2>3, <2>11 DEF Same
  <1> HIDE DEF S
  <1>3. WordBits \in S
    BY <1>0, <1>1, <1>2, SetOfNaturals
  <1> QED BY <1>3 DEF S, Range64

\* words are apart,
LEMMA WordsApart ==
    ASSUME NEW x \in Word, NEW y \in Word, Same(x - y, 0, Range64)
    PROVE  x = y
  <1>1. PICK p \in Nat \ {0} : p = Range64
    BY ShortConstants, PowersArePositive DEF Range64
  <1>2. PICK d \in Int : d = x - y /\ -p < d /\ d < p
    BY <1>1 DEF Word
  <1>3. PICK k \in Int : d = k * p
    <2>1. PICK k \in Int : d = 0 + k * p
      BY <1>1, <1>2 DEF Same
    <2> QED BY <2>1
  <1>4. k = 0
    <2>1. ASSUME k >= 1
          PROVE  FALSE
      <3>1. k * p >= p
        BY <2>1
      <3> QED BY <1>2, <1>3, <3>1
    <2>2. ASSUME k <= -1
          PROVE  FALSE
      <3>1. k * p <= -p
        BY <2>2
      <3> QED BY <1>2, <1>3, <3>1
    <2> QED BY <2>1, <2>2
  <1>5. d = 0 /\ x \in Int /\ y \in Int
    BY <1>1, <1>3, <1>4 DEF Word
  <1> QED BY <1>2, <1>5

\* and so a multiplication by an odd number can be undone.
LEMMA OddIsOneToOne ==
    ASSUME NEW a \in Nat, a % 2 = 1, NEW x \in Word, NEW y \in Word, Wrapped(x * a) = Wrapped(y * a)
    PROVE  x = y
  <1>1. PICK p \in Nat \ {0} : p = Range64
    BY ShortConstants, PowersArePositive DEF Range64
  <1>2. x \in Int /\ y \in Int
    BY <1>1 DEF Word
  <1>3. PICK u \in Int, v \in Int, d \in Int, w \in Int :
            u = x * a /\ v = y * a /\ d = x - y /\ w = u - v /\ d * a = w
    BY <1>2
  <1>4. u % p = v % p
    BY <1>1, <1>3 DEF Wrapped
  <1>5. PICK k \in Int, l \in Int, r \in Int : u = k * p + r /\ v = l * p + r
    <2>1. u \div p \in Int /\ u % p \in Int /\ u = (u \div p) * p + (u % p)
      BY Division
    <2>2. v \div p \in Int /\ v % p \in Int /\ v = (v \div p) * p + (v % p)
      BY Division
    <2>3. PICK k \in Int, l \in Int, r \in Int, q \in Int :
              k = u \div p /\ l = v \div p /\ r = u % p /\ q = v % p
      BY <2>1, <2>2
    <2>4. u = k * p + r /\ v = l * p + r
      BY <1>4, <2>1, <2>2, <2>3
    <2> QED BY <2>4
  <1>6. PICK n \in Int : n = k - l
    OBVIOUS
  <1>7. w = 0 + n * p
    <2>1. n * p = k * p - l * p
      BY <1>6
    <2>2. PICK b \in Int, c \in Int : b = k * p /\ c = l * p
      OBVIOUS
    <2>3. (b + r) - (c + r) = 0 + (b - c)
      OBVIOUS
    <2> QED BY <1>3, <1>5, <2>1, <2>2, <2>3
  <1>8. Same(d * a, 0, Range64)
    BY <1>1, <1>3, <1>7 DEF Same
  <1>9. Same(x - y, 0, Range64)
    BY <1>3, <1>8, OddFactor
  <1> QED BY <1>9, WordsApart

\* There are words, and they are numbers.
LEMMA WordsArePositive == Range64 \in Nat \ {0} /\ Word \subseteq Nat
  BY ShortConstants, PowersArePositive DEF Range64, Word

\* A product or a sum is cut to a word.
LEMMA WrappedIn == ASSUME NEW x \in Int PROVE Wrapped(x) \in Word
  <1>1. PICK p \in Nat \ {0} : p = Range64
    BY WordsArePositive
  <1>2. x % p \in 0 .. p - 1
    BY Division
  <1> QED BY <1>1, <1>2 DEF Wrapped, Word

\* The two halves of SplitMix64 make words of words,
LEMMA MixedIn ==
    ASSUME NEW x \in Word
    PROVE  Premix(x) \in Word /\ Postmix(x) \in Word
  <1>0. Factors[1] \in Nat /\ Factors[2] \in Nat /\ Word \subseteq Nat
    BY ShortConstants, WordsArePositive DEF ShortAssumption
  <1>s. \A k \in 1 .. 3 : Shifts[k] \in 1 .. WordBits
    BY ShortConstants DEF ShortAssumption
  <1>1. \A y \in Word, k \in 1 .. 3 : ShiftRight(y, Shifts[k]) \in Nat
    <2>1. ASSUME NEW y \in Word, NEW s \in 1 .. WordBits
          PROVE  ShiftRight(y, s) \in Nat
      <3>1. 0 \in 0 .. WordBits - 1
        BY ShortConstants
      <3> QED BY <3>1, ShiftBits
    <2> QED BY <1>s, <2>1
  <1>2. \A y \in Word, k \in 1 .. 3 : y ^^ ShiftRight(y, Shifts[k]) \in Word
    BY <1>0, <1>1, XorBits
  <1>3. \A y \in Word, k \in 1 .. 2 : Wrapped(y * Factors[k]) \in Word
    <2> SUFFICES ASSUME NEW y \in Word, NEW k \in 1 .. 2
                 PROVE  Wrapped(y * Factors[k]) \in Word
      OBVIOUS
    <2>1. PICK z \in Int : z = y * Factors[k]
      BY <1>0
    <2> QED BY <2>1, WrappedIn
  <1> QED BY <1>2, <1>3 DEF Premix, Postmix

\* and never the same of two.
LEMMA MixersAreOneToOne ==
    ASSUME NEW x \in Word, NEW y \in Word
    PROVE  /\ Premix(x) = Premix(y) => x = y
           /\ Postmix(x) = Postmix(y) => x = y
  <1>0. /\ Factors[1] \in Nat /\ Factors[2] \in Nat /\ Word \subseteq Nat
        /\ Factors[1] % 2 = 1 /\ Factors[2] % 2 = 1
    BY ShortConstants, WordsArePositive DEF ShortAssumption
  <1>s. \A k \in 1 .. 3 : Shifts[k] \in 1 .. WordBits
    BY ShortConstants DEF ShortAssumption
  <1>1. \A v \in Word, k \in 1 .. 3 : v ^^ ShiftRight(v, Shifts[k]) \in Word
    <2>1. ASSUME NEW v \in Word, NEW s \in 1 .. WordBits
          PROVE  v ^^ ShiftRight(v, s) \in Word
      <3>1. 0 \in 0 .. WordBits - 1
        BY ShortConstants
      <3>2. ShiftRight(v, s) \in Nat /\ v \in Nat
        BY <1>0, <3>1, ShiftBits
      <3> QED BY <3>2, XorBits
    <2> QED BY <1>s, <2>1
  <1>2. \A v \in Word, k \in 1 .. 2 : Wrapped(v * Factors[k]) \in Word
    <2> SUFFICES ASSUME NEW v \in Word, NEW k \in 1 .. 2
                 PROVE  Wrapped(v * Factors[k]) \in Word
      OBVIOUS
    <2>1. PICK z \in Int : z = v * Factors[k]
      BY <1>0
    <2> QED BY <2>1, WrappedIn
  <1>3. \A v \in Word, w \in Word, k \in 1 .. 3 :
           v ^^ ShiftRight(v, Shifts[k]) = w ^^ ShiftRight(w, Shifts[k]) => v = w
    BY <1>s, XorShiftIsOneToOne
  <1>4. \A v \in Word, w \in Word, k \in 1 .. 2 :
           Wrapped(v * Factors[k]) = Wrapped(w * Factors[k]) => v = w
    <2> SUFFICES ASSUME NEW v \in Word, NEW w \in Word, NEW k \in 1 .. 2,
                        Wrapped(v * Factors[k]) = Wrapped(w * Factors[k])
                 PROVE  v = w
      OBVIOUS
    <2>1. PICK a \in Nat : a = Factors[k] /\ a % 2 = 1
      BY <1>0
    <2> QED BY <2>1, OddIsOneToOne
  <1>5. ASSUME Premix(x) = Premix(y)
        PROVE  x = y
    <2>1. PICK u \in Word, v \in Word : u = x ^^ ShiftRight(x, Shifts[1]) /\ v = y ^^ ShiftRight(y, Shifts[1])
      BY <1>1
    <2>2. PICK g \in Word, h \in Word : g = Wrapped(u * Factors[1]) /\ h = Wrapped(v * Factors[1])
      BY <1>2
    <2>3. g ^^ ShiftRight(g, Shifts[2]) = h ^^ ShiftRight(h, Shifts[2])
      BY <1>5, <2>1, <2>2, Zenon DEF Premix
    <2>4. g = h
      BY <1>3, <2>3
    <2>5. u = v
      BY <1>4, <2>2, <2>4
    <2>6. x ^^ ShiftRight(x, Shifts[1]) = y ^^ ShiftRight(y, Shifts[1]) /\ 1 \in 1 .. 3
      BY <2>1, <2>5
    <2> QED BY <1>3, <2>6
  <1>6. ASSUME Postmix(x) = Postmix(y)
        PROVE  x = y
    <2>1. PICK g \in Word, h \in Word : g = Wrapped(x * Factors[2]) /\ h = Wrapped(y * Factors[2])
      BY <1>2
    <2>2. g ^^ ShiftRight(g, Shifts[3]) = h ^^ ShiftRight(h, Shifts[3])
      BY <1>6, <2>1, Zenon DEF Postmix
    <2>3. g = h
      BY <1>3, <2>2
    <2> QED BY <1>4, <2>1, <2>3
  <1> QED BY <1>5, <1>6

\* The value of four bytes, of which some may be absent.
LEMMA LoadIs ==
    ASSUME NEW n \in Nat, NEW buf \in Buffers(n), NEW start \in 0 .. n, NEW count \in 0 .. n - start,
           count <= 4
    PROVE  Load(buf, start, count) \in 0 .. Range32 - 1
  <1> DEFINE byte(j) == IF j < count THEN buf[start + j] ELSE 0
  <1>1. PICK r \in Nat \ {0, 1} : r = Range8
    BY Halves
  <1>2. \A j \in 0 .. 3 : byte(j) \in 0 .. r - 1
    BY <1>1 DEF Buffers
  <1>3. Load(buf, start, count) = byte(0) + r * (byte(1) + r * (byte(2) + r * byte(3)))
    BY <1>1 DEF Load
  <1> HIDE DEF byte
  <1>4. PICK b0 \in 0 .. r - 1, b1 \in 0 .. r - 1, b2 \in 0 .. r - 1, b3 \in 0 .. r - 1 :
            b0 = byte(0) /\ b1 = byte(1) /\ b2 = byte(2) /\ b3 = byte(3)
    BY <1>2
  <1>5. \A a \in 0 .. r - 1, m1 \in Nat : \A c \in 0 .. m1 - 1 :
            a + r * c \in 0 .. r * m1 - 1 /\ r * m1 \in Nat
    <2> SUFFICES ASSUME NEW a \in 0 .. r - 1, NEW m1 \in Nat, NEW c \in 0 .. m1 - 1
                 PROVE  a + r * c \in 0 .. r * m1 - 1 /\ r * m1 \in Nat
      OBVIOUS
    <2>1. r * c <= r * (m1 - 1) /\ r * (m1 - 1) = r * m1 - r
      OBVIOUS
    <2>2. r * c >= 0 /\ r * c \in Int /\ r * m1 \in Int /\ r * m1 >= 0
      OBVIOUS
    <2> QED BY <2>1, <2>2
  <1>6. PICK r2 \in Nat, r3 \in Nat, r4 \in Nat : r2 = r * r /\ r3 = r * r2 /\ r4 = r * r3
    OBVIOUS
  <1>7. PICK c2 \in 0 .. r2 - 1 : c2 = b2 + r * b3
    BY <1>5, <1>6
  <1>8. PICK c1 \in 0 .. r3 - 1 : c1 = b1 + r * c2
    BY <1>5, <1>6
  <1>9. b0 + r * c1 \in 0 .. r4 - 1
    BY <1>5, <1>6
  <1> QED BY <1>1, <1>3, <1>4, <1>6, <1>7, <1>8, <1>9, Halves

\* Loads that are the same have the same bytes.
LEMMA SameLoads ==
    ASSUME NEW n \in Nat, NEW buf \in Buffers(n), NEW other \in Buffers(n),
           NEW start \in 0 .. n, NEW count \in 0 .. n - start, count <= 4,
           Load(buf, start, count) = Load(other, start, count)
    PROVE  \A j \in start .. start + count - 1 : buf[j] = other[j]
  <1> DEFINE byte(j) == IF j < count THEN buf[start + j] ELSE 0
             twin(j) == IF j < count THEN other[start + j] ELSE 0
  <1>1. PICK r \in Nat \ {0, 1} : r = Range8
    BY Halves
  <1>2. \A j \in 0 .. 3 : byte(j) \in 0 .. r - 1 /\ twin(j) \in 0 .. r - 1
    BY <1>1 DEF Buffers
  <1>3. byte(0) + r * (byte(1) + r * (byte(2) + r * byte(3)))
            = twin(0) + r * (twin(1) + r * (twin(2) + r * twin(3)))
    BY <1>1 DEF Load
  <1>a. \A j \in 0 .. 3 : j < count => byte(j) = buf[start + j] /\ twin(j) = other[start + j]
    OBVIOUS
  <1> HIDE DEF byte, twin
  <1>4. PICK b0 \in 0 .. r - 1, b1 \in 0 .. r - 1, b2 \in 0 .. r - 1, b3 \in 0 .. r - 1 :
            b0 = byte(0) /\ b1 = byte(1) /\ b2 = byte(2) /\ b3 = byte(3)
    BY <1>2
  <1>5. PICK d0 \in 0 .. r - 1, d1 \in 0 .. r - 1, d2 \in 0 .. r - 1, d3 \in 0 .. r - 1 :
            d0 = twin(0) /\ d1 = twin(1) /\ d2 = twin(2) /\ d3 = twin(3)
    BY <1>2
  <1>6. \A a \in 0 .. r - 1, b \in 0 .. r - 1, x \in Int, y \in Int :
            a + r * x = b + r * y => a = b /\ x = y
    <2> SUFFICES ASSUME NEW a \in 0 .. r - 1, NEW b \in 0 .. r - 1, NEW x \in Int, NEW y \in Int,
                        a + r * x = b + r * y
                 PROVE  a = b /\ x = y
      OBVIOUS
    <2>1. x * r + a = y * r + b
      OBVIOUS
    <2>2. (x * r + a) \div r = x /\ (x * r + a) % r = a
      BY DivisionIsUnique
    <2>3. (y * r + b) \div r = y /\ (y * r + b) % r = b
      BY DivisionIsUnique
    <2> QED BY <2>1, <2>2, <2>3
  <1>7. PICK x1 \in Int, x2 \in Int, y1 \in Int, y2 \in Int :
            /\ x2 = b2 + r * b3 /\ x1 = b1 + r * x2
            /\ y2 = d2 + r * d3 /\ y1 = d1 + r * y2
    OBVIOUS
  <1>8. b0 + r * x1 = d0 + r * y1
    BY <1>3, <1>4, <1>5, <1>7
  <1>9. b0 = d0 /\ x1 = y1
    BY <1>6, <1>8
  <1>10. b1 = d1 /\ x2 = y2
    BY <1>6, <1>7, <1>9
  <1>11. b2 = d2 /\ b3 = d3
    BY <1>6, <1>7, <1>10
  <1>12. \A j \in 0 .. 3 : j < count => buf[start + j] = other[start + j]
    BY <1>a, <1>4, <1>5, <1>9, <1>10, <1>11
  <1> SUFFICES ASSUME NEW j \in start .. start + count - 1
               PROVE  buf[j] = other[j]
    OBVIOUS
  <1>13. PICK l \in 0 .. 3 : l = j - start /\ l < count /\ start + l = j
    OBVIOUS
  <1> QED BY <1>12, <1>13

\* The part of the input in each half of vec_to_u64.
LEMMA VecHalves ==
    ASSUME NEW n \in 0 .. WordSize, NEW buf \in Buffers(n), NEW c \in 0 .. n, NEW d \in 0 .. n,
           c = IF n >= 4 THEN 4 ELSE n % 2, d = IF n >= 4 THEN 4 ELSE 2 * (n \div 2)
    PROVE  vec_to_u64(buf) = (Load(buf, n - d, d) * Range32)
                                 + ((Load(buf, 0, c) + Load(buf, n - d, d)) % Range32)
  <1>1. n \in Nat /\ n <= 8 /\ Len(buf) = n
    BY Lengths DEF Buffers, WordSize
  <1>2. PICK lo \in Int, hi \in Int : lo = Load(buf, 0, c) /\ hi = Load(buf, n - d, d)
    <2>1. Load(buf, 0, c) \in Int
      BY <1>1, Loads
    <2>2. Load(buf, n - d, d) \in Int
      <3>1. n - d \in 0 .. n /\ d \in 0 .. n - (n - d)
        BY <1>1
      <3> QED BY <1>1, <3>1, Loads
    <2> QED BY <2>1, <2>2
  <1>3. lo = Unpack(First(buf, c)) /\ hi = Unpack(Last(buf, d))
    BY <1>1, <1>2, Slices DEF LastBytes
  <1>4. ReferenceVec(buf) = (hi * Range32) + ((hi + lo) % Range32)
    BY <1>1, <1>3, Zenon DEF ReferenceVec
  <1>5. hi + lo = lo + hi
    OBVIOUS
  <1> QED BY <1>2, <1>4, <1>5, VecIsReference

\* Different inputs of a size are different words.
LEMMA VecIsOneToOne ==
    ASSUME NEW n \in 0 .. WordSize, NEW buf \in Buffers(n), NEW other \in Buffers(n)
    PROVE  /\ vec_to_u64(buf) \in Word
           /\ vec_to_u64(buf) = vec_to_u64(other) => buf = other
  <1>1. n \in Nat /\ n <= 8
    BY DEF WordSize
  <1>2. PICK c \in 0 .. n, d \in 0 .. n :
            /\ c = IF n >= 4 THEN 4 ELSE n % 2
            /\ d = IF n >= 4 THEN 4 ELSE 2 * (n \div 2)
    <2>1. CASE n >= 4
      BY <1>1, <2>1
    <2>2. CASE n < 4
      <3>1. n % 2 \in 0 .. n /\ 2 * (n \div 2) \in 0 .. n
        BY <1>1, <2>2
      <3> QED BY <1>1, <2>2, <3>1
    <2> QED BY <1>1, <2>1, <2>2
  <1>3. c <= 4 /\ d <= 4 /\ n - d \in 0 .. n /\ d \in 0 .. n - (n - d) /\ 0 \in 0 .. n /\ c \in 0 .. n - 0
    BY <1>1, <1>2
  <1>4. PICK p \in Nat \ {0} : p = Range32 /\ Range64 = p * p
    BY Halves
  <1>5. PICK lo \in 0 .. p - 1, hi \in 0 .. p - 1 :
            lo = Load(buf, 0, c) /\ hi = Load(buf, n - d, d)
    BY <1>1, <1>3, <1>4, LoadIs
  <1>6. PICK lo2 \in 0 .. p - 1, hi2 \in 0 .. p - 1 :
            lo2 = Load(other, 0, c) /\ hi2 = Load(other, n - d, d)
    BY <1>1, <1>3, <1>4, LoadIs
  <1>7. PICK s \in Int, t \in Int : s = lo + hi /\ t = lo2 + hi2
    OBVIOUS
  <1>8. s % p \in 0 .. p - 1 /\ t % p \in 0 .. p - 1
    BY Division
  <1>9. PICK u \in 0 .. p - 1, v \in 0 .. p - 1 : u = s % p /\ v = t % p
    BY <1>8
  <1>10. vec_to_u64(buf) = hi * p + u /\ vec_to_u64(other) = hi2 * p + v
    BY <1>2, <1>4, <1>5, <1>6, <1>7, <1>9, VecHalves
  <1>11. hi * p + u \in 0 .. p * p - 1
    <2>1. hi * p <= (p - 1) * p /\ (p - 1) * p = p * p - p
      OBVIOUS
    <2>2. hi * p >= 0 /\ hi * p \in Int /\ p * p \in Int
      OBVIOUS
    <2> QED BY <2>1, <2>2
  <1>12. ASSUME hi * p + u = hi2 * p + v
         PROVE  buf = other
    <2>1. (hi * p + u) \div p = hi /\ (hi * p + u) % p = u
      BY DivisionIsUnique
    <2>2. (hi2 * p + v) \div p = hi2 /\ (hi2 * p + v) % p = v
      BY DivisionIsUnique
    <2>3. hi = hi2 /\ u = v
      BY <1>12, <2>1, <2>2
    <2>4. lo = lo2
      <3>1. PICK k \in Int, l \in Int : s = k * p + u /\ t = l * p + u
        <4>1. s \div p \in Int /\ s = (s \div p) * p + (s % p)
          BY Division
        <4>2. t \div p \in Int /\ t = (t \div p) * p + (t % p)
          BY Division
        <4> QED BY <1>9, <2>3, <4>1, <4>2
      <3>2. PICK e \in Int : e = k - l
        OBVIOUS
      <3>3. lo = lo2 + e * p
        <4>1. e * p = k * p - l * p
          BY <3>2
        <4>2. PICK a \in Int, b \in Int : a = k * p /\ b = l * p
          OBVIOUS
        <4> QED BY <1>7, <2>3, <3>1, <4>1, <4>2
      <3>4. Same(lo, lo2, p)
        BY <3>3 DEF Same
      <3>5. lo \in Int
        OBVIOUS
      <3>6. lo % p = lo2
        BY <3>4, <3>5, ResidueIs
      <3> QED BY <3>6
    <2>5. \A j \in 0 .. 0 + c - 1 : buf[j] = other[j]
      BY <1>1, <1>3, <1>5, <1>6, <2>4, SameLoads
    <2>6. \A j \in n - d .. (n - d) + d - 1 : buf[j] = other[j]
      <3>1. PICK e \in 0 .. n : e = n - d /\ d \in 0 .. n - e
        BY <1>3
      <3>2. Load(buf, e, d) = Load(other, e, d)
        BY <1>5, <1>6, <2>3, <3>1
      <3>3. \A j \in e .. e + d - 1 : buf[j] = other[j]
        BY <1>1, <1>3, <3>1, <3>2, SameLoads
      <3> QED BY <3>1, <3>3
    <2>7. \A j \in 0 .. n - 1 : j \in 0 .. 0 + c - 1 \/ j \in n - d .. (n - d) + d - 1
      BY <1>1, <1>2
    <2>8. \A j \in 0 .. n - 1 : buf[j] = other[j]
      BY <2>5, <2>6, <2>7
    <2> QED BY <2>8 DEF Buffers
  <1> QED BY <1>4, <1>10, <1>11, <1>12 DEF Word

\* A bijection of what a function is applied to and of what it returns.
LEMMA ImageOfOneToOne ==
    ASSUME NEW S, NEW T, NEW g \in [S -> T], IsFiniteSet(T), \A x, y \in S : g[x] = g[y] => x = y
    PROVE  IsFiniteSet(S) /\ Cardinality({g[x] : x \in S}) = Cardinality(S)
  <1>1. g \in Injection(S, T)
    BY DEF Injection, IsInjective
  <1>2. IsFiniteSet(S)
    BY <1>1, FS_Injection
  <1> DEFINE U == {g[x] : x \in S}
  <1>3. g \in Bijection(S, U)
    BY <1>1 DEF Bijection, Injection, IsInjective, Surjection
  <1>4. ExistsBijection(S, U)
    BY <1>3 DEF ExistsBijection
  <1> HIDE DEF U
  <1>5. Cardinality(U) = Cardinality(S)
    BY <1>2, <1>4, FS_Bijection
  <1> QED BY <1>2, <1>5 DEF U

\* The seed and a word of the key are the noise.
Noised(seed, k) == Wrapped(seed + k)

\* It is a word.
LEMMA NoisedIn == ASSUME NEW seed \in Word, NEW k \in Word PROVE Noised(seed, k) \in Word
  <1>1. PICK e \in Int : e = seed + k
    BY WordsArePositive
  <1> QED BY <1>1, WrappedIn DEF Noised

\* The word that makes a noise is the only one.
LEMMA NoiseIsUnique ==
    ASSUME NEW seed \in Word, NEW k \in Word, NEW l \in Word
    PROVE  Noised(seed, k) = Noised(seed, l) => k = l
  <1> SUFFICES ASSUME Wrapped(seed + k) = Wrapped(seed + l)
               PROVE  k = l
    BY DEF Noised
  <1>1. PICK p \in Nat \ {0} : p = Range64
    BY WordsArePositive
  <1>2. PICK u \in Int, v \in Int : u = seed + k /\ v = seed + l /\ u - v = k - l
    BY WordsArePositive
  <1>3. Same(u, u % p, p) /\ Same(v % p, v, p) /\ v % p \in Int
    <2>1. u % p \in 0 .. p - 1 /\ Same(u, u % p, p)
      BY SameAsResidue
    <2>2. v % p \in 0 .. p - 1 /\ Same(v % p, v, p)
      BY SameAsResidue
    <2> QED BY <2>1, <2>2
  <1>4. u % p = v % p
    BY <1>1, <1>2 DEF Wrapped
  <1>5. Same(u, v, p)
    <2>1. PICK r \in Int : r = v % p
      BY <1>3
    <2>2. Same(u, r, p) /\ Same(r, v, p)
      BY <1>3, <1>4, <2>1
    <2> QED BY <2>2, SameTrans
  <1>6. PICK n \in Int : u = v + n * p
    BY <1>5 DEF Same
  <1>7. PICK a \in Int : a = n * p
    OBVIOUS
  <1>8. k - l = 0 + n * p
    BY <1>2, <1>6, <1>7
  <1>9. Same(k - l, 0, Range64)
    BY <1>1, <1>8 DEF Same
  <1> QED BY <1>9, WordsApart

\* And there is one for every noise.
LEMMA NoiseExists ==
    ASSUME NEW seed \in Word, NEW u \in Word
    PROVE  \E k \in Word : Noised(seed, k) = u
  <1>1. PICK p \in Nat \ {0} : p = Range64
    BY WordsArePositive
  <1>2. PICK d \in Int : d = u - seed
    BY WordsArePositive
  <1>3. PICK k \in 0 .. p - 1, q \in Int : k = d % p /\ d = q * p + k
    BY Division
  <1>4. PICK e \in Int : e = -q
    OBVIOUS
  <1>5. seed + k = e * p + u
    <2>1. PICK a \in Int, b \in Int : a = q * p /\ b = e * p /\ b = -a
      BY <1>4
    <2>2. seed \in Int /\ u \in Int
      BY WordsArePositive
    <2>3. d = a + k
      BY <1>3, <2>1
    <2>4. seed + k = b + u
      BY <1>2, <2>1, <2>2, <2>3
    <2> QED BY <2>1, <2>4
  <1>6. PICK v \in 0 .. p - 1 : v = u
    BY <1>1 DEF Word
  <1>7. (e * p + v) % p = v
    BY DivisionIsUnique
  <1>8. Wrapped(seed + k) = u /\ k \in Word
    BY <1>1, <1>5, <1>6, <1>7 DEF Wrapped, Word
  <1> QED BY <1>8 DEF Noised

\* A hash, and the words that go into it.
LEMMA PremixedIn ==
    ASSUME NEW n \in 0 .. WordSize, NEW buf \in Buffers(n), NEW w \in Word
    PROVE  Premix(vec_to_u64(buf)) \in Word /\ Premix(vec_to_u64(buf)) ^^ w \in Word
  <1>1. PICK h \in Word : h = Premix(vec_to_u64(buf))
    BY VecIsOneToOne, MixedIn
  <1>2. h ^^ w \in Word
    BY WordsArePositive, XorBits
  <1> QED BY <1>1, <1>2

\* umash_short with the noise by name.
LEMMA ShortHashIs ==
    ASSUME NEW n \in 0 .. WordSize, NEW buf \in Buffers(n), NEW oh, NEW first, NEW seed,
           NEW k, Noise(oh, first, n) = k
    PROVE  umash_short(oh, first, seed, buf) = Postmix(Premix(vec_to_u64(buf)) ^^ Noised(seed, k))
  <1>1. Len(buf) = n
    BY Lengths DEF Buffers, WordSize
  <1> QED BY <1>1 DEF umash_short, Noised

\* The words of a key that is in use are distinct.
DistinctWords(oh) == \A j, k \in 0 .. OhCount - 1 : oh[j] = oh[k] => j = k

\* The words that short inputs use are in the key.
LEMMA ShortKeys ==
    \A first \in {0, OH_SHORT_HASH_SHIFT}, n \in 0 .. WordSize :
       first \in Nat /\ n \in Nat /\ first + n \in 0 .. OhCount - 1
  <1>1. PICK c \in Nat : c = OhCount /\ c > 12
    BY KeysAssumption DEF KeysAssumption, Prep!ParamsAssumption, WordSize, OH_SHORT_HASH_SHIFT
  <1> QED BY <1>1 DEF WordSize, OH_SHORT_HASH_SHIFT

\* Inputs of a size have as many hashes as they are.
LEMMA SameSizeNeverCollides ==
    ASSUME NEW n \in 0 .. WordSize, NEW oh \in [0 .. OhCount - 1 -> Word], NEW seed \in Word,
           NEW first \in {0, OH_SHORT_HASH_SHIFT}
    PROVE  Cardinality({umash_short(oh, first, seed, buf) : buf \in Buffers(n)})
               = Cardinality(Buffers(n))
  <1> DEFINE g == [buf \in Buffers(n) |-> umash_short(oh, first, seed, buf)]
  <1>0. Noise(oh, first, n) \in Word
    BY ShortKeys DEF Noise
  <1>1. ASSUME NEW buf \in Buffers(n)
        PROVE  g[buf] \in Word
    <2>1. PICK l \in Word : l = Noise(oh, first, n)
      BY <1>0
    <2>2. PICK v \in Word : v = Premix(vec_to_u64(buf)) ^^ Noised(seed, l)
      BY NoisedIn, PremixedIn
    <2>3. umash_short(oh, first, seed, buf) = Postmix(v)
      BY <1>0, <2>1, <2>2, ShortHashIs
    <2> QED BY <2>3, MixedIn
  <1>2. g \in [Buffers(n) -> Word]
    BY <1>1
  <1>3. IsFiniteSet(Word)
    BY WordsArePositive, FS_Interval DEF Word
  <1>4. ASSUME NEW x \in Buffers(n), NEW y \in Buffers(n), g[x] = g[y]
        PROVE  x = y
    <2>0. PICK l \in Word : l = Noise(oh, first, n)
      BY <1>0
    <2>1. PICK w \in Word : w = Noised(seed, l)
      BY NoisedIn
    <2>2. PICK h \in Word, k \in Word : h = Premix(vec_to_u64(x)) /\ k = Premix(vec_to_u64(y))
      BY PremixedIn
    <2>a. ASSUME NEW b \in Buffers(n)
          PROVE  /\ umash_short(oh, first, seed, b) = Postmix(Premix(vec_to_u64(b)) ^^ w)
                 /\ Premix(vec_to_u64(b)) ^^ w \in Word
      BY <1>0, <2>0, <2>1, ShortHashIs, PremixedIn
    <2>3. /\ g[x] = Postmix(h ^^ w) /\ h ^^ w \in Word
          /\ g[y] = Postmix(k ^^ w) /\ k ^^ w \in Word
      BY <2>2, <2>a
    <2>4. h ^^ w = k ^^ w
      BY <1>4, <2>3, MixersAreOneToOne
    <2>5. w ^^ h = w ^^ k
      BY <2>4, XorCommutes
    <2>6. h = k
      BY <2>5, XorIsOneToOne
    <2>7. vec_to_u64(x) \in Word /\ vec_to_u64(y) \in Word
      BY VecIsOneToOne
    <2>8. vec_to_u64(x) = vec_to_u64(y)
      BY <2>2, <2>6, <2>7, MixersAreOneToOne
    <2> QED BY <2>8, VecIsOneToOne
  <1>5. {g[buf] : buf \in Buffers(n)} = {umash_short(oh, first, seed, buf) : buf \in Buffers(n)}
    OBVIOUS
  <1>6. Cardinality({g[buf] : buf \in Buffers(n)}) = Cardinality(Buffers(n))
    <2> HIDE DEF g
    <2> QED BY <1>2, <1>3, <1>4, ImageOfOneToOne
  <1> QED BY <1>5, <1>6

\* The two hashes of an input use different words of the key.
LEMMA HashesDiffer ==
    ASSUME NEW n \in 0 .. WordSize, NEW oh \in [0 .. OhCount - 1 -> Word], NEW seed \in Word,
           NEW buf \in Buffers(n), DistinctWords(oh)
    PROVE  LET fp == umash_fp_short(oh, seed, buf) IN fp[0] # fp[1]
  <1>1. PICK z \in Nat, s \in Nat : z = 0 /\ s = OH_SHORT_HASH_SHIFT /\ s = 4
    BY DEF OH_SHORT_HASH_SHIFT
  <1>2. z + n \in 0 .. OhCount - 1 /\ s + n \in 0 .. OhCount - 1 /\ z + n # s + n
    <2>1. n \in Nat /\ z \in {0, OH_SHORT_HASH_SHIFT} /\ s \in {0, OH_SHORT_HASH_SHIFT}
      BY <1>1 DEF WordSize
    <2> QED BY <1>1, <2>1, ShortKeys
  <1>3. oh[z + n] \in Word /\ oh[s + n] \in Word /\ oh[z + n] # oh[s + n]
    BY <1>2 DEF DistinctWords
  <1>4. PICK h \in Word, k \in Word, l \in Word :
            h = Premix(vec_to_u64(buf)) /\ k = Noise(oh, z, n) /\ l = Noise(oh, s, n) /\ k # l
    BY <1>3, PremixedIn DEF Noise
  <1>a. PICK v \in Word, w \in Word : v = Noised(seed, k) /\ w = Noised(seed, l)
    BY NoisedIn
  <1>b. h ^^ v \in Word /\ h ^^ w \in Word
    BY <1>4, PremixedIn
  <1>c. umash_short(oh, z, seed, buf) = Postmix(h ^^ v)
    BY <1>4, <1>a, ShortHashIs
  <1>d. umash_short(oh, s, seed, buf) = Postmix(h ^^ w)
    BY <1>4, <1>a, ShortHashIs
  <1>5. v # w
    BY <1>4, <1>a, NoiseIsUnique
  <1>6. Postmix(h ^^ v) # Postmix(h ^^ w)
    BY <1>b, <1>5, XorIsOneToOne, MixersAreOneToOne
  <1>7. /\ umash_fp_short(oh, seed, buf)[0] = umash_short(oh, 0 * OH_SHORT_HASH_SHIFT, seed, buf)
        /\ umash_fp_short(oh, seed, buf)[1] = umash_short(oh, 1 * OH_SHORT_HASH_SHIFT, seed, buf)
    BY ShortHashes
  <1>8. 0 * OH_SHORT_HASH_SHIFT = z /\ 1 * OH_SHORT_HASH_SHIFT = s
    BY <1>1
  <1> QED BY <1>6, <1>7, <1>8, <1>c, <1>d

\* Another size has another word of the key, and only one value of it collides.
LEMMA OneWordCollides ==
    ASSUME NEW n \in 0 .. WordSize, NEW other \in 0 .. WordSize, n # other,
           NEW oh \in [0 .. OhCount - 1 -> Word], NEW seed \in Word,
           NEW first \in {0, OH_SHORT_HASH_SHIFT}, NEW x \in Buffers(n), NEW y \in Buffers(other)
    PROVE  Cardinality(Colliding(oh, first, seed, x, other, y)) = 1
  <1> DEFINE key(k) == [oh EXCEPT ![first + other] = k]
  <1>0. /\ Noise(oh, first, n) \in Word
        /\ \A k \in Word : Noise(key(k), first, other) = k
    BY ShortKeys DEF Noise
  <1>1. PICK t \in Word : umash_short(oh, first, seed, x) = Postmix(t)
    <2>1. PICK l \in Word : l = Noise(oh, first, n)
      BY <1>0
    <2>2. Premix(vec_to_u64(x)) ^^ Noised(seed, l) \in Word
      BY NoisedIn, PremixedIn
    <2> QED BY <1>0, <2>1, <2>2, ShortHashIs
  <1>2. PICK h \in Word : h = Premix(vec_to_u64(y))
    BY PremixedIn
  <1>3. ASSUME NEW k \in Word
        PROVE  /\ umash_short(key(k), first, seed, y) = Postmix(h ^^ Noised(seed, k))
               /\ Noised(seed, k) \in Word /\ h ^^ Noised(seed, k) \in Word
    <2>1. PICK oh2 : oh2 = key(k) /\ Noise(oh2, first, other) = k
      BY <1>0
    <2> HIDE DEF key
    <2>2. umash_short(oh2, first, seed, y) = Postmix(h ^^ Noised(seed, k))
      BY <1>0, <1>2, <2>1, ShortHashIs
    <2> QED BY <1>2, <2>1, <2>2, NoisedIn, PremixedIn
  <1>4. PICK u \in Word : u = h ^^ t
    BY WordsArePositive, XorBits
  <1>5. h ^^ u = t
    BY <1>4, XorUndoesItself
  <1>6. PICK w \in Word : Noised(seed, w) = u
    BY NoiseExists
  <1> DEFINE hash(k) == umash_short(key(k), first, seed, y)
             goal == umash_short(oh, first, seed, x)
  <1>7. hash(w) = goal
    BY <1>1, <1>3, <1>5, <1>6
  <1>8. ASSUME NEW k \in Word, hash(k) = goal
        PROVE  k = w
    <2>1. PICK v \in Word : v = Noised(seed, k) /\ hash(k) = Postmix(h ^^ v) /\ h ^^ v \in Word
      BY <1>3
    <2>2. h ^^ v = t
      BY <1>1, <1>8, <2>1, MixersAreOneToOne
    <2>3. v = u
      BY <1>5, <2>2, XorIsOneToOne
    <2> QED BY <1>6, <2>1, <2>3, NoiseIsUnique
  <1>9. {k \in Word : hash(k) = goal} = {w}
    <2> HIDE DEF hash, goal
    <2> QED BY <1>7, <1>8
  <1>10. Cardinality({w}) = 1
    BY FS_Singleton
  <1>11. Colliding(oh, first, seed, x, other, y) = {k \in Word : hash(k) = goal}
    BY DEF Colliding, Word
  <1> QED BY <1>9, <1>10, <1>11

\* The words of a key in use are distinct.
ShortInv == short # NoInput => DistinctWords(short.oh)

\* With distinct words in the key, collisions of short inputs are chance.
LEMMA CollisionIsChance ==
    ASSUME TypeOK, ShortInv
    PROVE  ShortCollisionIsChance
  <1> SUFFICES ASSUME short # NoInput, NEW first \in {0, OH_SHORT_HASH_SHIFT}
               PROVE  LET same == Buffers(short.n)
                          x == [j \in 0 .. short.n - 1 |-> j % 2]
                          Ones(n) == [j \in 0 .. n - 1 |-> 1]
                      IN  /\ Cardinality({umash_short(short.oh, first, short.seed, buf) : buf \in same})
                                  = Cardinality(same)
                          /\ \A buf \in same : LET fp == umash_fp_short(short.oh, short.seed, buf)
                                               IN  fp[0] # fp[1]
                          /\ \A n \in (0 .. WordSize) \ {short.n} :
                                Cardinality(Colliding(short.oh, first, short.seed, x, n, Ones(n))) = 1
    BY Zenon DEF ShortCollisionIsChance
  <1>1. PICK n \in 0 .. WordSize, oh \in [0 .. OhCount - 1 -> Word], seed \in Word :
            n = short.n /\ oh = short.oh /\ seed = short.seed
    BY KeysAssumption DEF TypeOK, Word, KeysAssumption
  <1>2. DistinctWords(oh)
    BY <1>1 DEF ShortInv
  <1>4. PICK x \in Buffers(n) : x = [j \in 0 .. n - 1 |-> j % 2]
    <2>1. \A j \in 0 .. n - 1 : j % 2 \in 0 .. Range8 - 1
      BY Halves
    <2> QED BY <2>1 DEF Buffers
  <1>6. Cardinality({umash_short(oh, first, seed, buf) : buf \in Buffers(n)})
            = Cardinality(Buffers(n))
    BY SameSizeNeverCollides
  <1>7. \A buf \in Buffers(n) : LET fp == umash_fp_short(oh, seed, buf) IN fp[0] # fp[1]
    BY <1>2, HashesDiffer
  <1>8. ASSUME NEW other \in (0 .. WordSize) \ {n}
        PROVE  Cardinality(Colliding(oh, first, seed, x, other, [j \in 0 .. other - 1 |-> 1])) = 1
    <2>1. PICK y \in Buffers(other) : y = [j \in 0 .. other - 1 |-> 1]
      <3>1. 1 \in 0 .. Range8 - 1
        BY Halves
      <3> QED BY <3>1 DEF Buffers
    <2>2. Cardinality(Colliding(oh, first, seed, x, other, y)) = 1
      BY OneWordCollides
    <2> QED BY <2>1, <2>2
  <1> QED BY <1>1, <1>4, <1>6, <1>7, <1>8, Zenon

\* The accumulator of the code is the reference's, and so is the hash.
LEMMA HashIs == PolyInv => HashIsReference
  <1> SUFFICES ASSUME PolyInv PROVE HashIsReference
    OBVIOUS
  <1>1. Poly!AccumulatorIsExact
    BY DEF PolyInv
  <1>2. ASSUME poly = "idle"
        PROVE  finalize(acc) = ReferenceFinalize(exact) /\ xor_rot2_inv(finalize(acc)) = acc
    <2>1. acc \in Word /\ acc = exact
      <3>1. Poly!Words = Word
        BY KeysAssumption DEF KeysAssumption, Word, Poly!Words, Poly!W
      <3> QED BY <1>1, <1>2, <3>1 DEF PolyInv, Poly!TypeOK, Poly!AccumulatorIsExact
    <2> QED BY <2>1, FinalizeIs, InverseIs
  <1> QED BY <1>1, <1>2 DEF HashIsReference

-----------------------------------------------------------------------------
(* The preparation, and the hashes that use what it leaves. *)

\* Only usable parameters hash, and only while they are in use.
IndInv == TypeOK /\ PrepInv /\ PolyInv /\ ShortInv

\* A step of the preparation.
LEMMA PrepKeeps == ASSUME PrepInv, Prep!Next PROVE PrepInv'
  BY PrepareKeeps, DeriveKeeps, GenerateKeeps, AcceptMultiplierKeeps, ReplaceMultiplierKeeps,
     AcceptOhKeeps, ReplaceOhKeeps, SucceedKeeps, ReturnKeeps DEF Prep!Next

\* The struct is left for another.
LEMMA LeaveKeeps == ASSUME PrepInv, Prepared, Leave PROVE PrepInv'
  <1>1. /\ prep = "idle" /\ prep' = "idle" /\ given' = params' /\ caller' = "user"
        /\ again' = FALSE /\ success' = FALSE /\ UNCHANGED <<buf_idx, i, candidate>>
    BY DEF Prepared, Leave
  <1>2. params' \in Fills
    BY Params DEF Leave
  <1>3. Prep!IsStruct(params)' /\ Prep!IsStruct(given)'
    <2>1. Prep!IsStruct(params')
      BY <1>2, Params
    <2> QED BY <1>1, <2>1 DEF Prep!IsStruct
  <1>4. Prep!TypeOK'
    BY <1>1, <1>3 DEF PrepInv, Prep!TypeOK
  <1>5. Progress' /\ AgainInv' /\ WordsInv'
    BY <1>1 DEF Progress, AgainInv, WordsInv, Prep!WordsAreTheCallers
  <1> QED BY <1>4, <1>5 DEF PrepInv

\* It holds at first,
LEMMA IndInit == Init => IndInv
  <1> SUFFICES ASSUME Init PROVE IndInv
    OBVIOUS
  <1>1. PrepInv /\ PolyInv /\ short = NoInput
    BY PrepInit, PolyInit DEF Init
  <1> QED BY <1>1 DEF IndInv, TypeOK, PrepInv, PolyInv, ShortInv

\* and every step keeps it.
LEMMA IndStep == IndInv /\ [Next]_vars => IndInv'
  <1> SUFFICES ASSUME IndInv, [Next]_vars
               PROVE  PrepInv' /\ PolyInv' /\ TypeOK' /\ ShortInv'
    BY DEF IndInv
  <1>i. PrepInv /\ PolyInv /\ TypeOK /\ ShortInv
    BY DEF IndInv
  <1>1. ASSUME UNCHANGED prepVars PROVE PrepInv'
    <2>1. Prep!TypeOK'
      BY <1>i, <1>1 DEF prepVars, PrepInv, Prep!TypeOK, Prep!IsStruct
    <2>2. Progress' /\ AgainInv'
      BY <1>i, <1>1 DEF prepVars, PrepInv, Progress, AgainInv, Good, Apart, Prep!Usable
    <2>3. PolyChanged' = PolyChanged /\ OhChanged' = OhChanged /\ Spent' = Spent
      BY <1>1 DEF prepVars, PolyChanged, OhChanged, Spent
    <2>4. (\A w : PolyWord(w)' <=> PolyWord(w)) /\ (\A j : OhWord(j)' <=> OhWord(j))
      BY <1>1, <2>3 DEF prepVars, PolyWord, OhWord
    <2>5. Prep!WordsAreTheCallers' <=> Prep!WordsAreTheCallers
      BY <1>1 DEF prepVars, Prep!WordsAreTheCallers
    <2>6. WordsInv'
      BY <1>i, <1>1, <2>3, <2>4, <2>5 DEF prepVars, PrepInv, WordsInv
    <2> QED BY <2>1, <2>2, <2>6 DEF PrepInv
  <1>2. ASSUME UNCHANGED polyVars PROVE PolyInv'
    BY <1>i, <1>2 DEF polyVars, PolyInv, Poly!TypeOK, Poly!AccumulatorIsExact, Poly!HashesInField,
       Poly!split_accumulator_eval
  <1>3. ASSUME UNCHANGED short, PrepInv', PolyInv' PROVE TypeOK' /\ ShortInv'
    BY <1>i, <1>3 DEF TypeOK, PrepInv, PolyInv, ShortInv
  <1>4. ASSUME short' = NoInput, PrepInv', PolyInv' PROVE TypeOK' /\ ShortInv'
    BY <1>4 DEF TypeOK, PrepInv, PolyInv, ShortInv
  <1>5. CASE PrepareParams
    <2>1. Prep!Next /\ UNCHANGED polyVars /\ UNCHANGED short
      BY <1>5 DEF PrepareParams
    <2> QED BY <1>i, <1>2, <1>3, <2>1, PrepKeeps
  <1>6. CASE HashLong
    <2>1. Prepared /\ Leave /\ UNCHANGED short
      BY <1>6 DEF HashLong
    <2>2. PICK which \in 0 .. 1 : Poly!Start(params.poly[which])
      BY <1>6 DEF HashLong
    <2>3. Prep!Usable(params)
      BY <1>i, <2>1 DEF Prepared, PrepInv, Progress
    <2>4. /\ params.poly[which][2] \in 1 .. Poly!Field - 1
          /\ params.poly[which][1]
                = (params.poly[which][2] * params.poly[which][2]) % Poly!Field
      BY <2>3, PrepIsPoly DEF Prep!Usable
    <2>5. PolyInv'
      BY <1>i, <2>2, <2>4, StartKeeps
    <2> QED BY <1>i, <1>3, <2>1, <2>5, LeaveKeeps
  <1>7. CASE HashShort
    <2>1. Prepared /\ Leave /\ UNCHANGED polyVars
      BY <1>7 DEF HashShort
    <2>2. PICK seed \in Seeds, n \in 0 .. WordSize :
              short' = [oh |-> params.oh, seed |-> seed, n |-> n]
      BY <1>7 DEF HashShort
    <2>3. params.oh \in [0 .. OhCount - 1 -> 0 .. Range64 - 1]
      <3>1. Prep!Words = 0 .. Range64 - 1
        BY KeysAssumption DEF KeysAssumption, Prep!Words, Prep!W
      <3> QED BY <1>i, <3>1 DEF PrepInv, Prep!TypeOK, Prep!IsStruct
    <2>4. PrepInv' /\ PolyInv'
      BY <1>i, <1>2, <2>1, LeaveKeeps
    <2>5. DistinctWords(params.oh)
      <3>1. Prep!Usable(params)
        BY <1>i, <2>1 DEF Prepared, PrepInv, Progress
      <3> QED BY <3>1 DEF Prep!Usable, DistinctWords
    <2>6. ShortInv'
      BY <2>2, <2>5 DEF ShortInv
    <2> QED BY <2>2, <2>3, <2>4, <2>6 DEF TypeOK, PrepInv, PolyInv
  <1>8. CASE ReturnShort
    <2>1. short' = NoInput /\ UNCHANGED prepVars /\ UNCHANGED polyVars
      BY <1>8 DEF ReturnShort
    <2> QED BY <1>1, <1>2, <1>4, <2>1
  <1>9. CASE AbsorbBlock
    <2>1. Poly!Absorb /\ UNCHANGED prepVars /\ UNCHANGED short
      BY <1>9 DEF AbsorbBlock
    <2> QED BY <1>i, <1>1, <1>3, <2>1, AbsorbKeeps
  <1>10. CASE UNCHANGED vars
    <2>1. UNCHANGED prepVars /\ UNCHANGED polyVars /\ UNCHANGED short
      BY <1>10 DEF vars
    <2> QED BY <1>1, <1>2, <1>3, <2>1
  <1> QED BY <1>5, <1>6, <1>7, <1>8, <1>9, <1>10 DEF Next

\* Parameters are prepared word by word, and what hashes with them is exact.
THEOREM KeysInvariant == Spec => []IndInv
  BY IndInit, IndStep, PTL DEF Spec

\* What is said to be prepared is usable: multipliers that are not 0 in the field
\* with their squares, and distinct OH words (umash.c:1016, 1036; umash.h:205).
THEOREM PreparedIsUsable == Spec => []SuccessIsUsable
  <1>1. IndInv => SuccessIsUsable
    BY DEF IndInv, PrepInv, Progress, SuccessIsUsable, Prep!SuccessIsUsable
  <1> QED BY <1>1, KeysInvariant, PTL

\* "When it succeeds, this function is idempotent" (umash.h:208).
THEOREM PreparationIsIdempotent == Spec => []Idempotent
  <1>1. IndInv => Idempotent
    BY DEF IndInv, PrepInv, AgainInv, Idempotent, Prep!Idempotent
  <1> QED BY <1>1, KeysInvariant, PTL

\* A word is only replaced when it is bad, and then by a spare word used once.
THEOREM PreparationKeepsWords == Spec => []WordsAreTheCallers
  <1>1. IndInv => WordsAreTheCallers
    BY DEF IndInv, PrepInv, WordsInv, WordsAreTheCallers
  <1> QED BY <1>1, KeysInvariant, PTL

\* The accumulator, delayed or not, is the reference's (umash_reference.py:1193-1220).
THEOREM AccumulatorIsReference == Spec => []Poly!AccumulatorIsExact
  <1>1. IndInv => Poly!AccumulatorIsExact
    BY DEF IndInv, PolyInv
  <1> QED BY <1>1, KeysInvariant, PTL

\* So the hash of a long input is the reference's, and the inverse of the tests
\* finds the accumulator in it (umash.c:781; t/test_finalize.py:38).
THEOREM HashMatchesReference == Spec => []HashIsReference
  <1>1. IndInv => HashIsReference
    BY HashIs DEF IndInv
  <1> QED BY <1>1, KeysInvariant, PTL

\* Delaying the reduction does not change the value in the field
\* (umash_reference.py:1212).
THEOREM ValueIsInField == Spec => []HashesInField
  <1>1. IndInv => HashesInField
    BY DEF IndInv, PolyInv, HashesInField
  <1> QED BY <1>1, KeysInvariant, PTL

\* Short inputs get the reference's two hashes (t/test_umash_short.py,
\* t/test_umash_fprint.py), for words of any width.
THEOREM ShortHashIsReference == Spec => []ShortIsReference
  <1>1. IndInv => ShortIsReference
    <2> SUFFICES ASSUME IndInv, short # NoInput, NEW buf \in Buffers(short.n), NEW w \in 0 .. 1
                 PROVE  LET hash == umash_fp_short(short.oh, short.seed, buf)[w]
                        IN  /\ hash = Reference(short.oh, short.seed, buf, w = 1)
                            /\ hash = umash_short(short.oh, w * OH_SHORT_HASH_SHIFT, short.seed, buf)
      BY Zenon DEF ShortIsReference
    <2>1. PICK n, oh, seed : n \in 0 .. WordSize /\ n = short.n /\ oh = short.oh /\ seed = short.seed
      BY DEF IndInv, TypeOK
    <2> QED BY <2>1, ShortHashes
  <1> QED BY <1>1, KeysInvariant, PTL

\* Short inputs of the same size never have the same hash, those of two sizes have
\* it for one value of one word of the key, and the two hashes of an input differ
\* (umash_reference.py:927-932).
THEOREM ShortCollisionsAreChance == Spec => []ShortCollisionIsChance
  <1>1. IndInv => ShortCollisionIsChance
    BY CollisionIsChance DEF IndInv
  <1> QED BY <1>1, KeysInvariant, PTL

=============================================================================
