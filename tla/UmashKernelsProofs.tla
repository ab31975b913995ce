-------------------------- MODULE UmashKernelsProofs --------------------------
(***************************************************************************)
(* Facts about the values of an OH block: how one more chunk changes each  *)
(* accumulator, and that the kernels of umash.c agree with the reference.  *)
(***************************************************************************)
EXTENDS UmashKernels, TLAPS

-----------------------------------------------------------------------------
(* Arithmetic of the geometry. *)

\* The sizes of umash.c that the other lemmas use: words, chunks, blocks and the OH key.
LEMMA Geometry ==
    /\ WordSize \in Nat /\ WordSize >= 1
    /\ ChunkSize \in Nat /\ ChunkSize = 2 * WordSize /\ ChunkSize >= 2
    /\ BlockChunks \in Nat /\ BlockChunks >= 2
    /\ OhParamCount \in Nat /\ OhParamCount = 2 * BlockChunks
    /\ BlockBytes \in Nat /\ BlockBytes = OhParamCount * WordSize
    /\ BlockBytes >= 2 * ChunkSize
    /\ ShortHashShift \in Nat
  <1>1. WordSize \in Nat /\ WordSize >= 1 /\ ChunkSize = 2 * WordSize
    BY GeometryAssumption
  <1>2. BlockChunks \in Nat /\ BlockChunks >= 2 /\ ShortHashShift \in Nat
    BY GeometryAssumption
  <1>3. OhParamCount = 2 * BlockChunks
    BY DEF OhParamCount
  <1>4. BlockBytes = BlockChunks * ChunkSize
    BY GeometryAssumption
  <1>5. BlockBytes = OhParamCount * WordSize
    BY <1>1, <1>2, <1>3, <1>4
  <1>6. BlockBytes >= 2 * ChunkSize
    BY <1>1, <1>2, <1>4
  <1> QED
    BY <1>1, <1>2, <1>3, <1>4, <1>5, <1>6

\* The quotient is the only one that fits.
LEMMA DivisionIsUnique ==
    ASSUME NEW m \in Nat \ {0}, NEW q \in Int, NEW r \in 0 .. m - 1
    PROVE  (q * m + r) \div m = q /\ (q * m + r) % m = r
  OBVIOUS

\* The quotient and the remainder of a natural number.
LEMMA Division ==
    ASSUME NEW m \in Nat \ {0}, NEW x \in Nat
    PROVE  x \div m \in Nat /\ x % m \in 0 .. m - 1 /\ x = (x \div m) * m + (x % m)
  <1>1. x % m \in 0 .. m - 1
    OBVIOUS
  <1>2. x \div m \in Int
    OBVIOUS
  <1>3. x = (x \div m) * m + (x % m)
    OBVIOUS
  <1>4. x \div m >= 0
    <2> SUFFICES ASSUME x \div m < 0 PROVE FALSE
      BY <1>2
    <2>1. (x \div m) * m <= -m
      BY <1>2
    <2> QED
      BY <1>1, <1>2, <1>3, <2>1
  <1> QED
    BY <1>1, <1>2, <1>3, <1>4

\* Of two multiples of m, the larger is at least m away.
LEMMA MultiplesApart ==
    ASSUME NEW m \in Nat, NEW a \in Int, NEW b \in Int, a < b
    PROVE  a * m + m <= b * m
  <1>1. (b - a) * m >= m
    OBVIOUS
  <1>2. b * m = (b - a) * m + a * m
    OBVIOUS
  <1> QED
    BY <1>1, <1>2

\* A full block wraps to a size of 0, and any shorter one is itself.
LEMMA U8Values ==
    /\ U8(0) = 0
    /\ U8(BlockBytes) = 0
    /\ \A x \in 0 .. BlockBytes - 1 : U8(x) = x
  BY Geometry DEF U8

\* A full block has all the pairs of the key.
LEMMA FullBlockPairs == end_full_pairs(BlockBytes) = OhParamCount - 2
  <1>1. BlockBytes - 1 = (BlockChunks - 1) * ChunkSize + (ChunkSize - 1)
    BY Geometry, GeometryAssumption
  <1>2. (BlockBytes - 1) % ChunkSize = ChunkSize - 1
    BY <1>1, Geometry, DivisionIsUnique
  <1>3. BlockBytes - ChunkSize = (OhParamCount - 2) * WordSize + 0
    BY Geometry
  <1>4. (BlockBytes - ChunkSize) \div WordSize = OhParamCount - 2
    BY <1>3, Geometry, DivisionIsUnique
  <1> QED
    BY <1>2, <1>4, Geometry DEF end_full_pairs, remaining
-----------------------------------------------------------------------------
(* One chunk more. *)

\* Absorbing one more full chunk adds its PH term: sink_consume_buf's first loop body.
LEMMA PHStep ==
    ASSUME NEW p \in Int, NEW k \in Nat, k % 2 = 0
    PROVE  Xor(PHTerms(p, k), {Term(PHOf(p, k), 0)}) = PHTerms(p, k + 2)
  <1>1. Pairs(k + 2) = Pairs(k) \union {k} /\ k \notin Pairs(k)
    BY DEF Pairs
  <1>2. \A i, j : Term(PHOf(p, i), 0) = Term(PHOf(p, j), 0) => i = j
    BY DEF Term, PHOf, PH
  <1> QED
    BY <1>1, <1>2 DEF Xor, PHTerms

\* The last chunk adds its own masked halves to the checksum, and cancels nothing.
LEMMA LrcLast ==
    ASSUME NEW p \in Int, NEW k \in Nat, k <= OhParamCount - 2, NEW chunk
    PROVE  Xor(LrcTerms(p, k), {Mixed(k, chunk)}) = LrcTerms(p, k) \union {Mixed(k, chunk)}
  <1>1. Mixed(k, chunk) # TwistToken
    BY Geometry DEF Mixed, TwistToken
  <1>2. \A i \in Pairs(k) : Mixed(i, ChunkOfPair(p, i)) # Mixed(k, chunk)
    BY DEF Mixed, Pairs
  <1> QED
    BY <1>1, <1>2, Zenon DEF Xor, LrcTerms

\* Absorbing one more full chunk adds its masked halves to the LRC checksum.
LEMMA LrcStep ==
    ASSUME NEW p \in Int, NEW k \in Nat, k % 2 = 0, k <= OhParamCount - 2
    PROVE  Xor(LrcTerms(p, k), {Mixed(k, ChunkOfPair(p, k))}) = LrcTerms(p, k + 2)
  <1>1. Pairs(k + 2) = Pairs(k) \union {k}
    BY DEF Pairs
  <1>2. LrcTerms(p, k + 2) = LrcTerms(p, k) \union {Mixed(k, ChunkOfPair(p, k))}
    BY <1>1, Zenon DEF LrcTerms
  <1> QED
    BY <1>2, LrcLast

\* Products of different chunks, and products shifted differently, are different.
LEMMA TermsDiffer ==
    ASSUME NEW p, NEW i, NEW j, NEW s, NEW t
    PROVE  /\ Term(PHOf(p, i), s) = Term(PHOf(p, j), t) <=> i = j /\ s = t
           /\ Term(PHOf(p, i), s).term = PHOf(p, i)
           /\ Term(PHOf(p, i), s).by = s
  <1>1. PHOf(p, i) = PHOf(p, j) => i = j
    BY DEF PHOf, PH
  <1>2. i = j => PHOf(p, i) = PHOf(p, j)
    OBVIOUS
  <1> HIDE DEF PHOf
  <1> QED
    BY <1>1, <1>2 DEF Term

\* Shifting the twisted accumulator after adding the previous PH term keeps the
\* shuffled sum of the chunks seen so far (twist.acc and twist.prev).
LEMMA TwistStep ==
    ASSUME NEW p \in Int, NEW k \in Nat, k % 2 = 0
    PROVE  Shift(Xor(TwistTerms(p, k), PrevTerms(p, k))) = TwistTerms(p, k + 2)
  <1>1. CASE k = 0
    <2>1. Pairs(k) = {} /\ Pairs(k - 2) = {} /\ k + 2 - 2 = k
      BY <1>1 DEF Pairs
    <2> QED
      BY <1>1, <2>1 DEF TwistTerms, PrevTerms, Shift, Xor
  <1>2. CASE k # 0
    <2>1. Pairs(k) = Pairs(k - 2) \union {k - 2}
      BY <1>2 DEF Pairs
    <2>2. \A i \in Pairs(k - 2) : (k - 2 - i) \div 2 + 1 = (k - i) \div 2
                                  /\ (k - 2 - i) \div 2 # 0
      BY <1>2 DEF Pairs
    <2>3. (k - (k - 2)) \div 2 = 1
      OBVIOUS
    <2>4. PrevTerms(p, k) = {Term(PHOf(p, k - 2), 0)}
      BY <1>2 DEF PrevTerms
    <2>5. Term(PHOf(p, k - 2), 0) \notin TwistTerms(p, k)
      BY <2>2, TermsDiffer DEF TwistTerms
    <2>6. Xor(TwistTerms(p, k), PrevTerms(p, k))
            = TwistTerms(p, k) \union {Term(PHOf(p, k - 2), 0)}
      BY <2>4, <2>5 DEF Xor
    <2>7. Shift(TwistTerms(p, k)) = {Term(PHOf(p, i), (k - i) \div 2) : i \in Pairs(k - 2)}
      <3> DEFINE e(i) == Term(PHOf(p, i), (k - 2 - i) \div 2)
      <3>1. \A i \in Pairs(k - 2) :
                Term(e(i).term, e(i).by + 1) = Term(PHOf(p, i), (k - i) \div 2)
        BY <2>2, TermsDiffer
      <3>2. TwistTerms(p, k) = {e(i) : i \in Pairs(k - 2)}
        BY DEF TwistTerms
      <3> HIDE DEF e
      <3> QED
        BY <3>1, <3>2 DEF Shift
    <2>8. Shift({Term(PHOf(p, k - 2), 0)}) = {Term(PHOf(p, k - 2), 1)}
      BY TermsDiffer DEF Shift
    <2>9. Shift(TwistTerms(p, k) \union {Term(PHOf(p, k - 2), 0)})
            = Shift(TwistTerms(p, k)) \union Shift({Term(PHOf(p, k - 2), 0)})
      BY DEF Shift
    <2>10. TwistTerms(p, k + 2) = {Term(PHOf(p, i), (k - i) \div 2) : i \in Pairs(k)}
      <3>1. k + 2 - 2 = k
        OBVIOUS
      <3> QED
        BY <3>1 DEF TwistTerms
    <2> QED
      BY <2>1, <2>3, <2>6, <2>7, <2>8, <2>9, <2>10
  <1> QED
    BY <1>1, <1>2

\* At the end of a block, everything is shifted once more, and joined by the
\* products of the LRC and of the last chunk.
LEMMA TwistLast ==
    ASSUME NEW p \in Int, NEW k \in Nat, k % 2 = 0, NEW chunk, NEW tag
    PROVE  LET lrc == {Term(PHLrc(LrcTerms(p, k) \union {Mixed(k, chunk)}), 0)}
               enh == {Term(ENH(k, chunk, tag), 0)}
           IN  Xor(Xor(Shift(Xor(PHTerms(p, k), TwistTerms(p, k))), lrc), enh)
                 = OhTwisted(tag, p, k, chunk)
  <1> DEFINE lrc == PHLrc(LrcTerms(p, k) \union {Mixed(k, chunk)})
             enh == ENH(k, chunk, tag)
             once == {Term(PHOf(p, i), 1) : i \in Pairs(k)}
             shifted == {Term(PHOf(p, i), (k - i) \div 2) : i \in Pairs(k - 2)}
             x == once \union shifted
  <1>1. \A i \in Pairs(k - 2) : (k - 2 - i) \div 2 + 1 = (k - i) \div 2
                                /\ (k - 2 - i) \div 2 # 0
    BY DEF Pairs
  <1>2. PHTerms(p, k) \intersect TwistTerms(p, k) = {}
    BY <1>1, TermsDiffer DEF PHTerms, TwistTerms
  <1>3. Xor(PHTerms(p, k), TwistTerms(p, k)) = PHTerms(p, k) \union TwistTerms(p, k)
    BY <1>2 DEF Xor
  <1>4. Shift(TwistTerms(p, k)) = shifted
    <2> DEFINE e(i) == Term(PHOf(p, i), (k - 2 - i) \div 2)
    <2>1. \A i \in Pairs(k - 2) :
              Term(e(i).term, e(i).by + 1) = Term(PHOf(p, i), (k - i) \div 2)
      BY <1>1, TermsDiffer
    <2>2. TwistTerms(p, k) = {e(i) : i \in Pairs(k - 2)}
      BY DEF TwistTerms
    <2> HIDE DEF e
    <2> QED
      BY <2>1, <2>2 DEF Shift
  <1>5. Shift(PHTerms(p, k)) = once
    <2> DEFINE e(i) == Term(PHOf(p, i), 0)
    <2>1. \A i \in Pairs(k) : Term(e(i).term, e(i).by + 1) = Term(PHOf(p, i), 1)
      BY TermsDiffer
    <2>2. PHTerms(p, k) = {e(i) : i \in Pairs(k)}
      BY DEF PHTerms
    <2> HIDE DEF e
    <2> QED
      BY <2>1, <2>2 DEF Shift
  <1>6. Shift(PHTerms(p, k) \union TwistTerms(p, k)) = x
    <2>1. Shift(PHTerms(p, k) \union TwistTerms(p, k))
            = Shift(PHTerms(p, k)) \union Shift(TwistTerms(p, k))
      BY DEF Shift
    <2> QED
      BY <2>1, <1>4, <1>5
  <1>7. /\ Term(lrc, 0) # Term(enh, 0)
        /\ \A i, s : Term(PHOf(p, i), s) # Term(lrc, 0)
        /\ \A i, s : Term(PHOf(p, i), s) # Term(enh, 0)
    <2>1. lrc # enh /\ \A i : PHOf(p, i) # lrc /\ PHOf(p, i) # enh
      <3> DEFINE tokens == LrcTerms(p, k) \union {Mixed(k, chunk)}
      <3> HIDE DEF tokens
      <3>1. PHLrc(tokens) # enh
        BY DEF PHLrc, ENH
      <3>2. \A i : PHOf(p, i) # PHLrc(tokens) /\ PHOf(p, i) # enh
        BY DEF PHOf, PH, PHLrc, ENH
      <3> QED
        BY <3>1, <3>2 DEF tokens
    <2> HIDE DEF lrc, enh
    <2> QED
      BY <2>1 DEF Term
  <1>8. Term(lrc, 0) \notin x /\ Term(enh, 0) \notin x
    <2> HIDE DEF lrc, enh
    <2> QED
      BY <1>7
  <1>9. Xor(Xor(x, {Term(lrc, 0)}), {Term(enh, 0)}) = x \union {Term(lrc, 0), Term(enh, 0)}
    <2> HIDE DEF lrc, enh, x
    <2> QED
      BY <1>7, <1>8 DEF Xor
  <1>10. OhTwisted(tag, p, k, chunk) = x \union {Term(lrc, 0), Term(enh, 0)}
    BY DEF OhTwisted
  <1> QED
    BY <1>3, <1>6, <1>9, <1>10

\* The last chunk joins the products of the others.
LEMMA OhLast ==
    ASSUME NEW p \in Int, NEW k \in Nat, NEW chunk, NEW tag
    PROVE  Xor(PHTerms(p, k), {Term(ENH(k, chunk, tag), 0)}) = OhValue(tag, p, k, chunk)
  <1>1. \A i : PHOf(p, i) # ENH(k, chunk, tag)
    BY DEF PHOf, PH, ENH
  <1>2. Term(ENH(k, chunk, tag), 0) \notin PHTerms(p, k)
    BY <1>1 DEF PHTerms, Term
  <1> QED
    BY <1>2 DEF Xor, OhValue
-----------------------------------------------------------------------------
(* The reference's value of a block. *)

\* A pair index is twice a chunk's.
LEMMA PairsAreChunks ==
    ASSUME NEW k \in Nat
    PROVE  /\ Pairs(2 * k) = {2 * i : i \in 0 .. k - 1}
           /\ Pairs(2 * k - 2) = {2 * i : i \in 0 .. k - 2}
  <1>1. \A x \in Int : x % 2 = 0 => x = 2 * (x \div 2) /\ x \div 2 \in Int
    OBVIOUS
  <1>2. \A x \in 0 .. 2 * k - 1 : x \div 2 \in 0 .. k - 1
    OBVIOUS
  <1>3. \A x \in 0 .. 2 * k - 3 : x \div 2 \in 0 .. k - 2
    OBVIOUS
  <1>4. \A i \in Int : (2 * i) % 2 = 0
    OBVIOUS
  <1>5. Pairs(2 * k) = {2 * i : i \in 0 .. k - 1}
    BY <1>1, <1>2, <1>4 DEF Pairs
  <1>6. Pairs(2 * k - 2) = {2 * i : i \in 0 .. k - 2}
    <2>1. (2 * k - 2) - 1 = 2 * k - 3
      OBVIOUS
    <2> QED
      BY <1>1, <1>3, <1>4, <2>1 DEF Pairs
  <1> QED
    BY <1>5, <1>6

\* What the reference knows of block b of n bytes, whose last chunk is its k-th.
LastChunkIs(n, b, k) ==
    /\ b * BlockBytes + k * ChunkSize < n
    /\ k + 1 < BlockChunks => n <= b * BlockBytes + (k + 1) * ChunkSize

\* The chunks of a block of the reference when chunk k is its last one: their
\* number, their positions and the shift each of them gets.
LEMMA ChunksOfBlock ==
    ASSUME NEW n \in Nat, n >= ChunkSize, NEW b \in Nat,
           NEW k \in 0 .. BlockChunks - 1, LastChunkIs(n, b, k)
    PROVE  /\ ChunksOf(n, b) = 0 .. k
           /\ \A i \in Int : IsLastOf(n, b, i) <=> i = k
           /\ \A i \in 0 .. k - 1 :
                ChunkAt(n, b * BlockChunks + i) = ChunkOfPair(b * BlockBytes, 2 * i)
           /\ \A i \in 0 .. k : ShiftOf(n, b, i) = k - i
  <1>1. \A i \in Int : i < k => i * ChunkSize + ChunkSize <= k * ChunkSize
    BY Geometry, MultiplesApart
  <1>2. \A i \in Int : i > k => (k + 1) * ChunkSize <= i * ChunkSize
    <2> SUFFICES ASSUME NEW i \in Int, i > k
                 PROVE  (k + 1) * ChunkSize <= i * ChunkSize
      OBVIOUS
    <2>1. k * ChunkSize + ChunkSize <= i * ChunkSize
      BY Geometry, MultiplesApart
    <2>2. (k + 1) * ChunkSize = k * ChunkSize + ChunkSize
      BY Geometry
    <2> QED
      BY <2>1, <2>2
  <1> DEFINE start == b * BlockBytes
  <1>3. start \in Int /\ \A i \in Int : i * ChunkSize \in Int
    BY Geometry
  <1>4. ChunksOf(n, b) = 0 .. k
    <2>1. \A i \in 0 .. k : start + i * ChunkSize < n
      BY <1>1, <1>3, Geometry DEF LastChunkIs
    <2>2. \A i \in k + 1 .. BlockChunks - 1 : ~ (start + i * ChunkSize < n)
      BY <1>2, <1>3, Geometry DEF LastChunkIs
    <2> HIDE DEF start
    <2>3. ChunksOf(n, b) = {i \in 0 .. BlockChunks - 1 : start + i * ChunkSize < n}
      BY DEF ChunksOf, start
    <2>4. \A i \in 0 .. BlockChunks - 1 : start + i * ChunkSize < n <=> i \in 0 .. k
      BY <2>1, <2>2, Geometry
    <2>5. 0 .. k \subseteq 0 .. BlockChunks - 1
      BY Geometry
    <2> QED
      BY <2>3, <2>4, <2>5
  <1>5. \A i \in Int : IsLastOf(n, b, i) <=> i = k
    BY <1>4 DEF IsLastOf
  <1>6. \A i \in 0 .. k - 1 :
            ChunkAt(n, b * BlockChunks + i) = ChunkOfPair(b * BlockBytes, 2 * i)
    <2> SUFFICES ASSUME NEW i \in 0 .. k - 1
                 PROVE  ChunkAt(n, b * BlockChunks + i) = ChunkOfPair(start, 2 * i)
      OBVIOUS
    <2>1. (b * BlockChunks + i) * ChunkSize = start + i * ChunkSize
      BY Geometry, GeometryAssumption
    <2>2. 2 * i * WordSize = i * ChunkSize
      BY Geometry
    <2>3. start + i * ChunkSize + ChunkSize <= n
      BY <1>1, <1>3, Geometry DEF LastChunkIs
    <2> HIDE DEF start
    <2> QED
      BY <2>1, <2>2, <2>3, Geometry DEF ChunkAt, ChunkOfPair
  <1>7. \A i \in 0 .. k : ShiftOf(n, b, i) = k - i
    <2> SUFFICES ASSUME NEW i \in 0 .. k
                 PROVE  ShiftOf(n, b, i) = k - i
      OBVIOUS
    <2>1. \A s \in 0 .. BlockChunks - 1 : IsLastOf(n, b, i + s) <=> s = k - i
      BY <1>5
    <2>2. k - i \in 0 .. BlockChunks - 1
      BY Geometry
    <2> QED
      BY <2>1, <2>2 DEF ShiftOf
  <1> QED
    BY <1>4, <1>5, <1>6, <1>7

\* The reference value of a block whose last chunk is chunk k, in the closed form
\* that the incremental code reaches.
LEMMA ReferenceBlock ==
    ASSUME NEW n \in Nat, n >= ChunkSize, NEW b \in Nat,
           NEW k \in 0 .. BlockChunks - 1, LastChunkIs(n, b, k)
    PROVE  /\ oh_compress_one_block(n, b, FALSE)
                = OhValue(BlockSizeOf(n, b) % BlockBytes, b * BlockBytes, 2 * k,
                          ChunkAt(n, b * BlockChunks + k))
           /\ oh_compress_one_block(n, b, TRUE)
                = OhTwisted(BlockSizeOf(n, b) % BlockBytes, b * BlockBytes, 2 * k,
                            ChunkAt(n, b * BlockChunks + k))
  <1> DEFINE tag == BlockSizeOf(n, b) % BlockBytes
             last == ChunkAt(n, b * BlockChunks + k)
             p == b * BlockBytes
             enh == ENH(2 * k, last, tag)
  <1>0. k \in Nat
    BY Geometry
  <1>1. /\ ChunksOf(n, b) = 0 .. k
        /\ \A i \in 0 .. k : IsLastOf(n, b, i) <=> i = k
        /\ \A i \in 0 .. k - 1 :
             ChunkAt(n, b * BlockChunks + i) = ChunkOfPair(p, 2 * i)
        /\ \A i \in 0 .. k : ShiftOf(n, b, i) = k - i
    BY ChunksOfBlock
  <1>2. \A i \in 0 .. k - 1 : MixedChunk(n, b, i) = PHOf(p, 2 * i)
    BY <1>1 DEF MixedChunk, PHOf
  <1>3. MixedChunk(n, b, k) = enh
    BY <1>1 DEF MixedChunk
  <1>4. LrcOf(n, b) = LrcTerms(p, 2 * k) \union {Mixed(2 * k, last)}
    <2> DEFINE m(i) == Mixed(2 * i, ChunkAt(n, b * BlockChunks + i))
    <2>1. LrcOf(n, b) = {m(i) : i \in 0 .. k} \union {TwistToken}
      BY <1>1 DEF LrcOf
    <2>2. 0 .. k = (0 .. k - 1) \union {k}
      OBVIOUS
    <2>3. {m(i) : i \in 0 .. k} = {m(i) : i \in 0 .. k - 1} \union {m(k)}
      BY <2>2
    <2>4. {m(i) : i \in 0 .. k - 1}
            = {Mixed(i, ChunkOfPair(p, i)) : i \in {2 * j : j \in 0 .. k - 1}}
      <3>1. \A i \in 0 .. k - 1 : m(i) = Mixed(2 * i, ChunkOfPair(p, 2 * i))
        BY <1>1
      <3> QED
        BY <3>1
    <2>5. LrcTerms(p, 2 * k) = {m(i) : i \in 0 .. k - 1} \union {TwistToken}
      BY <2>4, PairsAreChunks DEF LrcTerms
    <2> QED
      BY <2>1, <2>3, <2>5
  <1>5. 0 .. k = (0 .. k - 1) \union {k}
    OBVIOUS
  <1>6. oh_compress_one_block(n, b, FALSE) = OhValue(tag, p, 2 * k, last)
    <2> DEFINE t(i) == Term(MixedChunk(n, b, i), 0)
    <2>1. oh_compress_one_block(n, b, FALSE) = {t(i) : i \in 0 .. k}
      BY <1>1 DEF oh_compress_one_block
    <2>2. {t(i) : i \in 0 .. k} = {t(i) : i \in 0 .. k - 1} \union {t(k)}
      BY <1>5
    <2>3. {t(i) : i \in 0 .. k - 1} = PHTerms(p, 2 * k)
      <3>1. PHTerms(p, 2 * k) = {Term(PHOf(p, 2 * i), 0) : i \in 0 .. k - 1}
        BY PairsAreChunks DEF PHTerms
      <3> QED
        BY <3>1, <1>2
    <2>4. t(k) = Term(enh, 0)
      BY <1>3
    <2> QED
      BY <2>1, <2>2, <2>3, <2>4 DEF OhValue
  <1>7. oh_compress_one_block(n, b, TRUE) = OhTwisted(tag, p, 2 * k, last)
    <2> DEFINE sh(i) == shuffle(MixedChunk(n, b, i), ShiftOf(n, b, i))
               lrc == Term(PHLrc(LrcOf(n, b)), 0)
               once == {Term(PHOf(p, 2 * i), 1) : i \in 0 .. k - 1}
               shifted == {Term(PHOf(p, 2 * i), k - i) : i \in 0 .. k - 2}
    <2>1. oh_compress_one_block(n, b, TRUE) = {lrc} \union UNION {sh(i) : i \in 0 .. k}
      BY <1>1 DEF oh_compress_one_block
    <2>2. sh(k) = {Term(enh, 0)}
      BY <1>1, <1>3 DEF shuffle
    <2>3. \A i \in 0 .. k - 2 : sh(i) = {Term(PHOf(p, 2 * i), k - i), Term(PHOf(p, 2 * i), 1)}
      BY <1>1, <1>2 DEF shuffle
    <2>4. k > 0 => sh(k - 1) = {Term(PHOf(p, 2 * (k - 1)), 1)}
      BY <1>1, <1>2 DEF shuffle
    <2>5. UNION {sh(i) : i \in 0 .. k} = once \union shifted \union {Term(enh, 0)}
      <3> HIDE DEF sh, enh
      <3> SUFFICES ASSUME NEW x
                   PROVE  (x \in UNION {sh(i) : i \in 0 .. k})
                            <=> (x \in once \/ x \in shifted \/ x = Term(enh, 0))
        OBVIOUS
      <3> DEFINE low1 == \E i \in 0 .. k - 2 : x = Term(PHOf(p, 2 * i), 1)
                 low == \E i \in 0 .. k - 2 : x = Term(PHOf(p, 2 * i), k - i)
                 high == k > 0 /\ x = Term(PHOf(p, 2 * (k - 1)), 1)
      <3>1. (x \in UNION {sh(i) : i \in 0 .. k})
                <=> \/ x \in sh(k)
                    \/ k > 0 /\ x \in sh(k - 1)
                    \/ \E i \in 0 .. k - 2 : x \in sh(i)
        OBVIOUS
      <3>2. (x \in once) <=> high \/ low1
        OBVIOUS
      <3>3. (x \in shifted) <=> low
        OBVIOUS
      <3>4. (x \in sh(k)) <=> x = Term(enh, 0)
        BY <2>2
      <3>5. (k > 0 /\ x \in sh(k - 1)) <=> high
        BY <2>4
      <3>6. (\E i \in 0 .. k - 2 : x \in sh(i)) <=> low1 \/ low
        BY <2>3
      <3> HIDE DEF once, shifted, low1, low, high
      <3> QED
        BY <3>1, <3>2, <3>3, <3>4, <3>5, <3>6
    <2>6. {Term(PHOf(p, i), 1) : i \in Pairs(2 * k)} = once
      <3>1. Pairs(2 * k) = {2 * i : i \in 0 .. k - 1}
        BY <1>0, PairsAreChunks
      <3> QED
        BY <3>1
    <2>7. {Term(PHOf(p, i), (2 * k - i) \div 2) : i \in Pairs(2 * k - 2)} = shifted
      <3>1. \A i \in 0 .. k - 2 : (2 * k - 2 * i) \div 2 = k - i
        OBVIOUS
      <3>2. Pairs(2 * k - 2) = {2 * i : i \in 0 .. k - 2}
        BY <1>0, PairsAreChunks
      <3>3. {Term(PHOf(p, i), (2 * k - i) \div 2) : i \in {2 * j : j \in 0 .. k - 2}}
                = {Term(PHOf(p, 2 * j), (2 * k - 2 * j) \div 2) : j \in 0 .. k - 2}
        OBVIOUS
      <3> QED
        BY <3>1, <3>2, <3>3
    <2>8. lrc = Term(PHLrc(LrcTerms(p, 2 * k) \union {Mixed(2 * k, last)}), 0)
      BY <1>4
    <2>9. OhTwisted(tag, p, 2 * k, last) = shifted \union once \union {lrc, Term(enh, 0)}
      BY <2>6, <2>7, <2>8 DEF OhTwisted
    <2> HIDE DEF lrc, enh, once, shifted, sh
    <2> QED
      BY <2>1, <2>5, <2>9
  <1> QED
    BY <1>6, <1>7

-----------------------------------------------------------------------------
(* Whole messages. *)

\* A full block of the reference is what the kernels compute for it.
LEMMA FullBlock ==
    ASSUME NEW n \in Nat, NEW b \in Nat, b * BlockBytes + BlockBytes <= n
    PROVE  /\ oh_compress_one_block(n, b, FALSE)
                = oh_varblock(0, b * BlockBytes, BlockBytes)
           /\ oh_compress_one_block(n, b, TRUE)
                = oh_varblock_fprint(0, b * BlockBytes, BlockBytes)[2]
  <1> DEFINE k == BlockChunks - 1
             p == b * BlockBytes
  <1>1. k \in 0 .. BlockChunks - 1 /\ n >= ChunkSize /\ p \in Nat
    BY Geometry
  <1>2. k * ChunkSize + ChunkSize = BlockBytes
    BY Geometry, GeometryAssumption
  <1>3. LastChunkIs(n, b, k)
    BY <1>1, <1>2, Geometry DEF LastChunkIs
  <1>4. BlockSizeOf(n, b) % BlockBytes = 0
    <2>1. (b + 1) * BlockBytes <= n
      BY Geometry
    <2> QED
      BY <2>1, U8Values DEF BlockSizeOf, U8
  <1>5. ChunkAt(n, b * BlockChunks + k) = LastChunk(p, BlockBytes)
    <2>1. (b * BlockChunks + k) * ChunkSize = p + BlockBytes - ChunkSize
      BY <1>2, Geometry, GeometryAssumption
    <2>2. (b * BlockChunks + k) * ChunkSize + ChunkSize <= n
      BY <2>1, <1>1, Geometry
    <2> HIDE DEF p
    <2> QED
      BY <2>1, <2>2, <1>1, Geometry DEF ChunkAt, LastChunk
  <1>6. 2 * k = OhParamCount - 2 /\ end_full_pairs(BlockBytes) = OhParamCount - 2
    BY Geometry, FullBlockPairs
  <1> HIDE DEF k
  <1>7. /\ oh_compress_one_block(n, b, FALSE)
            = OhValue(0, p, 2 * k, LastChunk(p, BlockBytes))
        /\ oh_compress_one_block(n, b, TRUE)
            = OhTwisted(0, p, 2 * k, LastChunk(p, BlockBytes))
    <2>1. /\ oh_compress_one_block(n, b, FALSE)
                = OhValue(BlockSizeOf(n, b) % BlockBytes, p, 2 * k,
                          ChunkAt(n, b * BlockChunks + k))
          /\ oh_compress_one_block(n, b, TRUE)
                = OhTwisted(BlockSizeOf(n, b) % BlockBytes, p, 2 * k,
                            ChunkAt(n, b * BlockChunks + k))
      BY <1>1, <1>3, ReferenceBlock, Zenon
    <2> QED
      BY <2>1, <1>4, <1>5
  <1> QED
    BY <1>6, <1>7 DEF oh_varblock, oh_varblock_fprint

\* The last block of n bytes is the b-th, and size bytes follow its k chunks.
EndsAt(n, b, k, size) ==
    /\ n \in Nat /\ n >= ChunkSize
    /\ b \in Nat /\ k \in 0 .. BlockChunks - 1 /\ size \in 1 .. ChunkSize
    /\ n = b * BlockBytes + k * ChunkSize + size
    /\ n <= b * BlockBytes + BlockBytes

\* What the reference makes of that block.
LEMMA EndBlock ==
    ASSUME NEW n, NEW b, NEW k, NEW size, EndsAt(n, b, k, size)
    PROVE  /\ oh_compress_one_block(n, b, FALSE)
                = OhValue(U8(k * ChunkSize + size), b * BlockBytes, 2 * k,
                          Span(n - ChunkSize, ChunkSize))
           /\ oh_compress_one_block(n, b, TRUE)
                = OhTwisted(U8(k * ChunkSize + size), b * BlockBytes, 2 * k,
                            Span(n - ChunkSize, ChunkSize))
  <1>0. /\ n \in Nat /\ n >= ChunkSize
        /\ b \in Nat /\ k \in 0 .. BlockChunks - 1 /\ size \in 1 .. ChunkSize
        /\ n = b * BlockBytes + k * ChunkSize + size
    BY DEF EndsAt
  <1> USE <1>0
  <1> DEFINE p == b * BlockBytes
             kc == k * ChunkSize
  <1>1. p \in Nat /\ kc \in Nat
    BY Geometry
  <1>2. kc + ChunkSize <= BlockBytes
    BY Geometry, GeometryAssumption, MultiplesApart
  <1>3. LastChunkIs(n, b, k)
    <2>1. (k + 1) * ChunkSize = kc + ChunkSize
      BY Geometry
    <2> HIDE DEF p
    <2> QED
      BY <2>1, <1>1, Geometry DEF LastChunkIs, p
  <1>4. BlockSizeOf(n, b) = kc + size
    <2>1. (b + 1) * BlockBytes = p + BlockBytes
      BY Geometry
    <2> HIDE DEF p, kc
    <2> QED
      BY <2>1, <1>1, <1>2, Geometry DEF BlockSizeOf, p, kc
  <1>5. ChunkAt(n, b * BlockChunks + k) = Span(n - ChunkSize, ChunkSize)
    <2>1. (b * BlockChunks + k) * ChunkSize = p + kc
      BY Geometry, GeometryAssumption
    <2> HIDE DEF p, kc
    <2>2. CASE size = ChunkSize
      BY <2>1, <2>2, <1>1, Geometry DEF ChunkAt, p, kc
    <2>3. CASE size < ChunkSize
      BY <2>1, <2>3, <1>1, Geometry DEF ChunkAt, p, kc
    <2> QED
      BY <2>2, <2>3, Geometry
  <1>6. U8(kc + size) = BlockSizeOf(n, b) % BlockBytes
    BY <1>4 DEF U8
  <1> QED
    <2>1. /\ oh_compress_one_block(n, b, FALSE)
                = OhValue(BlockSizeOf(n, b) % BlockBytes, b * BlockBytes, 2 * k,
                          ChunkAt(n, b * BlockChunks + k))
          /\ oh_compress_one_block(n, b, TRUE)
                = OhTwisted(BlockSizeOf(n, b) % BlockBytes, b * BlockBytes, 2 * k,
                            ChunkAt(n, b * BlockChunks + k))
      BY <1>3, ReferenceBlock, Zenon
    <2> QED
      BY <2>1, <1>5, <1>6

\* Counting blocks from 1 instead of 0.
LEMMA ShiftedRange == ASSUME NEW b \in Nat
                      PROVE  {c + 1 : c \in 0 .. b} = 1 .. b + 1
  <1>1. \A x \in 1 .. b + 1 : x - 1 \in 0 .. b /\ x = (x - 1) + 1
    OBVIOUS
  <1> QED
    BY <1>1

\* The number of blocks of a message whose last block, the b-th, holds 1 to
\* BlockBytes bytes.
LEMMA BlocksOf ==
    ASSUME NEW n \in Nat, NEW b \in Nat, b * BlockBytes < n, n <= b * BlockBytes + BlockBytes
    PROVE  {c + 1 : c \in Blocks(n)} = 1 .. b + 1
  <1>1. \A c \in Int : c < b => c * BlockBytes + BlockBytes <= b * BlockBytes
    BY Geometry, MultiplesApart
  <1>2. \A c \in Int : b < c => b * BlockBytes + BlockBytes <= c * BlockBytes
    BY Geometry, MultiplesApart
  <1>3. \A c \in Nat : c * BlockBytes \in Nat /\ c <= c * BlockBytes
    BY Geometry
  <1>4. \A c \in Nat : c * BlockBytes < n <=> c <= b
    BY <1>1, <1>2, <1>3, Geometry
  <1>5. Blocks(n) = 0 .. b
    BY <1>3, <1>4 DEF Blocks
  <1> QED
    BY <1>5, ShiftedRange
\* More than a word and less than a chunk: a block of one chunk, its first and
\* last words.
LEMMA MediumBlock ==
    ASSUME NEW n \in Nat, n > WordSize, n < ChunkSize
    PROVE  LET enh == {Term(ENH(0, HalfChunks(0, n), n), 0)}
               lrc == Xor({TwistToken}, {Mixed(0, HalfChunks(0, n))})
           IN  /\ Blocks(n) = {0}
               /\ oh_compress_one_block(n, 0, FALSE) = enh
               /\ oh_compress_one_block(n, 0, TRUE) = Xor(enh, {Term(PHLrc(lrc), 0)})
  <1> DEFINE chunk == HalfChunks(0, n)
             e == ENH(0, chunk, n)
             lrc == {Mixed(0, chunk), TwistToken}
  <1>1. Blocks(n) = {0}
    <2>1. \A c \in Nat : c >= 1 => c * BlockBytes >= BlockBytes
      BY Geometry
    <2>2. \A c \in 0 .. n : c * BlockBytes < n <=> c = 0
      BY <2>1, Geometry
    <2> QED
      BY <2>2 DEF Blocks
  <1>2. ChunksOf(n, 0) = {0}
    <2>1. \A i \in Nat : i >= 1 => i * ChunkSize >= ChunkSize
      BY Geometry
    <2>2. \A i \in 0 .. BlockChunks - 1 : 0 * BlockBytes + i * ChunkSize < n <=> i = 0
      BY <2>1, Geometry
    <2>3. 0 \in 0 .. BlockChunks - 1
      BY Geometry
    <2> QED
      BY <2>2, <2>3 DEF ChunksOf
  <1>3. \A i \in Int : IsLastOf(n, 0, i) <=> i = 0
    BY <1>2 DEF IsLastOf
  <1>4. ChunkAt(n, 0 * BlockChunks + 0) = chunk
    BY DEF ChunkAt
  <1>5. BlockSizeOf(n, 0) % BlockBytes = n
    <2>1. BlockSizeOf(n, 0) = n
      BY Geometry DEF BlockSizeOf
    <2> QED
      BY <2>1, U8Values, Geometry DEF U8
  <1>6. MixedChunk(n, 0, 0) = e
    <2>1. 2 * 0 = 0
      OBVIOUS
    <2> QED
      BY <1>3, <1>4, <1>5, <2>1 DEF MixedChunk
  <1>7. LrcOf(n, 0) = lrc
    <2>1. LrcOf(n, 0) = {Mixed(2 * 0, ChunkAt(n, 0 * BlockChunks + 0))} \union {TwistToken}
      BY <1>2 DEF LrcOf
    <2>2. 2 * 0 = 0
      OBVIOUS
    <2> QED
      BY <1>4, <2>1, <2>2
  <1>8. ShiftOf(n, 0, 0) = 0
    <2>1. \A s \in 0 .. BlockChunks - 1 : IsLastOf(n, 0, 0 + s) <=> s = 0
      BY <1>3
    <2>2. 0 \in 0 .. BlockChunks - 1
      BY Geometry
    <2> QED
      BY <2>1, <2>2 DEF ShiftOf
  <1>9. oh_compress_one_block(n, 0, FALSE) = {Term(e, 0)}
    BY <1>2, <1>6 DEF oh_compress_one_block
  <1>10. oh_compress_one_block(n, 0, TRUE) = {Term(PHLrc(lrc), 0), Term(e, 0)}
    BY <1>2, <1>6, <1>7, <1>8 DEF oh_compress_one_block, shuffle
  <1>11. Xor({TwistToken}, {Mixed(0, chunk)}) = lrc
    <2>1. TwistToken # Mixed(0, chunk)
      BY Geometry DEF TwistToken, Mixed
    <2> QED
      BY <2>1 DEF Xor
  <1>12. Xor({Term(e, 0)}, {Term(PHLrc(lrc), 0)}) = {Term(PHLrc(lrc), 0), Term(e, 0)}
    <2>1. e # PHLrc(lrc)
      <3> HIDE DEF lrc
      <3> QED
        BY DEF ENH, PHLrc
    <2>2. Term(e, 0) # Term(PHLrc(lrc), 0)
      <3> HIDE DEF lrc, e
      <3> QED
        BY <2>1 DEF Term
    <2> HIDE DEF lrc, e
    <2> QED
      BY <2>2 DEF Xor
  <1> QED
    BY <1>1, <1>9, <1>10, <1>11, <1>12
=============================================================================
