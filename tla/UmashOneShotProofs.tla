-------------------------- MODULE UmashOneShotProofs --------------------------
(***************************************************************************)
(* One-shot hashing returns the reference's hash, for messages of every    *)
(* size, and every geometry of words, chunks and blocks: the inductive     *)
(* invariant of the loops of umash_long, in their 128-bit and 256-bit      *)
(* forms, and its proof.  Then the pointers through which the blocks are   *)
(* reached, with any number of threads that make their first calls.        *)
(***************************************************************************)
EXTENDS UmashOneShot, UmashDispatch, UmashKernelsProofs

-----------------------------------------------------------------------------
(* The chunks of a block. *)

\* The pairs mixed in a lane by the first `end` words of 256-bit code.
Lane(end, lane) == {k \in 0 .. end - 1 : k % 4 = 2 * lane}

\* What they put in the accumulators of that lane.
LanePH(p, end, lane) == {Term(PHOf(p, k), 0) : k \in Lane(end, lane)}
LaneLrc(p, end, lane) ==
    {Mixed(k, ChunkOfPair(p, k)) : k \in Lane(end, lane)}
        \union IF lane = 0 THEN {TwistToken} ELSE {}
LaneTwist(p, end, lane) ==
    {Term(PHOf(p, k), LaneShift(k - 2 * lane)) : k \in Lane(end, lane)}

\* A lane takes one pair of four words; the two lanes have all pairs, and share none.
LEMMA LanePairs ==
    ASSUME NEW k \in Nat, k % 4 = 0
    PROVE  /\ \A lane \in 0 .. 1 : /\ Lane(k + 4, lane) = Lane(k, lane) \union {k + 2 * lane}
                                   /\ k + 2 * lane \notin Lane(k, lane)
           /\ Lane(k, 0) \union Lane(k, 1) = Pairs(k)
           /\ Lane(k, 0) \cap Lane(k, 1) = {}
  <1>1. Lane(k + 4, 0) = Lane(k, 0) \union {k + 2 * 0} /\ k + 2 * 0 \notin Lane(k, 0)
    BY DEF Lane
  <1>2. Lane(k + 4, 1) = Lane(k, 1) \union {k + 2 * 1} /\ k + 2 * 1 \notin Lane(k, 1)
    BY DEF Lane
  <1>3. Lane(k, 0) \union Lane(k, 1) = Pairs(k)
    BY DEF Lane, Pairs
  <1>4. Lane(k, 0) \cap Lane(k, 1) = {}
    BY DEF Lane
  <1>5. \A lane \in 0 .. 1 : lane = 0 \/ lane = 1
    OBVIOUS
  <1> QED
    BY <1>1, <1>2, <1>3, <1>4, <1>5

\* Any size is a number of chunks, and 1 to ChunkSize bytes that end_full_pairs leaves.
LEMMA PairsOfSize ==
    ASSUME NEW s \in Nat, s >= 1
    PROVE  \E k \in Nat, r \in 1 .. ChunkSize :
               s = k * ChunkSize + r /\ end_full_pairs(s) = 2 * k
  <1> DEFINE k == (s - 1) \div ChunkSize
             r == remaining(s)
  <1>1. /\ k \in Nat /\ s - 1 = k * ChunkSize + ((s - 1) % ChunkSize)
        /\ (s - 1) % ChunkSize \in 0 .. ChunkSize - 1
    <2>1. s - 1 \in Nat /\ ChunkSize \in Nat \ {0}
      BY Geometry
    <2> QED
      BY <2>1, Division
  <1> HIDE DEF k
  <1>2. r \in 1 .. ChunkSize /\ s = k * ChunkSize + r
    <2>1. r = 1 + ((s - 1) % ChunkSize)
      BY DEF remaining
    <2> HIDE DEF r
    <2>2. k * ChunkSize \in Int
      BY <1>1, Geometry
    <2> QED
      BY <1>1, <2>1, <2>2, Geometry
  <1> HIDE DEF r
  <1>3. s - r = (2 * k) * WordSize + 0
    BY <1>1, <1>2, Geometry
  <1>4. (s - r) \div WordSize = 2 * k
    BY <1>1, <1>3, Geometry, DivisionIsUnique
  <1> QED
    BY <1>1, <1>2, <1>4 DEF end_full_pairs, r

\* The size of a block leaves at most the pairs of the key.
LEMMA PairsOfBlock ==
    ASSUME NEW s \in 1 .. BlockBytes
    PROVE  \E k \in 0 .. BlockChunks - 1, r \in 1 .. ChunkSize :
               /\ s = k * ChunkSize + r
               /\ end_full_pairs(s) = 2 * k
               /\ 2 * k <= OhParamCount - 2 /\ (2 * k) % 2 = 0
               /\ 2 * k * WordSize + r = s
  <1>1. s \in Nat /\ s >= 1 /\ s <= BlockBytes
    BY Geometry
  <1>2. PICK k \in Nat, r \in 1 .. ChunkSize :
                s = k * ChunkSize + r /\ end_full_pairs(s) = 2 * k
    BY <1>1, PairsOfSize
  <1>3. k < BlockChunks
    <2> SUFFICES ASSUME k >= BlockChunks PROVE FALSE
      BY Geometry
    <2>1. BlockChunks * ChunkSize <= k * ChunkSize
      BY Geometry, MultiplesApart
    <2> QED
      BY <1>1, <1>2, <2>1, Geometry, GeometryAssumption
  <1>4. 2 * k * WordSize = k * ChunkSize
    BY Geometry
  <1> QED
    BY <1>2, <1>3, <1>4, Geometry
-----------------------------------------------------------------------------
(* The lanes of 256-bit code. *)

\* Sets of products that share none are united by the xor of their sums.
LEMMA XorDisjoint ==
    ASSUME NEW a, NEW b, a \cap b = {}
    PROVE  Xor(a, b) = a \union b
  BY DEF Xor

\* The order of the operands does not matter.
LEMMA XorCommutes == \A a, b : Xor(a, b) = Xor(b, a)
  BY DEF Xor

\* Products of different pairs differ, whatever their shifts.
LEMMA PairsDiffer ==
    ASSUME NEW p
    PROVE  \A j1, j2, s1, s2 : Term(PHOf(p, j1), s1) = Term(PHOf(p, j2), s2) => j1 = j2
  BY TermsDiffer

\* The products of some pairs, each with its number of shifts.
Products(p, pairs, by) == {Term(PHOf(p, j), by[j]) : j \in pairs}

\* One more shift is one more shift of each product.
LEMMA ShiftProducts ==
    ASSUME NEW p, NEW pairs, NEW by, NEW more, \A j \in pairs : more[j] = by[j] + 1
    PROVE  Shift(Products(p, pairs, by)) = Products(p, pairs, more)
  <1>1. \A j, s : Term(PHOf(p, j), s).term = PHOf(p, j) /\ Term(PHOf(p, j), s).by = s
    BY TermsDiffer
  <1>2. ASSUME NEW x \in Shift(Products(p, pairs, by)) PROVE x \in Products(p, pairs, more)
    <2>1. PICK e \in Products(p, pairs, by) : x = Term(e.term, e.by + 1)
      BY DEF Shift
    <2>2. PICK j \in pairs : e = Term(PHOf(p, j), by[j])
      BY DEF Products
    <2>3. x = Term(PHOf(p, j), more[j])
      BY <1>1, <2>1, <2>2
    <2> QED
      BY <2>3 DEF Products
  <1>3. ASSUME NEW j \in pairs PROVE Term(PHOf(p, j), more[j]) \in Shift(Products(p, pairs, by))
    <2> DEFINE e == Term(PHOf(p, j), by[j])
    <2>1. e \in Products(p, pairs, by) /\ e.term = PHOf(p, j) /\ e.by = by[j]
      BY <1>1 DEF Products
    <2>2. Term(PHOf(p, j), more[j]) = Term(e.term, e.by + 1)
      BY <2>1
    <2> QED
      BY <2>1, <2>2, Zenon DEF Shift
  <1> QED
    BY <1>2, <1>3 DEF Products

\* A chunk enters the product and the checksum of its lane.
LEMMA LaneStep ==
    ASSUME NEW p \in Int, NEW k \in Nat, k % 4 = 0, k <= OhParamCount - 4, NEW lane \in 0 .. 1
    PROVE  LET key == k + 2 * lane
           IN  /\ Xor(LanePH(p, k, lane), {Term(PHOf(p, key), 0)}) = LanePH(p, k + 4, lane)
               /\ Xor(LaneLrc(p, k, lane), {Mixed(key, ChunkOfPair(p, key))}) = LaneLrc(p, k + 4, lane)
               /\ Xor(LaneTwist(p, k, lane), {Term(PHOf(p, key), LaneShift(k))})
                    = LaneTwist(p, k + 4, lane)
  <1> DEFINE key == k + 2 * lane
  <1>1. /\ Lane(k + 4, lane) = Lane(k, lane) \union {key} /\ key \notin Lane(k, lane)
        /\ key \in Nat /\ key # OhParamCount /\ key - 2 * lane = k
    BY LanePairs, Geometry
  <1> HIDE DEF key
  <1>0. \A j1, j2, s1, s2 : Term(PHOf(p, j1), s1) = Term(PHOf(p, j2), s2) => j1 = j2
    BY PairsDiffer
  <1>2. Xor(LanePH(p, k, lane), {Term(PHOf(p, key), 0)}) = LanePH(p, k + 4, lane)
    <2>1. Term(PHOf(p, key), 0) \notin LanePH(p, k, lane)
      BY <1>0, <1>1, Zenon DEF LanePH
    <2>2. LanePH(p, k + 4, lane) = LanePH(p, k, lane) \union {Term(PHOf(p, key), 0)}
      BY <1>1, Zenon DEF LanePH
    <2> QED
      BY <2>1, <2>2, XorDisjoint
  <1>3. Xor(LaneLrc(p, k, lane), {Mixed(key, ChunkOfPair(p, key))}) = LaneLrc(p, k + 4, lane)
    <2>1. Mixed(key, ChunkOfPair(p, key)) # TwistToken
      BY <1>1 DEF Mixed, TwistToken
    <2>2. \A j : Mixed(j, ChunkOfPair(p, j)) = Mixed(key, ChunkOfPair(p, key)) => j = key
      BY DEF Mixed
    <2>3. Mixed(key, ChunkOfPair(p, key)) \notin LaneLrc(p, k, lane)
      BY <1>1, <2>1, <2>2, Zenon DEF LaneLrc
    <2>4. LaneLrc(p, k + 4, lane) = LaneLrc(p, k, lane) \union {Mixed(key, ChunkOfPair(p, key))}
      BY <1>1, Zenon DEF LaneLrc
    <2> QED
      BY <2>3, <2>4, XorDisjoint
  <1>4. Xor(LaneTwist(p, k, lane), {Term(PHOf(p, key), LaneShift(k))}) = LaneTwist(p, k + 4, lane)
    <2>1. Term(PHOf(p, key), LaneShift(k)) \notin LaneTwist(p, k, lane)
      <3> SUFFICES ASSUME NEW j \in Lane(k, lane),
                          Term(PHOf(p, key), LaneShift(k)) = Term(PHOf(p, j), LaneShift(j - 2 * lane))
                   PROVE  FALSE
        BY DEF LaneTwist
      <3> QED
        BY <1>0, <1>1
    <2>2. LaneTwist(p, k + 4, lane) = LaneTwist(p, k, lane) \union {Term(PHOf(p, key), LaneShift(k))}
      BY <1>1, Zenon DEF LaneTwist
    <2> QED
      BY <2>1, <2>2, XorDisjoint
  <1> QED
    BY <1>2, <1>3, <1>4 DEF key

\* The last shifts of the lanes bring the products of all pairs but the last to the
\* shifts that 128-bit code gives them.
LEMMA LaneShifts ==
    ASSUME NEW k \in Nat, k % 4 = 0, k = OhParamCount - 4
    PROVE  /\ \A j \in Lane(k, 0) : LaneShift(j - 2 * 0) + 2 = (k - j) \div 2
           /\ \A j \in Lane(k, 1) : LaneShift(j - 2 * 1) + 1 = (k - j) \div 2
  <1>1. ASSUME NEW j \in Lane(k, 0) PROVE LaneShift(j - 2 * 0) + 2 = (k - j) \div 2
    <2>1. j \in 0 .. k - 1 /\ j - 2 * 0 = j /\ OhParamCount - 8 - j = (k - j) - 4
      BY <1>1, Geometry DEF Lane
    <2>2. ((k - j) - 4) \div 2 + 2 = (k - j) \div 2
      BY <2>1
    <2> QED
      BY <2>1, <2>2 DEF LaneShift
  <1>2. ASSUME NEW j \in Lane(k, 1) PROVE LaneShift(j - 2 * 1) + 1 = (k - j) \div 2
    <2>1. j \in 0 .. k - 1 /\ OhParamCount - 8 - (j - 2 * 1) = (k - j) - 2
      BY <1>2, Geometry DEF Lane
    <2>2. ((k - j) - 2) \div 2 + 1 = (k - j) \div 2
      BY <2>1
    <2> QED
      BY <2>1, <2>2 DEF LaneShift
  <1> QED
    BY <1>1, <1>2

\* Merged with the last pair of the block, the lanes are what 128-bit code computes.
LEMMA LanesMerge ==
    ASSUME NEW p \in Int, NEW k \in Nat, k % 4 = 0, k = OhParamCount - 4
    PROVE  /\ Xor(Xor(LanePH(p, k, 0), LanePH(p, k, 1)), {Term(PHOf(p, k), 0)}) = PHTerms(p, k + 2)
           /\ Xor(Xor(LaneLrc(p, k, 0), LaneLrc(p, k, 1)), {Mixed(k, ChunkOfPair(p, k))})
                = LrcTerms(p, k + 2)
           /\ Shift(Xor(Shift(LaneTwist(p, k, 0)), LaneTwist(p, k, 1))) = TwistTerms(p, k + 2)
  <1>1. Lane(k, 0) \union Lane(k, 1) = Pairs(k) /\ Lane(k, 0) \cap Lane(k, 1) = {}
    BY LanePairs
  <1>0. \A j1, j2, s1, s2 : Term(PHOf(p, j1), s1) = Term(PHOf(p, j2), s2) => j1 = j2
    BY PairsDiffer
  <1>2. k % 2 = 0 /\ k <= OhParamCount - 2
    BY Geometry
  <1>3. Xor(LanePH(p, k, 0), LanePH(p, k, 1)) = PHTerms(p, k)
    <2>1. LanePH(p, k, 0) \cap LanePH(p, k, 1) = {}
      <3> SUFFICES ASSUME NEW j0 \in Lane(k, 0), NEW j1 \in Lane(k, 1),
                          Term(PHOf(p, j0), 0) = Term(PHOf(p, j1), 0)
                   PROVE  FALSE
        BY DEF LanePH
      <3> QED
        BY <1>0, <1>1
    <2>2. LanePH(p, k, 0) \union LanePH(p, k, 1) = PHTerms(p, k)
      BY <1>1, Zenon DEF LanePH, PHTerms
    <2> QED
      BY <2>1, <2>2, XorDisjoint
  <1>4. Xor(LaneLrc(p, k, 0), LaneLrc(p, k, 1)) = LrcTerms(p, k)
    <2>1. \A j \in Pairs(k) : Mixed(j, ChunkOfPair(p, j)) # TwistToken
      BY Geometry DEF Mixed, TwistToken, Pairs
    <2>2. \A i1, i2 : Mixed(i1, ChunkOfPair(p, i1)) = Mixed(i2, ChunkOfPair(p, i2)) => i1 = i2
      BY DEF Mixed
    <2>3. LaneLrc(p, k, 0) = {Mixed(j, ChunkOfPair(p, j)) : j \in Lane(k, 0)} \union {TwistToken}
      BY DEF LaneLrc
    <2>4. LaneLrc(p, k, 1) = {Mixed(j, ChunkOfPair(p, j)) : j \in Lane(k, 1)}
      BY DEF LaneLrc
    <2>5. LaneLrc(p, k, 0) \cap LaneLrc(p, k, 1) = {}
      <3> SUFFICES ASSUME NEW x \in LaneLrc(p, k, 0), x \in LaneLrc(p, k, 1) PROVE FALSE
        OBVIOUS
      <3>1. PICK j \in Lane(k, 1) : x = Mixed(j, ChunkOfPair(p, j))
        BY <2>4
      <3>2. j \in Pairs(k) /\ j \notin Lane(k, 0)
        BY <1>1
      <3>3. x # TwistToken
        BY <2>1, <3>1, <3>2
      <3>4. PICK j0 \in Lane(k, 0) : x = Mixed(j0, ChunkOfPair(p, j0))
        BY <2>3, <3>3, Zenon
      <3> QED
        BY <2>2, <3>1, <3>2, <3>4
    <2>6. LaneLrc(p, k, 0) \union LaneLrc(p, k, 1) = LrcTerms(p, k)
      BY <1>1, <2>3, <2>4, Zenon DEF LrcTerms
    <2> QED
      BY <2>5, <2>6, XorDisjoint
  <1>5. Shift(Xor(Shift(LaneTwist(p, k, 0)), LaneTwist(p, k, 1))) = TwistTerms(p, k + 2)
    <2> DEFINE by(lane, more) == [j \in Lane(k, lane) |-> LaneShift(j - 2 * lane) + more]
               target(pairs) == [j \in pairs |-> (k - j) \div 2]
    <2>1. \A lane \in 0 .. 1 : \A j \in Lane(k, lane) : LaneShift(j - 2 * lane) \in Int
      BY Geometry DEF Lane, LaneShift
    <2>2. LaneTwist(p, k, 0) = Products(p, Lane(k, 0), by(0, 0))
      <3>1. \A j \in Lane(k, 0) : by(0, 0)[j] = LaneShift(j - 2 * 0)
        BY <2>1
      <3> HIDE DEF by
      <3> QED
        BY <3>1, Zenon DEF LaneTwist, Products
    <2>3. LaneTwist(p, k, 1) = Products(p, Lane(k, 1), by(1, 0))
      <3>1. \A j \in Lane(k, 1) : by(1, 0)[j] = LaneShift(j - 2 * 1)
        BY <2>1
      <3> HIDE DEF by
      <3> QED
        BY <3>1, Zenon DEF LaneTwist, Products
    <2>4. Shift(LaneTwist(p, k, 0)) = Products(p, Lane(k, 0), by(0, 1))
      <3>1. \A j \in Lane(k, 0) : by(0, 1)[j] = by(0, 0)[j] + 1
        BY <2>1
      <3> QED
        BY <2>2, <3>1, ShiftProducts
    <2>5. Shift(Products(p, Lane(k, 0), by(0, 1))) = Products(p, Lane(k, 0), target(Lane(k, 0)))
      <3>1. \A j \in Lane(k, 0) : target(Lane(k, 0))[j] = by(0, 1)[j] + 1
        BY <2>1, LaneShifts
      <3> HIDE DEF by, target
      <3> QED
        BY <3>1, ShiftProducts
    <2>6. Shift(LaneTwist(p, k, 1)) = Products(p, Lane(k, 1), target(Lane(k, 1)))
      <3>1. \A j \in Lane(k, 1) : target(Lane(k, 1))[j] = by(1, 0)[j] + 1
        BY <2>1, LaneShifts
      <3> HIDE DEF by, target
      <3> QED
        BY <2>3, <3>1, ShiftProducts
    <2>7. Products(p, Lane(k, 0), by(0, 1)) \cap LaneTwist(p, k, 1) = {}
      <3> HIDE DEF by
      <3> SUFFICES ASSUME NEW j0 \in Lane(k, 0), NEW j1 \in Lane(k, 1),
                          Term(PHOf(p, j0), by(0, 1)[j0]) = Term(PHOf(p, j1), by(1, 0)[j1])
                   PROVE  FALSE
        BY <2>3 DEF Products
      <3> QED
        BY <1>0, <1>1
    <2>8. Shift(Xor(Shift(LaneTwist(p, k, 0)), LaneTwist(p, k, 1)))
            = Shift(Products(p, Lane(k, 0), by(0, 1))) \union Shift(LaneTwist(p, k, 1))
      <3> HIDE DEF by
      <3>1. \A a, b : Shift(a \union b) = Shift(a) \union Shift(b)
        BY Zenon DEF Shift
      <3> QED
        BY <2>4, <2>7, <3>1, XorDisjoint
    <2>9. Products(p, Lane(k, 0), target(Lane(k, 0))) \union Products(p, Lane(k, 1), target(Lane(k, 1)))
            = Products(p, Pairs(k), target(Pairs(k)))
      <3>1. /\ \A j \in Lane(k, 0) : target(Lane(k, 0))[j] = target(Pairs(k))[j]
            /\ \A j \in Lane(k, 1) : target(Lane(k, 1))[j] = target(Pairs(k))[j]
        BY <1>1
      <3> DEFINE all == target(Pairs(k))
      <3> HIDE DEF target
      <3>2. Products(p, Lane(k, 0), target(Lane(k, 0))) = Products(p, Lane(k, 0), all)
        BY <3>1, Zenon DEF Products
      <3>3. Products(p, Lane(k, 1), target(Lane(k, 1))) = Products(p, Lane(k, 1), all)
        BY <3>1, Zenon DEF Products
      <3>4. Products(p, Lane(k, 0), all) \union Products(p, Lane(k, 1), all) = Products(p, Pairs(k), all)
        <4> HIDE DEF all
        <4> QED
          BY <1>1, Zenon DEF Products
      <3> QED
        BY <3>2, <3>3, <3>4
    <2>10. TwistTerms(p, k + 2) = Products(p, Pairs(k), target(Pairs(k)))
      <3>1. (k + 2) - 2 = k /\ \A j \in Pairs(k) : target(Pairs(k))[j] = ((k + 2) - 2 - j) \div 2
        OBVIOUS
      <3> HIDE DEF target
      <3> QED
        BY <3>1, Zenon DEF TwistTerms, Products
    <2> HIDE DEF by, target
    <2> QED
      BY <2>5, <2>6, <2>8, <2>9, <2>10
  <1> QED
    BY <1>2, <1>3, <1>4, <1>5, PHStep, LrcStep
-----------------------------------------------------------------------------
(* The inductive invariant. *)

InBlock == pc \in {"head", "chunks", "end"}
end == end_full_pairs(size)

\* The blocks absorbed so far, and the sequence of their values.
absorbed == Len(poly[0])
Values(b, secondary) == [j \in 1 .. b |-> oh_compress_one_block(call.n, j - 1, secondary)]

\* Only the blocks before data have been absorbed; each loop knows how much follows.
PositionInv ==
    /\ pc = "start" => data = 0 /\ n_blocks = 0 /\ absorbed = 0
    /\ InBlock => call.n > ChunkSize /\ data = absorbed * BlockBytes
    /\ InBlock /\ loop = "batch" =>
        n_blocks >= 1 /\ left < BlockBytes /\ call.n = data + n_blocks * BlockBytes + left
    /\ InBlock /\ loop = "full" =>
        left >= 1 /\ call.n = data + left /\ (pc # "head" => left > BlockBytes)
    /\ InBlock /\ loop = "last" => left \in 1 .. BlockBytes /\ call.n = data + left
    /\ pc = "finalize" =>
        /\ call.n > ChunkSize /\ absorbed >= 1
        /\ (absorbed - 1) * BlockBytes < call.n
        /\ call.n <= (absorbed - 1) * BlockBytes + BlockBytes

\* The polynomials hold the reference's values of those blocks.
PolyInv ==
    pc # "done" => /\ absorbed \in Nat
                   /\ poly[0] = Values(absorbed, FALSE)
                   /\ Fingerprint => poly[1] = Values(absorbed, TRUE)

\* Chunk after chunk: what lane 0 holds after i words.  The last product of the block
\* is not among those shifted.
ChunksInv ==
    /\ DOMAIN oh.acc = 0 .. 1 /\ DOMAIN oh.lrc = 0 .. 1 /\ DOMAIN oh.shifted = 0 .. 1
    /\ pc = "end" \/ (pc = "chunks" /\ ~Wide) =>
        /\ i % 2 = 0 /\ i <= end
        /\ oh.acc[0] = PHTerms(data, i)
        /\ oh.lrc[0] = LrcTerms(data, i)
        /\ oh.shifted[0] = TwistTerms(data, IF i < end THEN i + 2 ELSE i)
    /\ pc = "end" => i = end

\* Two chunks at a time: what each lane holds.
LanesInv ==
    pc = "chunks" /\ Wide =>
        /\ i % 4 = 0 /\ i <= OhParamCount - 4
        /\ \A lane \in 0 .. 1 : /\ oh.acc[lane] = LanePH(data, i, lane)
                                /\ oh.lrc[lane] = LaneLrc(data, i, lane)
                                /\ oh.shifted[lane] = LaneTwist(data, i, lane)

IndInv == TypeOK /\ PositionInv /\ PolyInv /\ ChunksInv /\ LanesInv /\ ResultIsReference
-----------------------------------------------------------------------------
(* What is absorbed. *)

\* horner_double_update at the end of a sequence of values.
LEMMA AppendValue ==
    ASSUME NEW b \in Nat, NEW v
    PROVE  /\ Len([j \in 1 .. b |-> v[j]]) = b
           /\ Append([j \in 1 .. b |-> v[j]], v[b + 1]) = [j \in 1 .. b + 1 |-> v[j]]
  <1> DEFINE S == {v[j] : j \in 1 .. b + 1}
             f == [j \in 1 .. b |-> v[j]]
             g == [j \in 1 .. b + 1 |-> v[j]]
  <1>1. f \in Seq(S) /\ Len(f) = b /\ v[b + 1] \in S
    OBVIOUS
  <1>2. Append(f, v[b + 1]) = g
    <2>1. /\ Append(f, v[b + 1]) \in Seq(S) /\ Len(Append(f, v[b + 1])) = b + 1
      BY <1>1
    <2>2. g \in Seq(S) /\ Len(g) = b + 1
      OBVIOUS
    <2>3. ASSUME NEW j \in 1 .. b + 1 PROVE Append(f, v[b + 1])[j] = g[j]
      <3>1. CASE j = b + 1
        BY <1>1, <3>1
      <3>2. CASE j \in 1 .. b
        BY <1>1, <3>2
      <3> QED
        BY <3>1, <3>2
    <2> HIDE DEF f, g
    <2> QED
      BY <2>1, <2>2, <2>3
  <1> QED
    BY <1>1, <1>2

\* The size of the current block, and the pairs of it that are mixed by its loop.
LEMMA SizeOfBlock ==
    ASSUME TypeOK, PositionInv, pc \in {"chunks", "end"}
    PROVE  /\ size \in 1 .. BlockBytes /\ data \in Nat /\ call.n \in Nat
           /\ data + size <= call.n /\ call.n > ChunkSize
           /\ \E k \in 0 .. BlockChunks - 1, r \in 1 .. ChunkSize :
                   /\ size = k * ChunkSize + r /\ end = 2 * k
                   /\ end <= OhParamCount - 2 /\ end % 2 = 0
                   /\ end * WordSize + r = size
           /\ loop # "last" => end = OhParamCount - 2
  <1>1. call.n \in Nat /\ data \in Nat /\ left \in Nat /\ n_blocks \in Nat
    <2>1. call.n \in Nat
      BY OneShotAssumption DEF TypeOK
    <2> QED
      BY <2>1 DEF TypeOK
  <1>2. InBlock /\ call.n > ChunkSize
    BY DEF InBlock, PositionInv
  <1>3. CASE loop = "batch"
    <2>1. n_blocks >= 1 /\ call.n = data + n_blocks * BlockBytes + left
      BY <1>2, <1>3 DEF PositionInv
    <2>2. n_blocks * BlockBytes >= BlockBytes
      BY <1>1, <2>1, Geometry
    <2>3. size = BlockBytes
      BY <1>3 DEF size
    <2> QED
      BY <1>1, <1>2, <1>3, <2>1, <2>2, <2>3, Geometry, PairsOfBlock, FullBlockPairs DEF end
  <1>4. CASE loop = "full"
    <2>1. left > BlockBytes /\ call.n = data + left
      BY <1>2, <1>4 DEF PositionInv
    <2>2. size = BlockBytes
      BY <1>4 DEF size
    <2> QED
      BY <1>1, <1>2, <1>4, <2>1, <2>2, Geometry, PairsOfBlock, FullBlockPairs DEF end
  <1>5. CASE loop = "last"
    <2>1. left \in 1 .. BlockBytes /\ call.n = data + left
      BY <1>2, <1>5 DEF PositionInv
    <2>2. size = left
      BY <1>5 DEF size
    <2> QED
      BY <1>1, <1>2, <1>5, <2>1, <2>2, Geometry, PairsOfBlock DEF end
  <1> QED
    BY <1>3, <1>4, <1>5 DEF TypeOK

\* At the end of a block, its values are those of the reference.
LEMMA ValuesOfBlock ==
    ASSUME TypeOK, PositionInv, PolyInv, ChunksInv, pc = "end"
    PROVE  /\ BlockHash = oh_compress_one_block(call.n, absorbed, FALSE)
           /\ BlockTwisted = oh_compress_one_block(call.n, absorbed, TRUE)
  <1> DEFINE last == LastChunk(data, size)
  <1>1. /\ size \in 1 .. BlockBytes /\ data \in Nat /\ call.n \in Nat
        /\ data + size <= call.n /\ call.n > ChunkSize
        /\ loop # "last" => end = OhParamCount - 2
    BY SizeOfBlock
  <1>2. PICK k \in 0 .. BlockChunks - 1, r \in 1 .. ChunkSize :
                size = k * ChunkSize + r /\ end = 2 * k /\ end <= OhParamCount - 2 /\ end % 2 = 0
    BY SizeOfBlock
  <1>3. /\ i = end /\ oh.acc[0] = PHTerms(data, end) /\ oh.lrc[0] = LrcTerms(data, end)
        /\ oh.shifted[0] = TwistTerms(data, end)
    <2>1. /\ i = end /\ oh.acc[0] = PHTerms(data, i) /\ oh.lrc[0] = LrcTerms(data, i)
          /\ oh.shifted[0] = TwistTerms(data, IF i < end THEN i + 2 ELSE i)
      BY DEF ChunksInv
    <2>2. ~(i < end)
      BY <1>2, <2>1
    <2> QED
      BY <2>1, <2>2
  <1>4. absorbed \in Nat /\ data = absorbed * BlockBytes
    BY DEF PolyInv, PositionInv, InBlock
  <1>5. end \in Nat /\ data \in Int
    BY <1>1, <1>2
  <1>6. BlockHash = OhValue(tag, data, end, last)
    BY <1>3, <1>5, OhLast DEF BlockHash
  <1>7. BlockTwisted = OhTwisted(tag, data, end, last)
    <2>1. Xor(oh.lrc[0], {Mixed(i, last)}) = LrcTerms(data, end) \union {Mixed(end, last)}
      BY <1>2, <1>3, <1>5, LrcLast
    <2>2. Xor(oh.shifted[0], oh.acc[0]) = Xor(PHTerms(data, end), TwistTerms(data, end))
      BY <1>3, XorCommutes
    <2>3. BlockTwisted
            = Xor(Xor(Shift(Xor(PHTerms(data, end), TwistTerms(data, end))),
                      {Term(PHLrc(LrcTerms(data, end) \union {Mixed(end, last)}), 0)}),
                  {Term(ENH(end, last, tag), 0)})
      BY <1>3, <2>1, <2>2 DEF BlockTwisted
    <2> QED
      BY <1>2, <1>5, <2>3, TwistLast
  <1>8. CASE loop = "last"
    <2>1. size = left /\ tag = U8(left) /\ call.n = data + left
      BY <1>8 DEF size, tag, PositionInv, InBlock
    <2>2. last = Span(call.n - ChunkSize, ChunkSize)
      <3>1. data + (size - ChunkSize) = call.n - ChunkSize
        BY <1>1, <2>1, Geometry
      <3> QED
        BY <3>1 DEF LastChunk
    <2>3. EndsAt(call.n, absorbed, k, r)
      BY <1>1, <1>2, <1>4, <2>1, Geometry DEF EndsAt
    <2>4. /\ oh_compress_one_block(call.n, absorbed, FALSE)
                = OhValue(U8(k * ChunkSize + r), absorbed * BlockBytes, 2 * k,
                          Span(call.n - ChunkSize, ChunkSize))
          /\ oh_compress_one_block(call.n, absorbed, TRUE)
                = OhTwisted(U8(k * ChunkSize + r), absorbed * BlockBytes, 2 * k,
                            Span(call.n - ChunkSize, ChunkSize))
      BY <2>3, EndBlock
    <2> QED
      BY <1>2, <1>4, <1>6, <1>7, <2>1, <2>2, <2>4
  <1>9. CASE loop # "last"
    <2>1. size = BlockBytes /\ tag = 0
      BY <1>9 DEF size, tag
    <2>2. end = end_full_pairs(BlockBytes) /\ last = LastChunk(data, BlockBytes)
      BY <2>1 DEF end
    <2>3. absorbed * BlockBytes + BlockBytes <= call.n
      BY <1>1, <1>4, <2>1
    <2>4. /\ oh_compress_one_block(call.n, absorbed, FALSE)
                = oh_varblock(0, absorbed * BlockBytes, BlockBytes)
          /\ oh_compress_one_block(call.n, absorbed, TRUE)
                = oh_varblock_fprint(0, absorbed * BlockBytes, BlockBytes)[2]
      BY <1>1, <1>4, <2>3, FullBlock
    <2> QED
      BY <1>4, <1>6, <1>7, <2>1, <2>2, <2>4 DEF oh_varblock, oh_varblock_fprint
  <1> QED
    BY <1>8, <1>9
-----------------------------------------------------------------------------
(* What is returned. *)

\* The size of a message.
LEMMA CallSize == ASSUME TypeOK PROVE call.n \in Nat /\ call.which \in 0 .. 2
  BY OneShotAssumption DEF TypeOK

\* The hashes asked for, of the two that are expected.
LEMMA AskedIsExpected ==
    ASSUME TypeOK
    PROVE  /\ ~Fingerprint => <<umash(call.n, FALSE)>> = Expected(call.which, call.n)
           /\ Fingerprint =>
                Asked(<<umash(call.n, FALSE), umash(call.n, TRUE)>>) = Expected(call.which, call.n)
  <1>1. call.which \in 0 .. 2
    BY DEF TypeOK
  <1> QED
    BY <1>1 DEF Fingerprint, Asked, Expected

\* Up to a word: the parameter is picked by the size.
LEMMA ShortIsExpected ==
    ASSUME TypeOK, ShortInput
    PROVE  result' = Expected(call.which, call.n)
  <1> DEFINE bytes == Span(0, call.n)
  <1>1. call.n \in Nat /\ call.n <= WordSize /\ call.n + 0 = call.n
    BY CallSize DEF ShortInput
  <1>2. /\ umash(call.n, FALSE) = umash_short(call.n, bytes)
        /\ umash(call.n, TRUE) = umash_short(call.n + ShortHashShift, bytes)
    BY <1>1 DEF umash
  <1>3. umash_fp_short(bytes, call.n) = <<umash(call.n, FALSE), umash(call.n, TRUE)>>
    BY <1>2 DEF umash_fp_short
  <1> QED
    BY <1>2, <1>3, AskedIsExpected DEF ShortInput

\* Up to a chunk: a block of one chunk, the first and the last word.
LEMMA MediumValues ==
    ASSUME NEW n \in Nat, n > WordSize, n <= ChunkSize
    PROVE  LET chunk == HalfChunks(0, n)
           IN  /\ umash_medium(0, chunk, n) = umash(n, FALSE)
               /\ umash_fp_medium(chunk, n) = <<umash(n, FALSE), umash(n, TRUE)>>
  <1> DEFINE chunk == HalfChunks(0, n)
             enh == {Term(ENH(0, chunk, n), 0)}
             lrc == Xor({TwistToken}, {Mixed(0, chunk)})
             twisted == Xor(enh, {Term(PHLrc(lrc), 0)})
  <1>1. /\ Blocks(n) = {0}
        /\ oh_compress_one_block(n, 0, FALSE) = enh
        /\ oh_compress_one_block(n, 0, TRUE) = twisted
    <2>1. CASE n < ChunkSize
      BY <2>1, MediumBlock
    <2>2. CASE n = ChunkSize
      <3>1. EndsAt(n, 0, 0, ChunkSize)
        BY <2>2, Geometry DEF EndsAt
      <3>2. 0 * ChunkSize + ChunkSize = n /\ 0 * BlockBytes = 0 /\ 2 * 0 = 0
        BY <2>2, Geometry
      <3>3. Span(n - ChunkSize, ChunkSize) = chunk
        BY <2>2, Geometry DEF Span, HalfChunks
      <3>4. U8(n) = n
        BY <2>2, U8Values, Geometry
      <3> HIDE DEF chunk
      <3>5. /\ oh_compress_one_block(n, 0, FALSE) = OhValue(n, 0, 0, chunk)
            /\ oh_compress_one_block(n, 0, TRUE) = OhTwisted(n, 0, 0, chunk)
        <4>1. /\ oh_compress_one_block(n, 0, FALSE)
                    = OhValue(U8(0 * ChunkSize + ChunkSize), 0 * BlockBytes, 2 * 0,
                              Span(n - ChunkSize, ChunkSize))
              /\ oh_compress_one_block(n, 0, TRUE)
                    = OhTwisted(U8(0 * ChunkSize + ChunkSize), 0 * BlockBytes, 2 * 0,
                                Span(n - ChunkSize, ChunkSize))
          BY <3>1, EndBlock
        <4> QED
          BY <3>2, <3>3, <3>4, <4>1
      <3>6. Pairs(0) = {} /\ Pairs(0 - 2) = {}
        BY DEF Pairs
      <3>7. OhValue(n, 0, 0, chunk) = enh
        BY <3>6 DEF OhValue, PHTerms
      <3>8. OhTwisted(n, 0, 0, chunk) = {Term(PHLrc({TwistToken} \union {Mixed(0, chunk)}), 0)} \union enh
        BY <3>6 DEF OhTwisted, LrcTerms
      <3>9. lrc = {TwistToken} \union {Mixed(0, chunk)}
        <4>1. TwistToken # Mixed(0, chunk)
          BY Geometry DEF TwistToken, Mixed
        <4> QED
          BY <4>1 DEF Xor
      <3>10. Term(ENH(0, chunk, n), 0) # Term(PHLrc(lrc), 0)
        <4>1. ENH(0, chunk, n) # PHLrc(lrc)
          <5> HIDE DEF lrc
          <5> QED
            BY DEF ENH, PHLrc
        <4> QED
          BY <4>1 DEF Term
      <3>11. OhTwisted(n, 0, 0, chunk) = twisted
        <4> HIDE DEF lrc
        <4> QED
          BY <3>8, <3>9, <3>10 DEF Xor
      <3>12. Blocks(n) = {0}
        <4>1. {c + 1 : c \in Blocks(n)} = 1 .. 0 + 1
          <5>1. 0 * BlockBytes < n /\ n <= 0 * BlockBytes + BlockBytes
            BY <2>2, Geometry
          <5> QED
            BY <5>1, BlocksOf
        <4>2. \A c \in Blocks(n) : c \in Nat /\ c + 1 \in 1 .. 1
          BY <4>1 DEF Blocks
        <4>3. 0 \in Blocks(n)
          BY <2>2, Geometry DEF Blocks
        <4> QED
          BY <4>2, <4>3
      <3> QED
        BY <3>5, <3>7, <3>11, <3>12
    <2>3. n < ChunkSize \/ n = ChunkSize
      BY Geometry
    <2> HIDE DEF chunk, enh, twisted
    <2> QED
      BY <2>1, <2>2, <2>3
  <1> HIDE DEF enh, twisted
  <1>2. {b + 1 : b \in Blocks(n)} = {1}
    BY <1>1
  <1>3. poly_reduce(n, FALSE) = <<enh>> /\ poly_reduce(n, TRUE) = <<twisted>>
    <2>1. 1 - 1 = 0
      OBVIOUS
    <2>2. /\ poly_reduce(n, FALSE) = [j \in {1} |-> oh_compress_one_block(n, j - 1, FALSE)]
          /\ poly_reduce(n, TRUE) = [j \in {1} |-> oh_compress_one_block(n, j - 1, TRUE)]
      BY <1>2 DEF poly_reduce
    <2>3. \A j \in {1} : /\ oh_compress_one_block(n, j - 1, FALSE) = enh
                         /\ oh_compress_one_block(n, j - 1, TRUE) = twisted
      BY <1>1, <2>1
    <2>4. <<enh>> = [j \in {1} |-> enh] /\ <<twisted>> = [j \in {1} |-> twisted]
      OBVIOUS
    <2> QED
      BY <2>2, <2>3, <2>4
  <1>4. ~(n <= WordSize)
    BY Geometry
  <1>5. umash(n, FALSE) = finalize(0, <<enh>>) /\ umash(n, TRUE) = finalize(1, <<twisted>>)
    BY <1>3, <1>4 DEF umash, umash_long
  <1> QED
    BY <1>5 DEF umash_medium, umash_fp_medium, enh, twisted

\* The two forms of umash_medium.
LEMMA MediumIsExpected ==
    ASSUME TypeOK, MediumInput
    PROVE  result' = Expected(call.which, call.n)
  <1>1. call.n \in Nat /\ call.n > WordSize /\ call.n <= ChunkSize
    BY CallSize, Geometry DEF MediumInput, Long
  <1>2. LET chunk == HalfChunks(0, call.n)
        IN  /\ umash_medium(0, chunk, call.n) = umash(call.n, FALSE)
            /\ umash_fp_medium(chunk, call.n) = <<umash(call.n, FALSE), umash(call.n, TRUE)>>
    BY <1>1, MediumValues
  <1> QED
    BY <1>2, AskedIsExpected DEF MediumInput

\* Once the last block is absorbed, the polynomials are the reference's.
LEMMA FinalizeIsExpected ==
    ASSUME TypeOK, PositionInv, PolyInv, Finalize
    PROVE  result' = Expected(call.which, call.n)
  <1> DEFINE b == absorbed - 1
  <1>1. call.n \in Nat /\ call.n > ChunkSize /\ ~(call.n <= WordSize)
    BY CallSize, Geometry DEF PositionInv, Finalize
  <1>2. absorbed \in Nat /\ absorbed >= 1
    BY DEF PositionInv, PolyInv, Finalize
  <1>3. b \in Nat /\ b * BlockBytes < call.n /\ call.n <= b * BlockBytes + BlockBytes
    BY <1>2 DEF PositionInv, Finalize
  <1>4. {c + 1 : c \in Blocks(call.n)} = 1 .. absorbed
    BY <1>1, <1>2, <1>3, BlocksOf
  <1>5. \A secondary \in BOOLEAN : poly_reduce(call.n, secondary) = Values(absorbed, secondary)
    BY <1>4 DEF poly_reduce, Values
  <1>6. /\ umash(call.n, FALSE) = finalize(0, Values(absorbed, FALSE))
        /\ umash(call.n, TRUE) = finalize(1, Values(absorbed, TRUE))
    BY <1>1, <1>5 DEF umash, umash_long
  <1>7. /\ finalize(0, poly[0]) = umash(call.n, FALSE)
        /\ Fingerprint => finalize(1, poly[1]) = umash(call.n, TRUE)
    BY <1>6 DEF PolyInv, Finalize
  <1> QED
    BY <1>7, AskedIsExpected DEF Finalize
-----------------------------------------------------------------------------
(* Every step keeps the invariant. *)

\* Before the call, nothing is read and nothing absorbed.
LEMMA InitHolds == Init => IndInv
  <1> SUFFICES ASSUME Init PROVE IndInv
    OBVIOUS
  <1>1. PICK n \in Sizes, which \in 0 .. 2, wide \in BOOLEAN :
                call = [n |-> n, which |-> which, wide |-> wide]
    BY DEF Init
  <1>2. /\ pc = "start" /\ loop = "full" /\ data = 0 /\ left = 0 /\ n_blocks = 0 /\ i = 0
        /\ oh = FreshOh /\ poly = [w \in 0 .. 1 |-> <<>>]
    BY DEF Init
  <1>3. TypeOK
    <2>1. call \in [n : Sizes, which : 0 .. 2, wide : BOOLEAN]
      BY <1>1
    <2>2. call.n \in Nat
      BY <2>1, OneShotAssumption
    <2> QED
      BY <1>2, <2>1, <2>2, Geometry DEF TypeOK
  <1>4. absorbed = 0 /\ poly[0] = <<>> /\ poly[1] = <<>>
    BY <1>2
  <1>5. PositionInv
    BY <1>2, <1>4 DEF PositionInv, InBlock
  <1>6. PolyInv
    BY <1>4 DEF PolyInv, Values
  <1>7. ChunksInv
    BY <1>2 DEF ChunksInv, FreshOh, Zero
  <1>8. LanesInv /\ ResultIsReference
    BY <1>2 DEF LanesInv, ResultIsReference
  <1> QED
    BY <1>3, <1>5, <1>6, <1>7, <1>8 DEF IndInv

\* A step that absorbs nothing keeps what is absorbed.
LEMMA PolyFrame ==
    ASSUME PolyInv, pc # "done", UNCHANGED <<call, poly>>
    PROVE  PolyInv' /\ absorbed' = absorbed
  <1>1. absorbed' = absorbed /\ call' = call /\ poly' = poly
    BY DEF absorbed
  <1> QED
    BY <1>1 DEF PolyInv, Fingerprint, Values

\* A call that is short enough returns at once.
LEMMA ImmediateStep ==
    ASSUME IndInv, ShortInput \/ MediumInput
    PROVE  IndInv'
  <1>1. /\ pc' = "done" /\ UNCHANGED <<call, loop, data, left, n_blocks, i, oh, poly>>
    BY DEF ShortInput, MediumInput
  <1>2. result' = Expected(call.which, call.n)
    BY ShortIsExpected, MediumIsExpected DEF IndInv
  <1>3. TypeOK'
    BY <1>1 DEF IndInv, TypeOK
  <1>4. PositionInv' /\ PolyInv'
    BY <1>1 DEF PositionInv, PolyInv, InBlock
  <1>5. ChunksInv' /\ LanesInv'
    BY <1>1 DEF IndInv, ChunksInv, LanesInv
  <1>6. ResultIsReference'
    BY <1>1, <1>2 DEF ResultIsReference
  <1> QED
    BY <1>3, <1>4, <1>5, <1>6 DEF IndInv

\* The batch takes the whole blocks of a message that has several.
LEMMA LongStep == IndInv /\ LongInput => IndInv'
  <1> SUFFICES ASSUME IndInv, LongInput PROVE IndInv'
    OBVIOUS
  <1>1. /\ pc = "start" /\ pc' = "head" /\ call.n > ChunkSize
        /\ UNCHANGED <<call, data, i, oh, poly, result>>
    BY DEF LongInput, Long
  <1>2. call.n \in Nat /\ data = 0 /\ n_blocks = 0 /\ absorbed = 0
    BY <1>1, CallSize DEF IndInv, PositionInv
  <1>5. PolyInv' /\ absorbed' = 0
    BY <1>1, <1>2, PolyFrame DEF IndInv
  <1>3. CASE call.n >= MultipleBlocksThreshold
    <2> DEFINE q == call.n \div BlockBytes
               r == call.n % BlockBytes
    <2>1. loop' = "batch" /\ n_blocks' = q /\ left' = r
      BY <1>3 DEF LongInput, BatchBlocks
    <2>2. q \in Nat /\ r \in 0 .. BlockBytes - 1 /\ call.n = q * BlockBytes + r
      <3>1. BlockBytes \in Nat \ {0}
        BY Geometry
      <3> QED
        BY <1>2, <3>1, Division
    <2> HIDE DEF q, r
    <2>3. q >= 1
      <3> SUFFICES ASSUME q = 0 PROVE FALSE
        BY <2>2
      <3> QED
        BY <1>2, <1>3, <2>2, OneShotAssumption, Geometry
    <2>4. q <= q * BlockBytes /\ q * BlockBytes \in Nat
      BY <2>2, Geometry
    <2>5. n_blocks' \in 0 .. call.n /\ left' \in 0 .. call.n
      BY <1>2, <2>1, <2>2, <2>4, Geometry
    <2>6. TypeOK'
      BY <1>1, <2>1, <2>5 DEF IndInv, TypeOK
    <2>7. PositionInv'
      BY <1>1, <1>2, <1>5, <2>1, <2>2, <2>3, Geometry DEF PositionInv, InBlock
    <2> QED
      BY <1>1, <1>5, <2>6, <2>7 DEF IndInv, ChunksInv, LanesInv, ResultIsReference
  <1>4. CASE ~(call.n >= MultipleBlocksThreshold)
    <2>1. loop' = "full" /\ left' = call.n /\ n_blocks' = n_blocks
      BY <1>4 DEF LongInput
    <2>2. TypeOK'
      BY <1>1, <1>2, <2>1 DEF IndInv, TypeOK
    <2>3. PositionInv'
      BY <1>1, <1>2, <1>5, <2>1, Geometry DEF PositionInv, InBlock
    <2> QED
      BY <1>1, <1>5, <2>2, <2>3 DEF IndInv, ChunksInv, LanesInv, ResultIsReference
  <1> QED
    BY <1>3, <1>4

\* Both forms start a block with nothing but the twisting constants.
LEMMA StartStep == IndInv /\ StartBlock => IndInv'
  <1> SUFFICES ASSUME IndInv, StartBlock PROVE IndInv'
    OBVIOUS
  <1>1. /\ pc = "head" /\ pc' = "chunks" /\ i' = 0 /\ oh' = FreshOh
        /\ loop' = (IF loop = "full" /\ left <= BlockBytes THEN "last" ELSE loop)
        /\ UNCHANGED <<call, data, left, n_blocks, poly, result>>
    BY DEF StartBlock, LastLeft
  <1>2. TypeOK'
    BY <1>1, Geometry DEF IndInv, TypeOK
  <1>3. left \in Nat
    BY CallSize DEF IndInv, TypeOK
  <1>5. PolyInv' /\ absorbed' = absorbed
    BY <1>1, PolyFrame DEF IndInv
  <1>4. PositionInv'
    <2> USE <1>1, <1>5 DEF IndInv, PositionInv, InBlock
    <2>1. CASE loop = "full" /\ left <= BlockBytes
      BY <1>3, <2>1, Geometry
    <2>2. CASE ~(loop = "full" /\ left <= BlockBytes)
      BY <1>3, <2>2, Geometry
    <2> QED
      BY <2>1, <2>2
  <1>6. data' \in Nat
    BY <1>2, CallSize DEF TypeOK
  <1>7. /\ FreshOh.acc = Zero /\ FreshOh.shifted = Zero /\ FreshOh.lrc = [Zero EXCEPT ![0] = {TwistToken}]
        /\ Zero[0] = {} /\ Zero[1] = {} /\ DOMAIN Zero = 0 .. 1
    BY DEF FreshOh, Zero
  <1>8. Pairs(0) = {} /\ \A lane \in 0 .. 1 : Lane(0, lane) = {}
    BY DEF Pairs, Lane
  <1>9. ChunksInv'
    <2>1. end' \in Nat
      <3>1. size' \in 1 .. BlockBytes
        BY <1>1, <1>4, Geometry DEF size, PositionInv, InBlock
      <3>2. PICK k \in 0 .. BlockChunks - 1 : end' = 2 * k
        BY <3>1, PairsOfBlock DEF end
      <3> QED
        BY <3>2
    <2>2. PHTerms(data', 0) = {} /\ LrcTerms(data', 0) = {TwistToken}
      BY <1>8 DEF PHTerms, LrcTerms
    <2>3. TwistTerms(data', IF 0 < end' THEN 0 + 2 ELSE 0) = {}
      BY <1>8 DEF TwistTerms, Pairs
    <2> QED
      BY <1>1, <1>7, <2>1, <2>2, <2>3 DEF ChunksInv
  <1>10. LanesInv'
    <2>1. 0 <= OhParamCount - 4 /\ 0 % 4 = 0
      BY Geometry
    <2>2. \A lane \in 0 .. 1 : LanePH(data', 0, lane) = {} /\ LaneTwist(data', 0, lane) = {}
      BY <1>8 DEF LanePH, LaneTwist
    <2>3. LaneLrc(data', 0, 0) = {TwistToken} /\ LaneLrc(data', 0, 1) = {}
      BY <1>8 DEF LaneLrc
    <2> QED
      BY <1>1, <1>7, <2>1, <2>2, <2>3 DEF LanesInv
  <1> QED
    BY <1>1, <1>2, <1>4, <1>5, <1>9, <1>10 DEF IndInv, ResultIsReference

\* A chunk, or the end of them, of a block that does not change.
LEMMA MixFrame ==
    ASSUME IndInv, pc = "chunks", pc' \in {"chunks", "end"}, i' \in 0 .. OhParamCount - 2,
           UNCHANGED <<call, loop, data, left, n_blocks, poly, result>>
    PROVE  /\ TypeOK' /\ PositionInv' /\ PolyInv' /\ ResultIsReference'
           /\ size' = size /\ end' = end /\ (Wide <=> Wide')
  <1>1. TypeOK'
    BY DEF IndInv, TypeOK
  <1>2. PolyInv' /\ absorbed' = absorbed
    BY PolyFrame DEF IndInv
  <1>3. PositionInv'
    BY <1>2 DEF IndInv, PositionInv, InBlock
  <1>4. size' = size /\ (Wide <=> Wide')
    BY DEF size, Wide
  <1>5. end' = end
    BY <1>4 DEF end
  <1> QED
    BY <1>1, <1>2, <1>3, <1>4, <1>5 DEF ResultIsReference

\* Chunks mixed one by one.
LEMMA MixStep == IndInv /\ MixChunk => IndInv'
  <1> SUFFICES ASSUME IndInv, MixChunk PROVE IndInv'
    OBVIOUS
  <1>1. /\ pc = "chunks" /\ ~Wide
        /\ UNCHANGED <<call, loop, data, left, n_blocks, poly, result>>
    BY DEF MixChunk
  <1>2. PICK k \in 0 .. BlockChunks - 1 : end = 2 * k /\ end <= OhParamCount - 2 /\ end % 2 = 0
    BY <1>1, SizeOfBlock DEF IndInv
  <1>3. /\ i \in Nat /\ data \in Nat /\ i % 2 = 0 /\ i <= end
        /\ DOMAIN oh.acc = 0 .. 1 /\ DOMAIN oh.lrc = 0 .. 1 /\ DOMAIN oh.shifted = 0 .. 1
        /\ oh.acc[0] = PHTerms(data, i) /\ oh.lrc[0] = LrcTerms(data, i)
        /\ oh.shifted[0] = TwistTerms(data, IF i < end THEN i + 2 ELSE i)
    BY <1>1, CallSize DEF IndInv, TypeOK, ChunksInv
  <1>4. end = end_full_pairs(size)
    BY DEF end
  <1>5. CASE i < end
    <2>1. i' = i + 2 /\ oh' = OneChunk /\ pc' = "chunks"
      BY <1>1, <1>4, <1>5 DEF MixChunk
    <2>2. i' \in 0 .. OhParamCount - 2 /\ i' % 2 = 0 /\ i' <= end
      <3>1. (i + 2) % 2 = 0 /\ (i + 1) % 2 = 1
        BY <1>3
      <3>2. end # i + 1 /\ end \in Nat
        BY <1>2, <3>1
      <3> QED
        BY <1>2, <1>3, <1>5, <2>1, <3>1, <3>2, Geometry
    <2>3. /\ TypeOK' /\ PositionInv' /\ PolyInv' /\ ResultIsReference'
          /\ size' = size /\ end' = end /\ (Wide <=> Wide')
      BY <1>1, <2>1, <2>2, MixFrame
    <2> DEFINE x == {Term(PHOf(data, i), 0)}
    <2>4. /\ DOMAIN oh'.acc = 0 .. 1 /\ oh'.acc[0] = Xor(oh.acc[0], x)
          /\ DOMAIN oh'.lrc = 0 .. 1
          /\ oh'.lrc[0] = Xor(oh.lrc[0], {Mixed(i, ChunkOfPair(data, i))})
          /\ DOMAIN oh'.shifted = 0 .. 1
          /\ oh'.shifted[0] = IF i + 2 >= end THEN oh.shifted[0] ELSE Shift(Xor(oh.shifted[0], x))
      BY <1>3, <1>4, <2>1 DEF OneChunk
    <2>5. oh'.acc[0] = PHTerms(data, i + 2)
      BY <1>3, <2>4, PHStep
    <2>6. oh'.lrc[0] = LrcTerms(data, i + 2)
      <3>1. i <= OhParamCount - 2
        BY <1>2, <1>3, <1>5, Geometry
      <3> QED
        BY <1>3, <2>4, <3>1, LrcStep
    <2>7. oh'.shifted[0] = TwistTerms(data, IF i + 2 < end THEN (i + 2) + 2 ELSE i + 2)
      <3>1. oh.shifted[0] = TwistTerms(data, i + 2)
        BY <1>3, <1>5
      <3>2. PrevTerms(data, i + 2) = x
        <4>1. i + 2 # 0 /\ (i + 2) - 2 = i
          BY <1>3
        <4> QED
          BY <4>1 DEF PrevTerms
      <3>3. Shift(Xor(TwistTerms(data, i + 2), x)) = TwistTerms(data, (i + 2) + 2)
        <4>1. i + 2 \in Nat /\ (i + 2) % 2 = 0
          BY <1>3
        <4> QED
          <5>1. data \in Int
            BY <1>3
          <5>2. Shift(Xor(TwistTerms(data, i + 2), PrevTerms(data, i + 2)))
                  = TwistTerms(data, (i + 2) + 2)
            BY <4>1, <5>1, TwistStep
          <5> QED
            BY <3>2, <5>2
      <3>4. CASE i + 2 >= end
        BY <1>2, <1>3, <2>4, <3>1, <3>4
      <3>5. CASE i + 2 < end
        BY <1>2, <1>3, <2>4, <3>1, <3>3, <3>5
      <3> QED
        BY <1>2, <1>3, <3>4, <3>5
    <2>8. ChunksInv'
      BY <1>1, <2>1, <2>2, <2>3, <2>4, <2>5, <2>6, <2>7 DEF ChunksInv
    <2>9. LanesInv'
      BY <1>1, <2>3 DEF LanesInv
    <2> QED
      BY <2>3, <2>8, <2>9 DEF IndInv
  <1>6. CASE ~(i < end)
    <2>1. i' = i /\ oh' = oh /\ pc' = "end"
      BY <1>1, <1>4, <1>6 DEF MixChunk
    <2>2. i' \in 0 .. OhParamCount - 2 /\ i' = end
      BY <1>2, <1>3, <1>6, <2>1
    <2>3. /\ TypeOK' /\ PositionInv' /\ PolyInv' /\ ResultIsReference'
          /\ size' = size /\ end' = end /\ (Wide <=> Wide')
      BY <1>1, <2>1, <2>2, MixFrame
    <2>4. ChunksInv'
      BY <1>1, <1>3, <2>1, <2>2, <2>3 DEF ChunksInv
    <2>5. LanesInv'
      BY <2>1 DEF LanesInv
    <2> QED
      BY <2>3, <2>4, <2>5 DEF IndInv
  <1> QED
    BY <1>5, <1>6

\* Chunks mixed two at a time, and the merge of the lanes.
LEMMA WideStep == IndInv /\ MixWide => IndInv'
  <1> SUFFICES ASSUME IndInv, MixWide PROVE IndInv'
    OBVIOUS
  <1>1. /\ pc = "chunks" /\ Wide /\ loop = "batch"
        /\ UNCHANGED <<call, loop, data, left, n_blocks, poly, result>>
    BY DEF MixWide, Wide
  <1>2. end = OhParamCount - 2
    BY <1>1, SizeOfBlock DEF IndInv
  <1>3. /\ i \in Nat /\ data \in Nat /\ i % 4 = 0 /\ i <= OhParamCount - 4
        /\ \A lane \in 0 .. 1 : /\ oh.acc[lane] = LanePH(data, i, lane)
                                /\ oh.lrc[lane] = LaneLrc(data, i, lane)
                                /\ oh.shifted[lane] = LaneTwist(data, i, lane)
    BY <1>1, CallSize DEF IndInv, TypeOK, LanesInv
  <1>4. OhParamCount % 4 = 0 /\ OhParamCount \in Nat
    BY OneShotAssumption, Geometry
  <1>5. CASE i <= OhParamCount - 8
    <2>1. i' = i + 4 /\ oh' = TwoChunks /\ pc' = "chunks"
      BY <1>1, <1>5 DEF MixWide
    <2>2. i' \in 0 .. OhParamCount - 2 /\ i' % 4 = 0 /\ i' <= OhParamCount - 4
      BY <1>3, <1>4, <1>5, <2>1
    <2>3. /\ TypeOK' /\ PositionInv' /\ PolyInv' /\ ResultIsReference'
          /\ size' = size /\ end' = end /\ (Wide <=> Wide')
      BY <1>1, <2>1, <2>2, MixFrame
    <2>4. ChunksInv'
      BY <1>1, <2>1, <2>3 DEF ChunksInv, TwoChunks
    <2>5. ASSUME NEW lane \in 0 .. 1
          PROVE  /\ oh'.acc[lane] = LanePH(data, i + 4, lane)
                 /\ oh'.lrc[lane] = LaneLrc(data, i + 4, lane)
                 /\ oh'.shifted[lane] = LaneTwist(data, i + 4, lane)
      <3> DEFINE key == i + 2 * lane
      <3>1. /\ oh'.acc[lane] = Xor(oh.acc[lane], {Term(PHOf(data, key), 0)})
            /\ oh'.lrc[lane] = Xor(oh.lrc[lane], {Mixed(key, ChunkOfPair(data, key))})
            /\ oh'.shifted[lane] = Xor(oh.shifted[lane], {Term(PHOf(data, key), LaneShift(i))})
        BY <2>1 DEF TwoChunks
      <3>2. /\ Xor(LanePH(data, i, lane), {Term(PHOf(data, key), 0)}) = LanePH(data, i + 4, lane)
            /\ Xor(LaneLrc(data, i, lane), {Mixed(key, ChunkOfPair(data, key))})
                 = LaneLrc(data, i + 4, lane)
            /\ Xor(LaneTwist(data, i, lane), {Term(PHOf(data, key), LaneShift(i))})
                 = LaneTwist(data, i + 4, lane)
        <4>1. data \in Int /\ i \in Nat /\ i % 4 = 0 /\ i <= OhParamCount - 4
          BY <1>3
        <4> QED
          BY <4>1, LaneStep
      <3> QED
        BY <1>3, <3>1, <3>2
    <2>6. LanesInv'
      BY <1>1, <2>1, <2>2, <2>5 DEF LanesInv
    <2> QED
      BY <2>3, <2>4, <2>6 DEF IndInv
  <1>6. CASE ~(i <= OhParamCount - 8)
    <2>1. i' = i + 2 /\ oh' = MergeLanes /\ pc' = "end"
      BY <1>1, <1>6 DEF MixWide
    <2>2. i = OhParamCount - 4
      BY <1>3, <1>4, <1>6
    <2>3. i' \in 0 .. OhParamCount - 2 /\ i' = end /\ i' % 2 = 0
      BY <1>2, <1>3, <1>4, <2>1, <2>2
    <2>4. /\ TypeOK' /\ PositionInv' /\ PolyInv' /\ ResultIsReference'
          /\ size' = size /\ end' = end /\ (Wide <=> Wide')
      BY <1>1, <2>1, <2>3, MixFrame
    <2>5. /\ DOMAIN oh'.acc = 0 .. 1 /\ DOMAIN oh'.lrc = 0 .. 1 /\ DOMAIN oh'.shifted = 0 .. 1
          /\ oh'.acc[0] = Xor(Xor(oh.acc[0], oh.acc[1]), {Term(PHOf(data, i), 0)})
          /\ oh'.lrc[0] = Xor(Xor(oh.lrc[0], oh.lrc[1]), {Mixed(i, ChunkOfPair(data, i))})
          /\ oh'.shifted[0] = Shift(Xor(Shift(oh.shifted[0]), oh.shifted[1]))
      BY <2>1 DEF MergeLanes, Zero
    <2>6. /\ oh'.acc[0] = PHTerms(data, i + 2) /\ oh'.lrc[0] = LrcTerms(data, i + 2)
          /\ oh'.shifted[0] = TwistTerms(data, i + 2)
      BY <1>3, <2>2, <2>5, LanesMerge
    <2>7. ~(i' < end')
      BY <2>3, <2>4
    <2>8. ChunksInv'
      BY <1>1, <2>1, <2>3, <2>4, <2>5, <2>6, <2>7 DEF ChunksInv
    <2>9. LanesInv'
      BY <2>1 DEF LanesInv
    <2> QED
      BY <2>4, <2>8, <2>9 DEF IndInv
  <1> QED
    BY <1>5, <1>6

\* The values of the block that ends join the others.
LEMMA AbsorbStep ==
    ASSUME IndInv, pc = "end", Absorb
    PROVE  PolyInv' /\ absorbed' = absorbed + 1 /\ DOMAIN poly' = 0 .. 1
  <1>1. call' = call /\ DOMAIN poly' = 0 .. 1
    BY DEF Absorb
  <1>2. /\ absorbed \in Nat /\ poly[0] = Values(absorbed, FALSE)
        /\ Fingerprint => poly[1] = Values(absorbed, TRUE)
    BY DEF IndInv, PolyInv
  <1>3. /\ BlockHash = oh_compress_one_block(call.n, absorbed, FALSE)
        /\ BlockTwisted = oh_compress_one_block(call.n, absorbed, TRUE)
    BY ValuesOfBlock DEF IndInv
  <1>4. /\ poly'[0] = Append(poly[0], BlockHash)
        /\ Fingerprint => poly'[1] = Append(poly[1], BlockTwisted)
    BY DEF Absorb, horner_double_update
  <1>5. ASSUME NEW secondary \in BOOLEAN
        PROVE  /\ Append(Values(absorbed, secondary), oh_compress_one_block(call.n, absorbed, secondary))
                    = Values(absorbed + 1, secondary)
               /\ Len(Values(absorbed + 1, secondary)) = absorbed + 1
    <2> DEFINE v == [j \in Nat |-> oh_compress_one_block(call.n, j - 1, secondary)]
    <2>1. absorbed + 1 \in Nat /\ (absorbed + 1) - 1 = absorbed
      BY <1>2
    <2>2. /\ Values(absorbed, secondary) = [j \in 1 .. absorbed |-> v[j]]
          /\ Values(absorbed + 1, secondary) = [j \in 1 .. absorbed + 1 |-> v[j]]
      BY <2>1 DEF Values
    <2>3. v[absorbed + 1] = oh_compress_one_block(call.n, absorbed, secondary)
      BY <2>1
    <2> HIDE DEF v
    <2> QED
      BY <1>2, <2>1, <2>2, <2>3, AppendValue
  <1>6. /\ poly'[0] = Values(absorbed + 1, FALSE) /\ Len(poly'[0]) = absorbed + 1
        /\ Fingerprint => poly'[1] = Values(absorbed + 1, TRUE)
    BY <1>2, <1>3, <1>4, <1>5
  <1>7. absorbed' = absorbed + 1
    BY <1>6 DEF absorbed
  <1>8. /\ Values(absorbed, FALSE)' = Values(absorbed + 1, FALSE)
        /\ Values(absorbed, TRUE)' = Values(absorbed + 1, TRUE)
        /\ Fingerprint' <=> Fingerprint
    BY <1>1, <1>7 DEF Values, Fingerprint
  <1>9. absorbed' \in Nat
    BY <1>2, <1>7
  <1> QED
    BY <1>1, <1>6, <1>7, <1>8, <1>9 DEF PolyInv

\* Where the next block starts.
LEMMA NextBlock ==
    ASSUME IndInv, pc = "end"
    PROVE  /\ absorbed \in Nat /\ data \in Nat /\ left \in Nat /\ n_blocks \in Nat /\ call.n \in Nat
           /\ data = absorbed * BlockBytes
           /\ data + BlockBytes = (absorbed + 1) * BlockBytes
           /\ data + size <= call.n
           /\ (absorbed + 1) - 1 = absorbed
  <1>1. absorbed \in Nat /\ data = absorbed * BlockBytes
    BY DEF IndInv, PolyInv, PositionInv, InBlock
  <1>2. data \in Nat /\ left \in Nat /\ n_blocks \in Nat /\ call.n \in Nat
    BY CallSize DEF IndInv, TypeOK
  <1>3. data + BlockBytes = (absorbed + 1) * BlockBytes
    BY <1>1, Geometry
  <1>4. data + size <= call.n
    BY SizeOfBlock DEF IndInv
  <1> QED
    BY <1>1, <1>2, <1>3, <1>4

\* A block of the batch ends, perhaps the last one, and perhaps with nothing after it.
LEMMA EndBatchStep == IndInv /\ EndBatchBlock => IndInv'
  <1> SUFFICES ASSUME IndInv, EndBatchBlock PROVE IndInv'
    OBVIOUS
  <1>1. /\ pc = "end" /\ loop = "batch" /\ data' = data + BlockBytes /\ n_blocks' = n_blocks - 1
        /\ loop' = (IF n_blocks' = 0 THEN "last" ELSE "batch")
        /\ pc' = (IF n_blocks' = 0 /\ left = 0 THEN "finalize" ELSE "head")
        /\ UNCHANGED <<call, left, i, oh, result>>
    BY DEF EndBatchBlock, Absorb
  <1>2. PolyInv' /\ absorbed' = absorbed + 1 /\ DOMAIN poly' = 0 .. 1
    BY <1>1, AbsorbStep DEF EndBatchBlock
  <1>3. /\ absorbed \in Nat /\ data \in Nat /\ left \in Nat /\ n_blocks \in Nat /\ call.n \in Nat
        /\ data = absorbed * BlockBytes
        /\ data + BlockBytes = (absorbed + 1) * BlockBytes
        /\ (absorbed + 1) - 1 = absorbed
    BY <1>1, NextBlock
  <1>4. /\ n_blocks >= 1 /\ left < BlockBytes /\ call.n = data + n_blocks * BlockBytes + left
        /\ call.n > ChunkSize
    BY <1>1 DEF IndInv, PositionInv, InBlock
  <1>5. /\ n_blocks' \in Nat
        /\ n_blocks * BlockBytes = n_blocks' * BlockBytes + BlockBytes
        /\ n_blocks' * BlockBytes \in Nat
    BY <1>1, <1>3, <1>4, Geometry
  <1>6. call.n = data' + n_blocks' * BlockBytes + left
    BY <1>1, <1>3, <1>4, <1>5, Geometry
  <1>7. TypeOK'
    <2>1. data' \in 0 .. call.n
      BY <1>1, <1>3, <1>5, <1>6, Geometry
    <2>2. n_blocks' \in 0 .. call.n
      BY <1>1, <1>3, <1>4 DEF IndInv, TypeOK
    <2> QED
      BY <1>1, <1>2, <2>1, <2>2 DEF IndInv, TypeOK
  <1>8. PositionInv'
    <2>1. CASE n_blocks' = 0 /\ left = 0
      <3>1. call.n = data + BlockBytes
        BY <1>1, <1>3, <1>5, <1>6, <2>1, Geometry
      <3> QED
        BY <1>1, <1>2, <1>3, <1>4, <2>1, <3>1, Geometry DEF PositionInv, InBlock
    <2>2. CASE n_blocks' = 0 /\ left # 0
      <3>1. call.n = data' + left /\ left \in 1 .. BlockBytes
        BY <1>1, <1>3, <1>4, <1>5, <1>6, <2>2, Geometry
      <3> QED
        BY <1>1, <1>2, <1>3, <1>4, <2>2, <3>1 DEF PositionInv, InBlock
    <2>3. CASE n_blocks' # 0
      BY <1>1, <1>2, <1>3, <1>4, <1>5, <1>6, <2>3 DEF PositionInv, InBlock
    <2> QED
      BY <2>1, <2>2, <2>3
  <1> QED
    BY <1>1, <1>2, <1>7, <1>8 DEF IndInv, ChunksInv, LanesInv, ResultIsReference

\* A block of the loop ends, and more than one byte follows it.
LEMMA EndFullStep == IndInv /\ EndFullBlock => IndInv'
  <1> SUFFICES ASSUME IndInv, EndFullBlock PROVE IndInv'
    OBVIOUS
  <1>1. /\ pc = "end" /\ loop = "full" /\ data' = data + BlockBytes /\ left' = left - BlockBytes
        /\ pc' = "head"
        /\ UNCHANGED <<call, loop, n_blocks, i, oh, result>>
    BY DEF EndFullBlock, Absorb
  <1>2. PolyInv' /\ absorbed' = absorbed + 1 /\ DOMAIN poly' = 0 .. 1
    BY <1>1, AbsorbStep DEF EndFullBlock
  <1>3. /\ absorbed \in Nat /\ data \in Nat /\ left \in Nat /\ n_blocks \in Nat /\ call.n \in Nat
        /\ data + BlockBytes = (absorbed + 1) * BlockBytes
    BY <1>1, NextBlock
  <1>4. left > BlockBytes /\ call.n = data + left /\ call.n > ChunkSize
    BY <1>1 DEF IndInv, PositionInv, InBlock
  <1>5. left' >= 1 /\ call.n = data' + left' /\ data' \in 0 .. call.n /\ left' \in 0 .. call.n
    BY <1>1, <1>3, <1>4, Geometry
  <1>6. TypeOK'
    BY <1>1, <1>2, <1>5 DEF IndInv, TypeOK
  <1>7. PositionInv'
    BY <1>1, <1>2, <1>3, <1>4, <1>5 DEF PositionInv, InBlock
  <1> QED
    BY <1>1, <1>2, <1>6, <1>7 DEF IndInv, ChunksInv, LanesInv, ResultIsReference

\* The last block ends.
LEMMA EndLastStep == IndInv /\ EndLastBlock => IndInv'
  <1> SUFFICES ASSUME IndInv, EndLastBlock PROVE IndInv'
    OBVIOUS
  <1>1. /\ pc = "end" /\ loop = "last" /\ pc' = "finalize"
        /\ UNCHANGED <<call, loop, data, left, n_blocks, i, oh, result>>
    BY DEF EndLastBlock, Absorb
  <1>2. PolyInv' /\ absorbed' = absorbed + 1 /\ DOMAIN poly' = 0 .. 1
    BY <1>1, AbsorbStep DEF EndLastBlock
  <1>3. /\ absorbed \in Nat /\ data \in Nat /\ left \in Nat
        /\ data = absorbed * BlockBytes /\ (absorbed + 1) - 1 = absorbed
    BY <1>1, NextBlock
  <1>4. left \in 1 .. BlockBytes /\ call.n = data + left /\ call.n > ChunkSize
    BY <1>1 DEF IndInv, PositionInv, InBlock
  <1>5. data < call.n /\ call.n <= data + BlockBytes
    BY <1>3, <1>4, Geometry
  <1>6. TypeOK'
    BY <1>1, <1>2 DEF IndInv, TypeOK
  <1>7. PositionInv'
    BY <1>1, <1>2, <1>3, <1>4, <1>5 DEF PositionInv, InBlock
  <1> QED
    BY <1>1, <1>2, <1>6, <1>7 DEF IndInv, ChunksInv, LanesInv, ResultIsReference

\* The result is made of the polynomials.
LEMMA FinalizeStep == IndInv /\ Finalize => IndInv'
  <1> SUFFICES ASSUME IndInv, Finalize PROVE IndInv'
    OBVIOUS
  <1>1. pc' = "done" /\ UNCHANGED <<call, loop, data, left, n_blocks, i, oh, poly>>
    BY DEF Finalize
  <1>2. result' = Expected(call.which, call.n)
    BY FinalizeIsExpected DEF IndInv
  <1>3. TypeOK'
    BY <1>1 DEF IndInv, TypeOK
  <1>4. PositionInv' /\ PolyInv'
    BY <1>1 DEF PositionInv, PolyInv, InBlock
  <1>5. ChunksInv' /\ LanesInv'
    BY <1>1 DEF IndInv, ChunksInv, LanesInv
  <1> QED
    BY <1>1, <1>2, <1>3, <1>4, <1>5 DEF IndInv, ResultIsReference

\* Nothing changes.
LEMMA StutterStep == IndInv /\ UNCHANGED vars => IndInv'
  <1> SUFFICES ASSUME IndInv, UNCHANGED vars PROVE IndInv'
    OBVIOUS
  <1>1. UNCHANGED <<call, pc, loop, data, left, n_blocks, i, oh, poly, result>>
    BY DEF vars
  <1>2. TypeOK'
    BY <1>1 DEF IndInv, TypeOK
  <1>3. absorbed' = absorbed /\ end' = end
    BY <1>1 DEF absorbed, end, size
  <1>4. PositionInv'
    BY <1>1, <1>3 DEF IndInv, PositionInv, InBlock
  <1>5. PolyInv'
    BY <1>1, PolyFrame DEF IndInv, PolyInv
  <1>6. ChunksInv'
    BY <1>1, <1>3 DEF IndInv, ChunksInv, Wide
  <1>7. LanesInv' /\ ResultIsReference'
    BY <1>1 DEF IndInv, LanesInv, Wide, ResultIsReference
  <1> QED
    BY <1>2, <1>4, <1>5, <1>6, <1>7 DEF IndInv
-----------------------------------------------------------------------------
(* The theorems. *)

\* The invariant holds in every reachable state.
THEOREM OneShotInvariant == Spec => []IndInv
  <1>1. IndInv /\ [Next]_vars => IndInv'
    BY ImmediateStep, LongStep, StartStep, MixStep, WideStep, EndBatchStep, EndFullStep,
       EndLastStep, FinalizeStep, StutterStep DEF Next
  <1> QED
    BY InitHolds, <1>1, PTL DEF Spec

\* umash_full and umash_fprint return what umash_reference.py defines, for every size
\* of message, whichever of the short, medium, 128-bit and 256-bit code hashes it.
THEOREM OneShotIsReference == Spec => []ResultIsReference
  BY OneShotInvariant, PTL DEF IndInv

\* No load of a chunk leaves the message: not those of 256-bit code, which takes two
\* chunks at a time, nor that of the last chunk, which starts before its block when the
\* block has less than a chunk.
THEOREM OneShotReadsInside == Spec => []ReadsInside
  <1>1. IndInv => ReadsInside
    <2> SUFFICES ASSUME IndInv PROVE ReadsInside
      OBVIOUS
    <2>1. CASE pc = "chunks" /\ ~Wide /\ i < end_full_pairs(size)
      <3>1. PICK k \in 0 .. BlockChunks - 1, r \in 1 .. ChunkSize :
                    end = 2 * k /\ end % 2 = 0 /\ end * WordSize + r = size
        BY <2>1, SizeOfBlock DEF IndInv
      <3>2. data \in Nat /\ size \in Nat /\ data + size <= call.n /\ call.n \in Nat
        BY <2>1, SizeOfBlock, Geometry DEF IndInv
      <3>3. i \in Nat /\ i % 2 = 0 /\ i < end
        BY <2>1 DEF IndInv, TypeOK, ChunksInv, end
      <3>4. i + 2 <= end /\ end \in Nat
        <4>1. (i + 1) % 2 = 1
          BY <3>3
        <4> QED
          BY <3>1, <3>3, <4>1
      <3>5. (i + 2) * WordSize <= end * WordSize
        BY <3>3, <3>4, Geometry
      <3>6. data + (i + 2) * WordSize <= call.n
        BY <3>1, <3>2, <3>3, <3>4, <3>5, Geometry
      <3> QED
        BY <2>1, <3>6 DEF ReadsInside
    <2>2. CASE pc = "chunks" /\ Wide
      <3>1. data \in Nat /\ call.n \in Nat /\ size = BlockBytes /\ data + BlockBytes <= call.n
        BY <2>2, SizeOfBlock DEF IndInv, Wide, size
      <3>2. i \in Nat /\ i + 4 <= OhParamCount
        BY <2>2, Geometry DEF IndInv, TypeOK, LanesInv
      <3>3. (i + 4) * WordSize <= BlockBytes
        BY <3>2, Geometry
      <3>4. data + (i + 4) * WordSize <= call.n
        BY <3>1, <3>2, <3>3, Geometry
      <3> QED
        BY <2>2, <3>4 DEF ReadsInside
    <2>3. CASE pc = "end"
      <3>1. size \in 1 .. BlockBytes /\ data \in Nat /\ data + size <= call.n /\ call.n > ChunkSize
        BY <2>3, SizeOfBlock DEF IndInv
      <3>2. loop = "last" => call.n = data + left /\ size = left
        BY <2>3 DEF IndInv, PositionInv, InBlock, size
      <3>3. loop # "last" => size = BlockBytes
        BY DEF size
      <3>4. data + size - ChunkSize >= 0
        BY <3>1, <3>2, <3>3, CallSize, Geometry DEF IndInv
      <3> QED
        BY <2>3, <3>1, <3>4 DEF ReadsInside
    <2> QED
      BY <2>1, <2>2, <2>3 DEF ReadsInside
  <1> QED
    BY OneShotInvariant, <1>1, PTL
-----------------------------------------------------------------------------
(* Dispatch: any number of threads that make their first calls at once run *)
(* what the CPU supports, and each of them asks it at most once.           *)

\* Only one value is ever stored, and a thread that knows of a store finds it.
StoredOnce ==
    /\ \A p \in Functions : impl[p] \in {"initial", Chosen}
    /\ \A t \in Threads : \A p \in seen[t] : impl[p] = Chosen

\* What a thread is about to store or run is that value.
Carried ==
    \A t \in Threads :
        /\ step[t] \in {"storeHash", "storeFprint", "kernel"} => picked[t] = Chosen
        /\ ran[t].kernels \subseteq {Chosen}

\* A thread has picked once it stores, and has seen the stores it is past.
Picks ==
    \A t \in Threads :
        /\ ran[t].picks = 1 \/ (ran[t].picks = 0 /\ step[t] \notin {"storeHash", "storeFprint", "reload"})
        /\ ran[t].picks = 1 =>
              /\ step[t] # "initial"
              /\ step[t] # "storeHash" => "hash" \in seen[t]
              /\ step[t] \notin {"storeHash", "storeFprint"} => "fprint" \in seen[t]

DispatchInv == DispatchTypeOK /\ StoredOnce /\ Carried /\ Picks
-----------------------------------------------------------------------------
\* Initially nothing is stored and nobody has picked.
LEMMA DispatchInitHolds == DispatchInit => DispatchInv
  BY DEF DispatchInit, DispatchInv, DispatchTypeOK, StoredOnce, Carried, Picks, Functions, PointerValues, Kernels, Steps,
         MaxPicks

\* The choice is one of the two kernels, and does not change: cpu is the machine's.
LEMMA ChosenKernel == Chosen \in Kernels
  BY DEF Chosen, Kernels

\* It depends on the CPU only.
LEMMA ChosenStays == ASSUME cpu' = cpu PROVE Chosen' = Chosen
  BY DEF Chosen, has_vpclmulqdq

\* A load gives the stored value, or the initial one if its store is not known.
LEMMA LoadsAre ==
    ASSUME DispatchInv, NEW t \in Threads, NEW p \in Functions, NEW v \in Loads(t, p)
    PROVE  /\ v \in {"initial", Chosen}
           /\ v = "initial" => p \notin seen[t]
           /\ v # "initial" => impl[p] = v
  BY ChosenKernel DEF DispatchInv, StoredOnce, Loads, Kernels

-----------------------------------------------------------------------------
(* Each step keeps it. *)

\* A call that loads a kernel runs it; one that loads the initial function has
\* not picked before.
LEMMA CallKeeps == ASSUME DispatchInv, NEW t \in Threads, Call(t) PROVE DispatchInv'
  <1>1. PICK p \in Functions : \E v \in Loads(t, p) :
            /\ calling' = [calling EXCEPT ![t] = p] /\ Learn(t, p, v) /\ Enter(t, v)
            /\ picked' = [picked EXCEPT ![t] = v]
    BY DEF Call
  <1>2. PICK v \in Loads(t, p) :
            /\ calling' = [calling EXCEPT ![t] = p] /\ Learn(t, p, v) /\ Enter(t, v)
            /\ picked' = [picked EXCEPT ![t] = v]
    BY <1>1
  <1>3. /\ v \in {"initial", Chosen}
        /\ v = "initial" => p \notin seen[t]
        /\ v # "initial" => impl[p] = v
    BY LoadsAre
  <1>4. cpu' = cpu /\ impl' = impl /\ ran' = ran /\ step[t] = "idle"
    BY DEF Call
  <1>5. Chosen' = Chosen /\ Chosen \in Kernels
    BY <1>4, ChosenStays, ChosenKernel
  <1>6. seen' \in [Threads -> SUBSET Functions]
    BY <1>2 DEF DispatchInv, DispatchTypeOK, Learn
  <1>7. DispatchTypeOK'
    BY <1>2, <1>3, <1>4, <1>5, <1>6 DEF DispatchInv, DispatchTypeOK, Enter, Steps, PointerValues, Kernels
  <1>8. StoredOnce'
    BY <1>2, <1>3, <1>4, <1>5 DEF DispatchInv, DispatchTypeOK, StoredOnce, Learn
  <1>9. Carried'
    BY <1>2, <1>3, <1>4, <1>5 DEF DispatchInv, DispatchTypeOK, Carried, Enter
  <1>10. Picks'
    <2>1. SUFFICES ASSUME NEW u \in Threads
                   PROVE  /\ ran[u].picks = 1
                               \/ (ran[u].picks = 0
                                    /\ step'[u] \notin {"storeHash", "storeFprint", "reload"})
                          /\ ran[u].picks = 1 =>
                                /\ step'[u] # "initial"
                                /\ step'[u] # "storeHash" => "hash" \in seen'[u]
                                /\ step'[u] \notin {"storeHash", "storeFprint"} => "fprint" \in seen'[u]
      BY <1>4 DEF Picks
    <2>2. seen[u] \subseteq seen'[u]
      BY <1>2 DEF DispatchInv, DispatchTypeOK, Learn
    <2>3. CASE u = t
      BY <1>2, <1>3, <1>4, <2>2, <2>3 DEF DispatchInv, DispatchTypeOK, Picks, Enter, Functions
    <2>4. CASE u # t
      BY <1>2, <2>2, <2>4 DEF DispatchInv, DispatchTypeOK, Picks, Enter
    <2> QED
      BY <2>3, <2>4
  <1> QED
    BY <1>7, <1>8, <1>9, <1>10 DEF DispatchInv

\* umash_long_pick decides for the first time in this thread.
LEMMA PickKeeps == ASSUME DispatchInv, NEW t \in Threads, Pick(t) PROVE DispatchInv'
  <1>1. Chosen' = Chosen /\ Chosen \in Kernels
    BY ChosenStays, ChosenKernel DEF Pick
  <1>2. ran[t].picks = 0
    BY DEF DispatchInv, Picks, Pick
  <1>3. ran' = [ran EXCEPT ![t].picks = 1]
    BY <1>2 DEF Pick, MaxPicks
  <1>4. DispatchTypeOK'
    BY <1>1, <1>3 DEF DispatchInv, DispatchTypeOK, Pick, Steps, PointerValues, MaxPicks
  <1>5. StoredOnce'
    BY <1>1 DEF DispatchInv, StoredOnce, Pick
  <1>6. Carried'
    BY <1>1, <1>3 DEF DispatchInv, DispatchTypeOK, Carried, Pick
  <1>7. Picks'
    BY <1>3 DEF DispatchInv, DispatchTypeOK, Picks, Pick
  <1> QED
    BY <1>4, <1>5, <1>6, <1>7 DEF DispatchInv

\* The first store is of the choice,
LEMMA StoreHashKeeps == ASSUME DispatchInv, NEW t \in Threads, StoreHash(t) PROVE DispatchInv'
  <1>1. Chosen' = Chosen /\ Chosen \in Kernels
    BY ChosenStays, ChosenKernel DEF StoreHash
  <1>2. picked[t] = Chosen /\ impl' = [impl EXCEPT !["hash"] = Chosen]
    BY DEF DispatchInv, Carried, StoreHash, Store
  <1>3. seen' = [seen EXCEPT ![t] = @ \cup {"hash"}]
    BY DEF StoreHash, Store
  <1>4. DispatchTypeOK'
    BY <1>1, <1>2, <1>3 DEF DispatchInv, DispatchTypeOK, StoreHash, Steps, PointerValues, Kernels, Functions
  <1>5. StoredOnce'
    BY <1>1, <1>2, <1>3 DEF DispatchInv, DispatchTypeOK, StoredOnce, Functions
  <1>6. Carried'
    BY <1>1 DEF DispatchInv, DispatchTypeOK, Carried, StoreHash
  <1>7. Picks'
    BY <1>3 DEF DispatchInv, DispatchTypeOK, Picks, StoreHash
  <1> QED
    BY <1>4, <1>5, <1>6, <1>7 DEF DispatchInv

\* and so is the second.
LEMMA StoreFprintKeeps == ASSUME DispatchInv, NEW t \in Threads, StoreFprint(t) PROVE DispatchInv'
  <1>1. Chosen' = Chosen /\ Chosen \in Kernels
    BY ChosenStays, ChosenKernel DEF StoreFprint
  <1>2. picked[t] = Chosen /\ impl' = [impl EXCEPT !["fprint"] = Chosen]
    BY DEF DispatchInv, Carried, StoreFprint, Store
  <1>3. seen' = [seen EXCEPT ![t] = @ \cup {"fprint"}]
    BY DEF StoreFprint, Store
  <1>4. DispatchTypeOK'
    BY <1>1, <1>2, <1>3 DEF DispatchInv, DispatchTypeOK, StoreFprint, Steps, PointerValues, Kernels, Functions
  <1>5. StoredOnce'
    BY <1>1, <1>2, <1>3 DEF DispatchInv, DispatchTypeOK, StoredOnce, Functions
  <1>6. Carried'
    BY <1>1 DEF DispatchInv, DispatchTypeOK, Carried, StoreFprint
  <1>7. Picks'
    BY <1>3 DEF DispatchInv, DispatchTypeOK, Picks, StoreFprint
  <1> QED
    BY <1>4, <1>5, <1>6, <1>7 DEF DispatchInv

\* The reload finds a store of this thread or a later one, whichever pointer it is.
LEMMA ReloadKeeps == ASSUME DispatchInv, NEW t \in Threads, Reload(t) PROVE DispatchInv'
  <1>1. PICK v \in Loads(t, calling[t]) :
            Learn(t, calling[t], v) /\ Enter(t, v) /\ picked' = [picked EXCEPT ![t] = v]
    BY DEF Reload
  <1>2. calling[t] \in Functions /\ calling[t] \in seen[t]
    BY DEF DispatchInv, DispatchTypeOK, Picks, Reload, Functions
  <1>3. v = Chosen /\ Chosen \in Kernels /\ v # "initial"
    BY <1>2, LoadsAre, ChosenKernel DEF Kernels
  <1>4. cpu' = cpu /\ impl' = impl /\ ran' = ran /\ calling' = calling /\ step[t] = "reload"
    BY DEF Reload
  <1>5. Chosen' = Chosen
    BY <1>4, ChosenStays
  <1>6. seen' = seen
    BY <1>1, <1>2, <1>3 DEF DispatchInv, DispatchTypeOK, Learn
  <1>7. step' = [step EXCEPT ![t] = "kernel"]
    BY <1>1, <1>3 DEF Enter
  <1>8. DispatchTypeOK'
    BY <1>1, <1>3, <1>4, <1>6, <1>7 DEF DispatchInv, DispatchTypeOK, Steps, PointerValues
  <1>9. StoredOnce' /\ Carried' /\ Picks'
    BY <1>1, <1>3, <1>4, <1>5, <1>6, <1>7 DEF DispatchInv, DispatchTypeOK, StoredOnce, Carried, Picks
  <1> QED
    BY <1>8, <1>9 DEF DispatchInv

\* The kernel that runs is the choice.
LEMMA KernelKeeps == ASSUME DispatchInv, NEW t \in Threads, Kernel(t) PROVE DispatchInv'
  <1>1. Chosen' = Chosen /\ Chosen \in Kernels
    BY ChosenStays, ChosenKernel DEF Kernel
  <1>2. picked[t] = Chosen
    BY DEF DispatchInv, Carried, Kernel
  <1>3. ran' = [ran EXCEPT ![t].kernels = @ \cup {Chosen}]
    BY <1>2 DEF Kernel
  <1>4. DispatchTypeOK'
    BY <1>1, <1>3 DEF DispatchInv, DispatchTypeOK, Kernel, Steps, PointerValues
  <1>5. StoredOnce'
    BY <1>1 DEF DispatchInv, StoredOnce, Kernel
  <1>6. Carried'
    BY <1>1, <1>3 DEF DispatchInv, DispatchTypeOK, Carried, Kernel
  <1>7. Picks'
    BY <1>3 DEF DispatchInv, DispatchTypeOK, Picks, Kernel
  <1> QED
    BY <1>4, <1>5, <1>6, <1>7 DEF DispatchInv
-----------------------------------------------------------------------------
(* What holds of every behaviour, for any set of threads and any CPU. *)

\* The inductive invariant holds in every reachable state of the dispatch.
THEOREM DispatchInvariant == DispatchSpec => []DispatchInv
  <1>1. ASSUME DispatchInv, [DispatchNext]_dispatchVars PROVE DispatchInv'
    <2>1. CASE UNCHANGED dispatchVars
      BY <1>1, <2>1 DEF dispatchVars, DispatchInv, DispatchTypeOK, StoredOnce, Carried, Picks, Chosen, has_vpclmulqdq
    <2>2. ASSUME NEW t \in Threads, Call(t) \/ InCall(t) PROVE DispatchInv'
      BY <1>1, <2>2, CallKeeps, PickKeeps, StoreHashKeeps, StoreFprintKeeps, ReloadKeeps,
         KernelKeeps DEF InCall
    <2> QED
      BY <1>1, <2>1, <2>2 DEF DispatchNext
  <1> QED
    BY <1>1, DispatchInitHolds, PTL DEF DispatchSpec

\* However the first calls of any number of threads overlap, with relaxed stores and
\* loads, every call runs the implementation that the CPU and the operating system
\* support, and no thread picks twice (umash_long.inc:81-206).
THEOREM SupportedKernelsRun == DispatchSpec => []RunsSupported
  <1>1. ASSUME DispatchInv, NEW t \in Threads
        PROVE  /\ ran[t].picks <= 1
               /\ ran[t].kernels \subseteq {Chosen}
    BY <1>1 DEF DispatchInv, Carried, Picks
  <1>2. Chosen = "vpclmulqdq" =>
            cpu.level >= 7 /\ cpu.vpclmulqdq /\ {"sse", "avx"} \subseteq cpu.saved
    BY Zenon DEF Chosen, has_vpclmulqdq
  <1>3. DispatchInv => RunsSupported
    BY <1>1, <1>2 DEF RunsSupported
  <1> QED
    BY <1>3, DispatchInvariant, PTL
=============================================================================
