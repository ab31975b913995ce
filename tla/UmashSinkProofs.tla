--------------------------- MODULE UmashSinkProofs ---------------------------
(***************************************************************************)
(* What UmashSink guarantees for every geometry, threshold and way of      *)
(* cutting the stream into updates: the invariants of the sink, and that   *)
(* a digest is the reference's hash of the bytes fed so far.               *)
(***************************************************************************)
EXTENDS UmashSink, UmashKernelsProofs, SequenceTheorems

\* The value of block j in the polynomial of the first or the second hash.
BlockValue(w, j) ==
    IF w = 0 THEN oh_varblock(0, (j - 1) * BlockBytes, BlockBytes)
    ELSE oh_varblock_fprint(0, (j - 1) * BlockBytes, BlockBytes)[2]

BlockValues == {BlockValue(w, j) : w \in 0 .. 1, j \in Nat \ {0}}

\* The polynomials are sequences of them.
PolyType(s) == \A w \in 0 .. 1 : s.poly[w] \in Seq(BlockValues)

-----------------------------------------------------------------------------
(* What the operations on a sink do to its fields: r is the sink they return. *)

\* The fields that no chunk changes.
Keeps(s, r) ==
    r.large_umash = s.large_umash /\ r.hash_wanted = s.hash_wanted

KeepsPosition(s, r) ==
    /\ r.buf = s.buf /\ r.bufsz = s.bufsz
    /\ r.oh_iter = s.oh_iter /\ r.block_size = s.block_size

PHEffect(s, chunk, r) ==
    /\ HasFields(r) /\ Keeps(s, r) /\ KeepsPosition(s, r) /\ r.poly = s.poly
    /\ r.oh_acc = Xor(s.oh_acc, {Term(PH(s.oh_iter, chunk), 0)})
    /\ s.hash_wanted # 0 =>
         /\ r.oh_twisted.lrc = Xor(s.oh_twisted.lrc, {Mixed(s.oh_iter, chunk)})
         /\ r.oh_twisted.prev = {Term(PH(s.oh_iter, chunk), 0)}
         /\ r.oh_twisted.acc = Shift(Xor(s.oh_twisted.acc, s.oh_twisted.prev))

EnhOf(s, chunk) == {Term(ENH(s.oh_iter, chunk, U8(s.block_size + s.bufsz)), 0)}

\* The OH values of the block that ends with chunk.
EndHash(s, chunk) == Xor(s.oh_acc, EnhOf(s, chunk))
EndTwisted(s, chunk) ==
    Xor(Xor(Shift(Xor(s.oh_acc, s.oh_twisted.acc)),
            {Term(PHLrc(Xor(s.oh_twisted.lrc, {Mixed(s.oh_iter, chunk)})), 0)}),
        EnhOf(s, chunk))

ENHEffect(s, chunk, r) ==
    /\ HasFields(r) /\ Keeps(s, r) /\ KeepsPosition(s, r) /\ r.poly = s.poly
    /\ r.oh_acc = EndHash(s, chunk)
    /\ s.hash_wanted # 0 => r.oh_twisted.acc = EndTwisted(s, chunk)

Absorbs(s, hash, twisted, r) ==
    /\ DOMAIN r.poly = 0 .. 1
    /\ r.poly[0] = Append(s.poly[0], hash)
    /\ s.hash_wanted = 0 => r.poly[1] = s.poly[1]
    /\ s.hash_wanted # 0 => r.poly[1] = Append(s.poly[1], twisted)
    /\ r.oh_acc = {}
    /\ s.hash_wanted # 0 => r.oh_twisted = FreshTwist

PolyEffect(s, r) ==
    /\ HasFields(r) /\ Keeps(s, r) /\ KeepsPosition(s, r)
    /\ Absorbs(s, s.oh_acc, s.oh_twisted.acc, r)

\* What sink_consume_buf adds to MixPH and MixENH.
Advance(s, chunk) ==
    [s EXCEPT !.buf = SaveChunk(@, chunk),
              !.block_size = U8(@ + s.bufsz),
              !.bufsz = 0,
              !.oh_iter = @ + 2]

AdvanceEffect(s, chunk, r) ==
    /\ HasFields(r) /\ Keeps(s, r) /\ r.poly = s.poly
    /\ r.oh_acc = s.oh_acc /\ r.oh_twisted = s.oh_twisted
    /\ r.buf = SaveChunk(s.buf, chunk)
    /\ r.bufsz = 0
    /\ r.oh_iter = s.oh_iter + 2
    /\ r.block_size = U8(s.block_size + s.bufsz)

\* sink_consume_buf in the middle of a block, and at its end.
MiddleEffect(s, chunk, r) ==
    /\ HasFields(r) /\ Keeps(s, r) /\ r.poly = s.poly
    /\ r.oh_acc = Xor(s.oh_acc, {Term(PH(s.oh_iter, chunk), 0)})
    /\ s.hash_wanted # 0 =>
         /\ r.oh_twisted.lrc = Xor(s.oh_twisted.lrc, {Mixed(s.oh_iter, chunk)})
         /\ r.oh_twisted.prev = {Term(PH(s.oh_iter, chunk), 0)}
         /\ r.oh_twisted.acc = Shift(Xor(s.oh_twisted.acc, s.oh_twisted.prev))
    /\ r.buf = SaveChunk(s.buf, chunk)
    /\ r.bufsz = 0
    /\ r.oh_iter = s.oh_iter + 2
    /\ r.block_size = U8(s.block_size + s.bufsz)

LastEffect(s, chunk, r) ==
    /\ HasFields(r) /\ Keeps(s, r)
    /\ Absorbs(s, EndHash(s, chunk), EndTwisted(s, chunk), r)
    /\ r.buf = SaveChunk(s.buf, chunk)
    /\ r.bufsz = 0 /\ r.oh_iter = 0 /\ r.block_size = 0

\* What the PH step changes in a sink, as a predicate on the result.
LEMMA MixPHEffect ==
    ASSUME NEW s, HasFields(s), NEW chunk
    PROVE  PHEffect(s, chunk, MixPH(s, chunk))
  <1> SUFFICES ASSUME NEW r, r = MixPH(s, chunk)
               PROVE  PHEffect(s, chunk, r)
    OBVIOUS
  <1> QED
    BY DEF MixPH, HasFields, PHEffect, Keeps, KeepsPosition

\* What the ENH step changes in a sink, as a predicate on the result.
LEMMA MixENHEffect ==
    ASSUME NEW s, HasFields(s), NEW chunk
    PROVE  ENHEffect(s, chunk, MixENH(s, chunk))
  <1> SUFFICES ASSUME NEW r, r = MixENH(s, chunk)
               PROVE  ENHEffect(s, chunk, r)
    OBVIOUS
  <1> QED
    BY DEF MixENH, HasFields, ENHEffect, EndHash, EndTwisted, EnhOf, Keeps, KeepsPosition

\* What sink_update_poly changes in a sink, as a predicate on the result.
LEMMA UpdatePolyEffect ==
    ASSUME NEW s, HasFields(s)
    PROVE  PolyEffect(s, sink_update_poly(s))
  <1> SUFFICES ASSUME NEW r, r = sink_update_poly(s)
               PROVE  PolyEffect(s, r)
    OBVIOUS
  <1> QED
    BY DEF sink_update_poly, HasFields, Absorbed, horner_double_update, FreshTwist,
           PolyEffect, Absorbs, Keeps, KeepsPosition

\* What moving past a chunk changes in a sink: the saved buffer, the counts.
LEMMA AdvanceIs ==
    ASSUME NEW s, HasFields(s), NEW chunk
    PROVE  AdvanceEffect(s, chunk, Advance(s, chunk))
  <1> SUFFICES ASSUME NEW r, r = Advance(s, chunk)
               PROVE  AdvanceEffect(s, chunk, r)
    OBVIOUS
  <1> QED
    BY DEF Advance, HasFields, AdvanceEffect, Keeps

\* sink_consume_buf on a chunk that is not the last of its block.
LEMMA ConsumeMiddle ==
    ASSUME NEW s, HasFields(s), s.oh_iter \in Nat, s.oh_iter < OhParamCount - 2,
           NEW chunk
    PROVE  MiddleEffect(s, chunk, sink_consume_buf(s, chunk, FALSE))
  <1> DEFINE mixed == MixPH(s, chunk)
             next == Advance(mixed, chunk)
             r == sink_consume_buf(s, chunk, FALSE)
  <1>1. PHEffect(s, chunk, mixed)
    BY MixPHEffect
  <1> HIDE DEF mixed
  <1>2. HasFields(mixed) /\ mixed.bufsz = s.bufsz
    BY <1>1 DEF PHEffect, KeepsPosition
  <1>3. AdvanceEffect(mixed, chunk, next)
    BY <1>2, AdvanceIs
  <1>4. r = next
    <2>1. r = IF EndOfBlock(next.oh_iter)
              THEN [sink_update_poly(next) EXCEPT !.block_size = 0, !.oh_iter = 0]
              ELSE next
      BY <1>2 DEF sink_consume_buf, mixed, Advance
    <2>2. ~ EndOfBlock(next.oh_iter)
      BY <1>1, <1>3, Geometry DEF EndOfBlock, PHEffect, AdvanceEffect, KeepsPosition
    <2> QED
      BY <2>1, <2>2
  <1> HIDE DEF next, r
  <1>5. MiddleEffect(s, chunk, r)
    BY <1>1, <1>3, <1>4 DEF MiddleEffect, PHEffect, AdvanceEffect, Keeps, KeepsPosition
  <1> QED
    BY <1>5 DEF r

\* sink_consume_buf on the last chunk of a block or of the input.
LEMMA ConsumeLast ==
    ASSUME NEW s, HasFields(s), s.oh_iter \in Nat,
           NEW final \in BOOLEAN, final \/ s.oh_iter = OhParamCount - 2,
           NEW chunk
    PROVE  LastEffect(s, chunk, sink_consume_buf(s, chunk, final))
  <1> DEFINE mixed == MixENH(s, chunk)
             next == Advance(mixed, chunk)
             ended == sink_update_poly(next)
             r == sink_consume_buf(s, chunk, final)
  <1>1. ENHEffect(s, chunk, mixed)
    BY MixENHEffect
  <1> HIDE DEF mixed
  <1>2. HasFields(mixed) /\ mixed.bufsz = s.bufsz
    BY <1>1 DEF ENHEffect, KeepsPosition
  <1>3. AdvanceEffect(mixed, chunk, next)
    BY <1>2, AdvanceIs
  <1>4. r = [ended EXCEPT !.block_size = 0, !.oh_iter = 0]
    <2>1. ~ (s.oh_iter < OhParamCount - 2 /\ ~final)
      BY Geometry
    <2>2. r = IF EndOfBlock(next.oh_iter) \/ final
              THEN [ended EXCEPT !.block_size = 0, !.oh_iter = 0]
              ELSE next
      BY <1>2, <2>1 DEF sink_consume_buf, mixed, Advance
    <2>3. EndOfBlock(next.oh_iter) \/ final
      BY <1>1, <1>3, Geometry DEF EndOfBlock, ENHEffect, AdvanceEffect, KeepsPosition
    <2> QED
      BY <2>2, <2>3
  <1> HIDE DEF next
  <1>5. PolyEffect(next, ended)
    BY <1>3, UpdatePolyEffect DEF AdvanceEffect
  <1> HIDE DEF ended, r
  <1>6. /\ HasFields(r) /\ Keeps(ended, r)
        /\ r.poly = ended.poly /\ r.buf = ended.buf /\ r.bufsz = ended.bufsz
        /\ r.oh_acc = ended.oh_acc /\ r.oh_twisted = ended.oh_twisted
        /\ r.oh_iter = 0 /\ r.block_size = 0
    BY <1>4, <1>5 DEF PolyEffect, HasFields, Keeps
  <1>7. LastEffect(s, chunk, r)
    BY <1>1, <1>3, <1>5, <1>6
    DEF LastEffect, ENHEffect, AdvanceEffect, PolyEffect, Absorbs, Keeps, KeepsPosition
  <1> QED
    BY <1>7 DEF r
-----------------------------------------------------------------------------
(* What they do to the invariant. *)

\* The part of the invariant that only concerns the sink.
Coherent(s) ==
    /\ IsSink(s) /\ PolyType(s) /\ PolyOf(s) /\ BlockOf(s)
    /\ s.block_size = s.oh_iter * WordSize
    /\ s.oh_iter % 2 = 0

\* The inductive invariant: the invariants of UmashSink, and the polynomials'
\* type.
IndInv == TypeOK /\ PositionInv /\ WindowInv /\ Coherent(sink)

\* Between two OH blocks.
Between(s) ==
    /\ s.oh_iter = 0 /\ s.block_size = 0 /\ s.bufsz = 0
    /\ s.oh_acc = {}
    /\ s.hash_wanted # 0 =>
        /\ s.oh_twisted.lrc = FreshTwist.lrc
        /\ s.oh_twisted.prev = FreshTwist.prev
        /\ s.oh_twisted.acc = FreshTwist.acc

\* The value of a block, counted from 1, for either hash.
LEMMA BlockValueDefined ==
    \A j \in Nat \ {0} : \A w \in 0 .. 1 : BlockValue(w, j) \in BlockValues
  BY DEF BlockValues

\* A sequence with one more element.
LEMMA AppendElements ==
    ASSUME NEW S, NEW q \in Seq(S), NEW x \in S
    PROVE  /\ Append(q, x) \in Seq(S)
           /\ Len(Append(q, x)) = Len(q) + 1
           /\ \A j \in 1 .. Len(q) : Append(q, x)[j] = q[j]
           /\ Append(q, x)[Len(q) + 1] = x
  BY AppendProperties

\* Appending the value of the next block keeps the accumulator the values of
\* all the blocks so far.
LEMMA AbsorbStep ==
    ASSUME NEW s, PolyType(s), PolyOf(s), s.hash_wanted \in 0 .. 2,
           NEW r, r.hash_wanted = s.hash_wanted,
           Absorbs(s, BlockValue(0, Len(s.poly[0]) + 1),
                   BlockValue(1, Len(s.poly[0]) + 1), r)
    PROVE  /\ PolyType(r) /\ PolyOf(r)
           /\ Len(r.poly[0]) = Len(s.poly[0]) + 1
  <1> DEFINE n == Len(s.poly[0])
  <1>0. s.poly[0] \in Seq(BlockValues) /\ s.poly[1] \in Seq(BlockValues) /\ n \in Nat
    BY LenProperties DEF PolyType
  <1>1. /\ r.poly[0] \in Seq(BlockValues)
        /\ Len(r.poly[0]) = n + 1
        /\ \A j \in 1 .. n : r.poly[0][j] = s.poly[0][j]
        /\ r.poly[0][n + 1] = BlockValue(0, n + 1)
    <2>1. r.poly[0] = Append(s.poly[0], BlockValue(0, n + 1))
      BY DEF Absorbs
    <2>2. BlockValue(0, n + 1) \in BlockValues
      BY <1>0, BlockValueDefined
    <2> HIDE DEF n
    <2> QED
      BY <1>0, <2>1, <2>2, AppendElements DEF n
  <1>4. \A j \in 1 .. n + 1 : r.poly[0][j] = BlockValue(0, j)
    <2>1. \A j \in 1 .. n : s.poly[0][j] = BlockValue(0, j)
      BY DEF PolyOf, BlockValue
    <2>2. n \in Nat /\ (\A j \in 1 .. n : r.poly[0][j] = BlockValue(0, j))
      BY <1>0, <1>1, <2>1
    <2>3. r.poly[0][n + 1] = BlockValue(0, n + 1)
      BY <1>1
    <2> HIDE DEF n
    <2> QED
      BY <2>2, <2>3
  <1>2. CASE s.hash_wanted = 0
    <2>1. r.poly[1] = s.poly[1] /\ s.poly[1] = <<>>
      BY <1>2 DEF Absorbs, PolyOf
    <2>2. PolyOf(r)
      BY <1>1, <1>2, <1>4, <2>1 DEF PolyOf, BlockValue
    <2> QED
      BY <1>0, <1>1, <2>1, <2>2 DEF PolyType
  <1>3. CASE s.hash_wanted # 0
    <2>0. Len(s.poly[1]) = n
      BY <1>3 DEF PolyOf
    <2>1. /\ r.poly[1] \in Seq(BlockValues)
          /\ Len(r.poly[1]) = n + 1
          /\ \A j \in 1 .. n : r.poly[1][j] = s.poly[1][j]
          /\ r.poly[1][n + 1] = BlockValue(1, n + 1)
      <3>1. r.poly[1] = Append(s.poly[1], BlockValue(1, n + 1))
        BY <1>3 DEF Absorbs
      <3>2. BlockValue(1, n + 1) \in BlockValues
        BY <1>0, BlockValueDefined
      <3> HIDE DEF n
      <3> QED
        BY <1>0, <2>0, <3>1, <3>2, AppendElements
    <2>2. \A j \in 1 .. n + 1 : r.poly[1][j] = BlockValue(1, j)
      <3>1. \A j \in 1 .. n : s.poly[1][j] = BlockValue(1, j)
        BY <1>3 DEF PolyOf, BlockValue
      <3> HIDE DEF n
      <3> QED
        BY <1>0, <2>1, <3>1
    <2>4. PolyOf(r)
      <3> HIDE DEF n
      <3> QED
        BY <1>1, <1>3, <1>4, <2>1, <2>2 DEF PolyOf, BlockValue
    <2> QED
      BY <1>0, <1>1, <2>0, <2>1, <2>4 DEF PolyType
  <1> QED
    BY <1>1, <1>2, <1>3
\* The values of a block whose last chunk is about to be mixed.
LEMMA EndValues ==
    ASSUME NEW s, BlockOf(s), BaseOf(s) \in Int,
           s.oh_iter \in 0 .. OhParamCount - 2, s.oh_iter % 2 = 0,
           NEW chunk, NEW tag, tag = U8(s.block_size + s.bufsz)
    PROVE  /\ EndHash(s, chunk) = OhValue(tag, BaseOf(s), s.oh_iter, chunk)
           /\ s.hash_wanted # 0 =>
                EndTwisted(s, chunk) = OhTwisted(tag, BaseOf(s), s.oh_iter, chunk)
  <1> DEFINE p == BaseOf(s)
             k == s.oh_iter
             enh == {Term(ENH(k, chunk, tag), 0)}
  <1>1. p \in Int /\ k \in Nat /\ k % 2 = 0 /\ k <= OhParamCount - 2
    BY Geometry
  <1>2. /\ s.oh_acc = PHTerms(p, k)
        /\ s.hash_wanted # 0 =>
             s.oh_twisted.lrc = LrcTerms(p, k) /\ s.oh_twisted.acc = TwistTerms(p, k)
    BY DEF BlockOf
  <1>3. EnhOf(s, chunk) = enh
    BY DEF EnhOf
  <1> HIDE DEF p, k
  <1>4. EndHash(s, chunk) = OhValue(tag, p, k, chunk)
    BY <1>1, <1>2, <1>3, OhLast DEF EndHash
  <1>5. ASSUME s.hash_wanted # 0
        PROVE  EndTwisted(s, chunk) = OhTwisted(tag, p, k, chunk)
    <2> DEFINE lrc == {Term(PHLrc(LrcTerms(p, k) \union {Mixed(k, chunk)}), 0)}
    <2>1. Xor(LrcTerms(p, k), {Mixed(k, chunk)}) = LrcTerms(p, k) \union {Mixed(k, chunk)}
      BY <1>1, LrcLast
    <2>2. EndTwisted(s, chunk)
            = Xor(Xor(Shift(Xor(PHTerms(p, k), TwistTerms(p, k))), lrc), enh)
      BY <1>2, <1>3, <1>5, <2>1 DEF EndTwisted, k
    <2>3. Xor(Xor(Shift(Xor(PHTerms(p, k), TwistTerms(p, k))), lrc), enh)
            = OhTwisted(tag, p, k, chunk)
      BY <1>1, TwistLast
    <2> QED
      BY <2>2, <2>3
  <1> QED
    BY <1>4, <1>5 DEF p, k

\* The types of the quantities computed from a sink.
LEMMA SinkFacts ==
    ASSUME NEW s, IsSink(s), PolyType(s)
    PROVE  /\ s.poly[0] \in Seq(BlockValues) /\ Len(s.poly[0]) \in Nat
           /\ BaseOf(s) \in Nat /\ BytesSeen(s) \in Nat
           /\ s.oh_iter \in Nat /\ s.block_size \in Nat /\ s.bufsz \in Nat
           /\ HasFields(s)
  <1>1. s.poly[0] \in Seq(BlockValues) /\ Len(s.poly[0]) \in Nat
    BY LenProperties DEF PolyType
  <1>2. BaseOf(s) \in Nat
    <2>1. \A x \in Nat : x * BlockBytes \in Nat
      BY Geometry
    <2> QED
      BY <1>1, <2>1 DEF BaseOf
  <1>3. s.oh_iter \in Nat /\ s.block_size \in Nat /\ s.bufsz \in Nat /\ HasFields(s)
    <2>1. /\ 0 .. OhParamCount - 2 \subseteq Nat /\ 0 .. ChunkSize \subseteq Nat
          /\ 0 .. BlockBytes - ChunkSize \subseteq Nat
      OBVIOUS
    <2> QED
      BY <2>1, Zenon DEF IsSink
  <1>4. BytesSeen(s) \in Nat
    <2>1. \A a, b, c \in Nat : a + b + c \in Nat
      OBVIOUS
    <2> QED
      BY <1>2, <1>3, <2>1, Zenon DEF BytesSeen
  <1> QED
    BY <1>1, <1>2, <1>3, <1>4

\* A chunk that ends where the sink is leaves the window in the buffer.
LEMMA SavedWindow ==
    ASSUME NEW s, NEW buf, NEW r, BytesSeen(r) \in Nat, r.bufsz = 0,
           NEW chunk, chunk = Span(BytesSeen(r) - ChunkSize, ChunkSize),
           r.buf = SaveChunk(buf, chunk)
    PROVE  WindowOf(r)
  BY Geometry DEF WindowOf, SaveChunk, Span

\* Saving a chunk at the front of the buffer keeps the buffer's type.
LEMMA SavedBuffer ==
    ASSUME NEW buf \in [0 .. 2 * ChunkSize - 1 -> Int], NEW p \in Int
    PROVE  SaveChunk(buf, Span(p, ChunkSize)) \in [0 .. 2 * ChunkSize - 1 -> Int]
  BY Geometry DEF SaveChunk, Span

\* A block that has not started.
LEMMA EmptyBlock ==
    /\ \A p : PHTerms(p, 0) = {} /\ LrcTerms(p, 0) = FreshTwist.lrc
    /\ \A p : PrevTerms(p, 0) = FreshTwist.prev /\ TwistTerms(p, 0) = FreshTwist.acc
  <1>1. Pairs(0) = {} /\ Pairs(0 - 2) = {}
    BY DEF Pairs
  <1> QED
    BY <1>1 DEF PHTerms, LrcTerms, PrevTerms, TwistTerms, FreshTwist

\* Block sizes after a chunk in the middle of a block: no overflow of the uint8_t.
LEMMA MiddleSizes ==
    ASSUME NEW k \in 0 .. OhParamCount - 2, k % 2 = 0, k < OhParamCount - 2
    PROVE  /\ k + 2 \in 0 .. OhParamCount - 2 /\ (k + 2) % 2 = 0
           /\ k * WordSize + ChunkSize = (k + 2) * WordSize
           /\ (k + 2) * WordSize \in 0 .. BlockBytes - ChunkSize
           /\ U8((k + 2) * WordSize) = (k + 2) * WordSize
  <1>1. k + 2 \in 0 .. OhParamCount - 2 /\ (k + 2) % 2 = 0
    BY Geometry
  <1>2. k * WordSize + ChunkSize = (k + 2) * WordSize
    BY Geometry
  <1>3. (k + 2) * WordSize \in 0 .. BlockBytes - ChunkSize
    <2>1. (OhParamCount - 2) * WordSize = BlockBytes - ChunkSize
      BY Geometry
    <2>2. \A x \in 0 .. OhParamCount - 2 :
              x * WordSize \in Nat /\ x * WordSize <= (OhParamCount - 2) * WordSize
      BY Geometry
    <2> QED
      BY <1>1, <2>1, <2>2, Geometry
  <1>4. U8((k + 2) * WordSize) = (k + 2) * WordSize
    BY <1>3, U8Values, Geometry
  <1> QED
    BY <1>1, <1>2, <1>3, <1>4

\* The last chunk of a full block makes the uint8_t size wrap to 0.
LEMMA LastSizes ==
    ASSUME NEW k, k = OhParamCount - 2
    PROVE  k * WordSize + ChunkSize = BlockBytes /\ U8(k * WordSize + ChunkSize) = 0
  BY Geometry, U8Values

\* Consuming a buffered full chunk, in the middle of a block or at its end, keeps
\* the sink's invariant and the saved bytes before the buffer.
LEMMA ConsumeStep ==
    ASSUME NEW s, Coherent(s), s.bufsz = ChunkSize,
           NEW chunk, chunk = Span(BytesSeen(s) - ChunkSize, ChunkSize),
           NEW r, r = sink_consume_buf(s, chunk, FALSE)
    PROVE  /\ Coherent(r) /\ WindowOf(r) /\ Keeps(s, r)
           /\ BytesSeen(r) = BytesSeen(s)
           /\ r.bufsz = 0
  <1> DEFINE p == BaseOf(s)
             k == s.oh_iter
  <1>0. /\ HasFields(s) /\ p \in Nat /\ k \in Nat /\ BytesSeen(s) \in Nat
        /\ s.poly[0] \in Seq(BlockValues) /\ Len(s.poly[0]) \in Nat
        /\ s.buf \in [0 .. 2 * ChunkSize - 1 -> Int]
        /\ s.hash_wanted \in 0 .. 2 /\ s.large_umash \in BOOLEAN
        /\ k \in 0 .. OhParamCount - 2 /\ k % 2 = 0 /\ s.block_size = k * WordSize
        /\ s.block_size \in Nat
    BY SinkFacts DEF Coherent, IsSink
  <1>1. BytesSeen(s) = p + s.block_size + ChunkSize /\ chunk = ChunkOfPair(p, k)
    <2>1. BytesSeen(s) = p + s.block_size + ChunkSize
      BY Zenon DEF BytesSeen
    <2> HIDE DEF p, k
    <2>2. ChunkSize \in Int /\ p \in Int /\ s.block_size \in Int
      BY <1>0, Geometry
    <2>3. BytesSeen(s) - ChunkSize = p + s.block_size
      BY <2>1, <2>2
    <2>4. BytesSeen(s) - ChunkSize = p + k * WordSize
      BY <1>0, <2>3, Zenon
    <2> QED
      BY <2>1, <2>4, Zenon DEF ChunkOfPair
  <1>5. /\ p \in Int /\ k \in Int /\ s.block_size \in Int
        /\ s.buf \in [0 .. 2 * ChunkSize - 1 -> Int]
        /\ BytesSeen(s) - ChunkSize \in Int
    <2> HIDE DEF p, k
    <2>1. ChunkSize \in Int
      BY Geometry
    <2>2. \A x \in Nat : x \in Int /\ x - ChunkSize \in Int
      BY <2>1
    <2> QED
      BY <1>0, <2>2, Zenon
  <1>6. SaveChunk(s.buf, chunk) \in [0 .. 2 * ChunkSize - 1 -> Int]
    BY <1>5, SavedBuffer
  <1> HIDE DEF p, k
  <1>2. CASE k < OhParamCount - 2
    <2>1. MiddleEffect(s, chunk, r)
      BY <1>0, <1>2, ConsumeMiddle DEF k
    <2>2. k + 2 \in 0 .. OhParamCount - 2 /\ (k + 2) % 2 = 0
      BY <1>0, <1>2, MiddleSizes
    <2>3. s.block_size + ChunkSize = (k + 2) * WordSize
      BY <1>0, <1>2, MiddleSizes
    <2>4. /\ (k + 2) * WordSize \in 0 .. BlockBytes - ChunkSize
          /\ U8((k + 2) * WordSize) = (k + 2) * WordSize
      BY <1>0, <1>2, MiddleSizes
    <2>5. /\ r.oh_iter = k + 2 /\ r.block_size = (k + 2) * WordSize
          /\ r.bufsz = 0 /\ r.poly = s.poly /\ BaseOf(r) = p
          /\ r.hash_wanted = s.hash_wanted /\ r.large_umash = s.large_umash
          /\ r.buf = SaveChunk(s.buf, chunk) /\ HasFields(r)
      BY <2>1, <2>3, <2>4 DEF MiddleEffect, Keeps, BaseOf, p, k
    <2>6. BytesSeen(r) = BytesSeen(s)
      <3>1. BytesSeen(r) = p + (k + 2) * WordSize + 0
        BY <2>5 DEF BytesSeen
      <3>2. (k + 2) * WordSize \in Int
        BY <2>4, Geometry
      <3>3. BytesSeen(s) = p + (k + 2) * WordSize
        BY <1>0, <1>1, <2>3, Geometry
      <3> QED
        <4> DEFINE m == (k + 2) * WordSize
        <4>1. m \in Int
          BY <3>2
        <4>2. BytesSeen(r) = p + m + 0 /\ BytesSeen(s) = p + m
          BY <3>1, <3>3
        <4> HIDE DEF m
        <4>3. p + m + 0 = p + m
          BY <1>5, <4>1
        <4> QED
          BY <4>2, <4>3, Zenon
    <2>7. WindowOf(r)
      BY <1>0, <2>5, <2>6, SavedWindow
    <2>8. IsSink(r)
      <3>1. r.buf \in [0 .. 2 * ChunkSize - 1 -> Int]
        BY <1>6, <2>5
      <3>2. DOMAIN r.poly = 0 .. 1
        BY <2>5 DEF Coherent, IsSink
      <3>3. 0 \in 0 .. ChunkSize
        BY Geometry
      <3> QED
        BY <1>0, <2>2, <2>4, <2>5, <3>1, <3>2, <3>3 DEF IsSink
    <2>9. BlockOf(r)
      <3>1. PH(k, chunk) = PHOf(p, k)
        BY <1>1 DEF PHOf
      <3>2. /\ s.oh_acc = PHTerms(p, k)
            /\ s.hash_wanted # 0 =>
                 /\ s.oh_twisted.lrc = LrcTerms(p, k)
                 /\ s.oh_twisted.prev = PrevTerms(p, k)
                 /\ s.oh_twisted.acc = TwistTerms(p, k)
        BY DEF Coherent, BlockOf, p, k
      <3>3. p \in Int /\ k \in Nat /\ k % 2 = 0 /\ k <= OhParamCount - 2
        BY <1>0, Geometry
      <3>4. PrevTerms(p, k + 2) = {Term(PHOf(p, k), 0)}
        <4>1. k + 2 # 0 /\ k + 2 - 2 = k
          BY <3>3
        <4>2. \A e : e # 0 => PrevTerms(p, e) = {Term(PHOf(p, e - 2), 0)}
          BY DEF PrevTerms
        <4>3. PrevTerms(p, k + 2) = {Term(PHOf(p, k + 2 - 2), 0)}
          BY <3>3, <4>1, <4>2
        <4> QED
          BY <3>3, <4>1, <4>3
      <3>5. /\ r.oh_acc = PHTerms(p, k + 2)
            /\ s.hash_wanted # 0 =>
                 /\ r.oh_twisted.lrc = LrcTerms(p, k + 2)
                 /\ r.oh_twisted.prev = PrevTerms(p, k + 2)
                 /\ r.oh_twisted.acc = TwistTerms(p, k + 2)
        BY <1>1, <2>1, <3>1, <3>2, <3>3, <3>4, PHStep, LrcStep, TwistStep
        DEF MiddleEffect, k
      <3> QED
        BY <2>5, <3>5 DEF BlockOf
    <2>10. PolyType(r) /\ PolyOf(r)
      <3>1. r.poly = s.poly /\ r.hash_wanted = s.hash_wanted
        BY <2>5
      <3> QED
        BY <3>1 DEF Coherent, PolyType, PolyOf
    <2> QED
      BY <2>1, <2>2, <2>5, <2>6, <2>7, <2>8, <2>9, <2>10 DEF Coherent, MiddleEffect
  <1>3. CASE k = OhParamCount - 2
    <2>1. LastEffect(s, chunk, r)
      BY <1>0, <1>3, ConsumeLast DEF k
    <2>2. s.block_size + ChunkSize = BlockBytes
      BY <1>0, <1>3, LastSizes
    <2>3. U8(s.block_size + s.bufsz) = 0
      BY <1>0, <1>3, LastSizes
    <2>4. chunk = LastChunk(p, BlockBytes)
      <3>1. p + k * WordSize = p + BlockBytes - ChunkSize
        BY <1>3, <1>5, LastSizes, Geometry
      <3> QED
        BY <1>1, <3>1 DEF ChunkOfPair, LastChunk
    <2>5. /\ EndHash(s, chunk) = OhValue(0, p, k, chunk)
          /\ s.hash_wanted # 0 => EndTwisted(s, chunk) = OhTwisted(0, p, k, chunk)
      BY <1>0, <2>3, EndValues DEF Coherent, p, k
    <2>6. /\ BlockValue(0, Len(s.poly[0]) + 1) = OhValue(0, p, k, chunk)
          /\ BlockValue(1, Len(s.poly[0]) + 1) = OhTwisted(0, p, k, chunk)
      <3>1. Len(s.poly[0]) + 1 - 1 = Len(s.poly[0])
        BY <1>0
      <3>2. p = Len(s.poly[0]) * BlockBytes
        BY DEF p, BaseOf
      <3> QED
        BY <1>3, <2>4, <3>1, <3>2, FullBlockPairs
        DEF BlockValue, oh_varblock, oh_varblock_fprint
    <2>7. Absorbs(s, BlockValue(0, Len(s.poly[0]) + 1),
                  BlockValue(1, Len(s.poly[0]) + 1), r)
      BY <2>1, <2>5, <2>6 DEF LastEffect, Absorbs
    <2>8. /\ PolyType(r) /\ PolyOf(r)
          /\ Len(r.poly[0]) = Len(s.poly[0]) + 1
      <3>1. r.hash_wanted = s.hash_wanted /\ PolyType(s) /\ PolyOf(s)
        BY <2>1 DEF LastEffect, Keeps, Coherent
      <3> QED
        BY <1>0, <2>7, <3>1, AbsorbStep
    <2>9. BaseOf(r) = p + BlockBytes
      <3>1. \A x \in Nat : (x + 1) * BlockBytes = x * BlockBytes + BlockBytes
        BY Geometry
      <3> QED
        BY <1>0, <2>8, <3>1 DEF BaseOf, p
    <2>10. BytesSeen(r) = BytesSeen(s)
      <3>1. BytesSeen(r) = p + BlockBytes + 0 + 0
        BY <2>1, <2>9 DEF BytesSeen, LastEffect
      <3>2. BytesSeen(s) = p + BlockBytes
        <4>1. BytesSeen(s) = p + (s.block_size + ChunkSize)
          <5>1. ChunkSize \in Int
            BY Geometry
          <5>2. p \in Int /\ s.block_size \in Int
            BY <1>5, Zenon
          <5>3. BytesSeen(s) = p + s.block_size + ChunkSize
            BY <1>1, Zenon
          <5> QED
            BY <5>1, <5>2, <5>3, SMTT(30)
        <4> QED
          BY <2>2, <4>1
      <3>3. p + BlockBytes + 0 + 0 = p + BlockBytes
        BY <1>5, Geometry
      <3> QED
        BY <3>1, <3>2, <3>3, Zenon
    <2>11. WindowOf(r)
      BY <1>0, <2>1, <2>10, SavedWindow DEF LastEffect
    <2>12. IsSink(r)
      <3>1. r.buf \in [0 .. 2 * ChunkSize - 1 -> Int]
        BY <1>6, <2>1 DEF LastEffect
      <3>2. /\ 0 \in 0 .. ChunkSize /\ 0 \in 0 .. BlockBytes - ChunkSize
            /\ 0 \in 0 .. OhParamCount - 2
        BY Geometry
      <3> QED
        <4>1. /\ HasFields(r) /\ r.bufsz = 0 /\ r.oh_iter = 0 /\ r.block_size = 0
              /\ r.hash_wanted = s.hash_wanted /\ r.large_umash = s.large_umash
          BY <2>1, Zenon DEF LastEffect, Keeps
        <4>2. r.hash_wanted \in 0 .. 2 /\ r.large_umash \in BOOLEAN
          BY <1>0, <4>1, Zenon
        <4>3. /\ r.bufsz \in 0 .. ChunkSize /\ r.block_size \in 0 .. BlockBytes - ChunkSize
              /\ r.oh_iter \in 0 .. OhParamCount - 2
          BY <3>2, <4>1, Zenon
        <4>4. HasFields(r) /\ DOMAIN r.poly = 0 .. 1
          BY <2>1, Zenon DEF LastEffect, Absorbs
        <4> QED
          BY <3>1, <4>2, <4>3, <4>4, Zenon DEF IsSink
    <2>13. BlockOf(r)
      BY <2>1, EmptyBlock, ZenonT(60) DEF BlockOf, LastEffect, Absorbs, Keeps
    <2>14. r.block_size = r.oh_iter * WordSize /\ r.oh_iter % 2 = 0 /\ r.bufsz = 0
      <3>1. 0 = 0 * WordSize /\ 0 % 2 = 0
        BY Geometry
      <3> QED
        BY <2>1, <3>1 DEF LastEffect
    <2> QED
      BY <2>1, <2>8, <2>10, <2>11, <2>12, <2>13, <2>14 DEF Coherent, LastEffect
  <1>4. k < OhParamCount - 2 \/ k = OhParamCount - 2
    BY <1>0, Geometry
  <1> QED
    BY <1>2, <1>3, <1>4
-----------------------------------------------------------------------------
(* The two paths for whole blocks. *)

BlockEffect(s, p, r) ==
    /\ HasFields(r) /\ Keeps(s, r) /\ KeepsPosition(s, r)
    /\ Absorbs(s, oh_varblock(0, p, BlockBytes),
               oh_varblock_fprint(0, p, BlockBytes)[2], r)

\* What absorbing one full block in block_sink_update changes, as a predicate.
LEMMA BlockUpdateEffect ==
    ASSUME NEW s, HasFields(s), NEW p
    PROVE  BlockEffect(s, p, BlockUpdate(s, p))
  <1> DEFINE fp == oh_varblock_fprint(0, p, BlockBytes)
             h == oh_varblock(0, p, BlockBytes)
             hashed == IF s.hash_wanted # 0
                       THEN [s EXCEPT !.oh_acc = fp[1],
                                      !.oh_twisted = [@ EXCEPT !.acc = fp[2]]]
                       ELSE [s EXCEPT !.oh_acc = h]
             r == BlockUpdate(s, p)
  <1>1. r = sink_update_poly(hashed)
    BY DEF BlockUpdate
  <1>2. fp[1] = h
    BY DEF oh_varblock_fprint
  <1> HIDE DEF fp, h, r
  <1>3. /\ HasFields(hashed) /\ Keeps(s, hashed) /\ KeepsPosition(s, hashed)
        /\ hashed.poly = s.poly /\ hashed.oh_acc = h
        /\ s.hash_wanted # 0 => hashed.oh_twisted.acc = fp[2]
    <2>1. CASE s.hash_wanted = 0
      <3>1. hashed = [s EXCEPT !.oh_acc = h]
        BY <2>1
      <3> HIDE DEF hashed
      <3> QED
        BY <2>1, <3>1 DEF HasFields, Keeps, KeepsPosition
    <2>2. CASE s.hash_wanted # 0
      <3>1. PICK tw : tw = [s.oh_twisted EXCEPT !.acc = fp[2]]
        OBVIOUS
      <3>2. DOMAIN tw = DOMAIN s.oh_twisted /\ tw.acc = fp[2]
        BY <3>1 DEF HasFields
      <3>3. hashed = [s EXCEPT !.oh_acc = fp[1], !.oh_twisted = tw]
        BY <2>2, <3>1
      <3> HIDE DEF hashed
      <3> QED
        BY <1>2, <2>2, <3>2, <3>3 DEF HasFields, Keeps, KeepsPosition
    <2> QED
      BY <2>1, <2>2
  <1> HIDE DEF hashed
  <1>4. PolyEffect(hashed, sink_update_poly(hashed))
    BY <1>3, UpdatePolyEffect
  <1>5. PolyEffect(hashed, r)
    BY <1>1, <1>4
  <1>6. BlockEffect(s, p, r)
    BY <1>3, <1>5 DEF BlockEffect, PolyEffect, Absorbs, Keeps, KeepsPosition, h, fp
  <1> QED
    BY <1>6 DEF r

\* Absorbing one full block straight from the input keeps the sink's invariant.
LEMMA BlockStep ==
    ASSUME NEW s, Coherent(s), Between(s),
           NEW r, r = BlockUpdate(s, BaseOf(s))
    PROVE  /\ Coherent(r) /\ Between(r) /\ Keeps(s, r)
           /\ BaseOf(r) = BaseOf(s) + BlockBytes
  <1> DEFINE p == BaseOf(s)
  <1>0. /\ HasFields(s) /\ p \in Nat
        /\ s.poly[0] \in Seq(BlockValues) /\ Len(s.poly[0]) \in Nat
        /\ s.hash_wanted \in 0 .. 2 /\ s.large_umash \in BOOLEAN
        /\ s.buf \in [0 .. 2 * ChunkSize - 1 -> Int]
    BY SinkFacts DEF Coherent, IsSink
  <1>1. BlockEffect(s, p, r)
    BY <1>0, BlockUpdateEffect
  <1>2. /\ BlockValue(0, Len(s.poly[0]) + 1) = oh_varblock(0, p, BlockBytes)
        /\ BlockValue(1, Len(s.poly[0]) + 1) = oh_varblock_fprint(0, p, BlockBytes)[2]
    <2>1. Len(s.poly[0]) + 1 - 1 = Len(s.poly[0])
      BY <1>0
    <2>2. p = Len(s.poly[0]) * BlockBytes
      BY DEF BaseOf
    <2> HIDE DEF p
    <2> QED
      BY <2>1, <2>2 DEF BlockValue
  <1>3. Absorbs(s, BlockValue(0, Len(s.poly[0]) + 1),
                BlockValue(1, Len(s.poly[0]) + 1), r)
    BY <1>1, <1>2 DEF BlockEffect
  <1>4. /\ PolyType(r) /\ PolyOf(r)
        /\ Len(r.poly[0]) = Len(s.poly[0]) + 1
    <2>1. r.hash_wanted = s.hash_wanted /\ PolyType(s) /\ PolyOf(s)
      BY <1>1 DEF BlockEffect, Keeps, Coherent
    <2> QED
      BY <1>0, <1>3, <2>1, AbsorbStep
  <1>5. BaseOf(r) = p + BlockBytes
    <2>1. \A x \in Nat : (x + 1) * BlockBytes = x * BlockBytes + BlockBytes
      BY Geometry
    <2> QED
      BY <1>0, <1>4, <2>1 DEF BaseOf
  <1>6. Between(r)
    BY <1>1 DEF Between, BlockEffect, Absorbs, Keeps, KeepsPosition
  <1>7. IsSink(r)
    BY <1>0, <1>1 DEF IsSink, Coherent, BlockEffect, Absorbs, Keeps, KeepsPosition
  <1>8. BlockOf(r)
    BY <1>6, EmptyBlock DEF BlockOf, Between
  <1>9. r.block_size = r.oh_iter * WordSize /\ r.oh_iter % 2 = 0
    <2>1. 0 = 0 * WordSize /\ 0 % 2 = 0
      BY Geometry
    <2> QED
      BY <1>6, <2>1 DEF Between
  <1> QED
    BY <1>1, <1>4, <1>5, <1>6, <1>7, <1>8, <1>9 DEF Coherent, BlockEffect
\* The values of n blocks from block l + 1 on.
ValuesOf(w, l, n) == [i \in 1 .. n |-> BlockValue(w, l + i)]

\* r is q and the values of the n blocks after it.
Extended(w, q, n, r) ==
    /\ r \in Seq(BlockValues)
    /\ Len(r) = Len(q) + n
    /\ \A j \in 1 .. Len(q) : r[j] = q[j]
    /\ \A j \in Len(q) + 1 .. Len(q) + n : r[j] = BlockValue(w, j)

\* Appending the values of n more blocks to an accumulator.
LEMMA ConcatValues ==
    ASSUME NEW w \in 0 .. 1, NEW q \in Seq(BlockValues), NEW n \in Nat
    PROVE  Extended(w, q, n, q \o ValuesOf(w, Len(q), n))
  <1> DEFINE v == ValuesOf(w, Len(q), n)
             r == q \o v
  <1>0. Len(q) \in Nat
    BY LenProperties
  <1>1. v \in Seq(BlockValues) /\ Len(v) = n
    <2>1. \A i \in 1 .. n : BlockValue(w, Len(q) + i) \in BlockValues
      BY <1>0, BlockValueDefined
    <2>2. v \in [1 .. n -> BlockValues]
      BY <2>1 DEF ValuesOf
    <2> HIDE DEF v
    <2> QED
      BY <2>2
  <1>2. \A i \in 1 .. n : v[i] = BlockValue(w, Len(q) + i)
    BY DEF ValuesOf
  <1> HIDE DEF v
  <1>3. /\ r \in Seq(BlockValues)
        /\ Len(r) = Len(q) + Len(v)
        /\ \A j \in 1 .. Len(q) + Len(v) :
             r[j] = IF j <= Len(q) THEN q[j] ELSE v[j - Len(q)]
    BY <1>1, ConcatProperties
  <1>4. \A j \in 1 .. Len(q) : r[j] = q[j]
    BY <1>0, <1>1, <1>3
  <1>5. \A j \in Len(q) + 1 .. Len(q) + n : r[j] = BlockValue(w, j)
    <2> SUFFICES ASSUME NEW j \in Len(q) + 1 .. Len(q) + n
                 PROVE  r[j] = BlockValue(w, j)
      OBVIOUS
    <2>1. j - Len(q) \in 1 .. n /\ Len(q) + (j - Len(q)) = j
      BY <1>0
    <2>2. r[j] = v[j - Len(q)]
      BY <1>0, <1>1, <1>3
    <2> QED
      BY <1>2, <2>1, <2>2
  <1>6. q = SubSeq(r, 1, Len(q))
    <2> HIDE DEF r
    <2> QED
      BY <1>0, <1>1, <1>3, <1>4
  <1> QED
    BY <1>1, <1>3, <1>4, <1>5, <1>6 DEF v, Extended

MultipleEffect(s, n, r) ==
    /\ HasFields(r) /\ Keeps(s, r) /\ KeepsPosition(s, r)
    /\ r.oh_acc = s.oh_acc /\ r.oh_twisted = s.oh_twisted
    /\ DOMAIN r.poly = 0 .. 1
    /\ r.poly[0] = s.poly[0] \o ValuesOf(0, Len(s.poly[0]), n)
    /\ s.hash_wanted = 0 => r.poly[1] = s.poly[1]
    /\ s.hash_wanted # 0 => r.poly[1] = s.poly[1] \o ValuesOf(1, Len(s.poly[0]), n)

\* What umash_multiple_blocks changes in a sink, as a predicate on the result.
LEMMA MultipleBlocksEffect ==
    ASSUME NEW s, HasFields(s), Len(s.poly[0]) \in Nat, NEW n \in Nat
    PROVE  MultipleEffect(s, n, MultipleBlocks(s, BaseOf(s), n))
  <1> DEFINE p == BaseOf(s)
             hash == [i \in 1 .. n |-> oh_varblock(0, p + (i - 1) * BlockBytes, BlockBytes)]
             fp == [i \in 1 .. n |->
                      oh_varblock_fprint(0, p + (i - 1) * BlockBytes, BlockBytes)[2]]
             poly == [w \in 0 .. 1 |->
                        IF w = 0 THEN s.poly[0] \o hash
                        ELSE IF s.hash_wanted = 0 THEN s.poly[1]
                        ELSE s.poly[1] \o fp]
             r == MultipleBlocks(s, p, n)
  <1>1. r = [s EXCEPT !.poly = poly]
    BY DEF MultipleBlocks, Extend
  <1>2. \A i \in 1 .. n :
            p + (i - 1) * BlockBytes = (Len(s.poly[0]) + i - 1) * BlockBytes
    <2>1. \A x \in Nat : \A i \in 1 .. n :
              x * BlockBytes + (i - 1) * BlockBytes = (x + i - 1) * BlockBytes
      BY Geometry
    <2> QED
      BY <2>1 DEF BaseOf
  <1>3. hash = ValuesOf(0, Len(s.poly[0]), n) /\ fp = ValuesOf(1, Len(s.poly[0]), n)
    BY <1>2 DEF ValuesOf, BlockValue
  <1> HIDE DEF hash, fp, r
  <1>4. /\ DOMAIN poly = 0 .. 1 /\ poly[0] = s.poly[0] \o hash
        /\ s.hash_wanted = 0 => poly[1] = s.poly[1]
        /\ s.hash_wanted # 0 => poly[1] = s.poly[1] \o fp
    OBVIOUS
  <1> HIDE DEF poly
  <1>5. /\ HasFields(r) /\ Keeps(s, r) /\ KeepsPosition(s, r) /\ r.poly = poly
        /\ r.oh_acc = s.oh_acc /\ r.oh_twisted = s.oh_twisted
    BY <1>1 DEF HasFields, Keeps, KeepsPosition
  <1>6. MultipleEffect(s, n, r)
    BY <1>3, <1>4, <1>5 DEF MultipleEffect
  <1> QED
    BY <1>6 DEF r

\* Absorbing a run of blocks with umash_multiple_blocks keeps the sink's invariant.
LEMMA MultipleStep ==
    ASSUME NEW s, Coherent(s), Between(s), NEW n \in Nat,
           NEW r, r = MultipleBlocks(s, BaseOf(s), n)
    PROVE  /\ Coherent(r) /\ Between(r) /\ Keeps(s, r)
           /\ BaseOf(r) = BaseOf(s) + n * BlockBytes
  <1> DEFINE l == Len(s.poly[0])
  <1>0. /\ HasFields(s) /\ BaseOf(s) \in Nat /\ l \in Nat
        /\ s.poly[0] \in Seq(BlockValues) /\ s.poly[1] \in Seq(BlockValues)
        /\ s.hash_wanted \in 0 .. 2 /\ s.large_umash \in BOOLEAN
        /\ s.buf \in [0 .. 2 * ChunkSize - 1 -> Int]
    BY SinkFacts DEF Coherent, IsSink, PolyType
  <1>1. MultipleEffect(s, n, r)
    BY <1>0, MultipleBlocksEffect
  <1>2. /\ r.poly[0] \in Seq(BlockValues)
        /\ Len(r.poly[0]) = l + n
        /\ \A j \in 1 .. l : r.poly[0][j] = s.poly[0][j]
        /\ \A j \in l + 1 .. l + n : r.poly[0][j] = BlockValue(0, j)
    <2>1. r.poly[0] = s.poly[0] \o ValuesOf(0, l, n)
      BY <1>1 DEF MultipleEffect
    <2>2. Extended(0, s.poly[0], n, r.poly[0])
      BY <1>0, <2>1, ConcatValues
    <2> QED
      BY <2>2 DEF Extended
  <1>3. \A j \in 1 .. l + n : r.poly[0][j] = BlockValue(0, j)
    <2>1. \A j \in 1 .. l : r.poly[0][j] = BlockValue(0, j)
      <3>1. \A j \in 1 .. l : s.poly[0][j] = BlockValue(0, j)
        BY DEF Coherent, PolyOf, BlockValue
      <3> QED
        BY <1>2, <3>1
    <2>2. \A j \in l + 1 .. l + n : r.poly[0][j] = BlockValue(0, j)
      BY <1>2
    <2> HIDE DEF l
    <2> QED
      BY <1>0, <2>1, <2>2
  <1>10. \A w \in 0 .. 1 : w = 0 \/ w = 1
    OBVIOUS
  <1>4. PolyType(r) /\ PolyOf(r)
    <2>1. CASE s.hash_wanted = 0
      <3>1. r.poly[1] = s.poly[1] /\ s.poly[1] = <<>> /\ r.hash_wanted = 0
        BY <1>1, <2>1 DEF MultipleEffect, Coherent, PolyOf, Keeps
      <3>2. PolyOf(r)
        <4> HIDE DEF l
        <4> QED
          BY <1>2, <1>3, <3>1 DEF PolyOf, BlockValue
      <3> QED
        BY <1>0, <1>2, <1>10, <3>1, <3>2, ZenonT(60) DEF PolyType
    <2>2. CASE s.hash_wanted # 0
      <3>0. Len(s.poly[1]) = l /\ r.hash_wanted = s.hash_wanted
        BY <1>1, <2>2 DEF Coherent, PolyOf, MultipleEffect, Keeps
      <3>1. /\ r.poly[1] \in Seq(BlockValues)
            /\ Len(r.poly[1]) = l + n
            /\ \A j \in 1 .. l : r.poly[1][j] = s.poly[1][j]
            /\ \A j \in l + 1 .. l + n : r.poly[1][j] = BlockValue(1, j)
        <4>1. r.poly[1] = s.poly[1] \o ValuesOf(1, Len(s.poly[1]), n)
          BY <1>1, <2>2, <3>0 DEF MultipleEffect
        <4>2. Extended(1, s.poly[1], n, r.poly[1])
          BY <1>0, <4>1, ConcatValues
        <4> HIDE DEF l
        <4> QED
          BY <3>0, <4>2 DEF Extended
      <3>2. \A j \in 1 .. l + n : r.poly[1][j] = BlockValue(1, j)
        <4>1. \A j \in 1 .. l : r.poly[1][j] = BlockValue(1, j)
          <5>1. \A j \in 1 .. l : s.poly[1][j] = BlockValue(1, j)
            BY <2>2 DEF Coherent, PolyOf, BlockValue
          <5> QED
            BY <3>1, <5>1
        <4>2. \A j \in l + 1 .. l + n : r.poly[1][j] = BlockValue(1, j)
          BY <3>1
        <4> HIDE DEF l
        <4> QED
          BY <1>0, <4>1, <4>2
      <3>3. PolyOf(r)
        <4> HIDE DEF l
        <4> QED
          BY <1>2, <1>3, <2>2, <3>0, <3>1, <3>2 DEF PolyOf, BlockValue
      <3> QED
        BY <1>2, <1>10, <3>1, <3>3 DEF PolyType
    <2> QED
      BY <2>1, <2>2
  <1>5. BaseOf(r) = BaseOf(s) + n * BlockBytes
    <2>1. \A x, y \in Nat : (x + y) * BlockBytes = x * BlockBytes + y * BlockBytes
      BY Geometry
    <2> QED
      BY <1>0, <1>2, <2>1 DEF BaseOf
  <1>6. Between(r)
    BY <1>1 DEF Between, MultipleEffect, Keeps, KeepsPosition
  <1>7. IsSink(r)
    BY <1>0, <1>1 DEF IsSink, Coherent, MultipleEffect, Keeps, KeepsPosition
  <1>8. BlockOf(r)
    BY <1>6, EmptyBlock DEF BlockOf, Between
  <1>9. r.block_size = r.oh_iter * WordSize /\ r.oh_iter % 2 = 0
    <2>1. 0 = 0 * WordSize /\ 0 % 2 = 0
      BY Geometry
    <2> QED
      BY <1>6, <2>1 DEF Between
  <1> QED
    BY <1>1, <1>4, <1>5, <1>6, <1>7, <1>8, <1>9 DEF Coherent, MultipleEffect
-----------------------------------------------------------------------------
(* The buffer. *)

\* The sink r is s with n more bytes in its buffer.
FillEffect(s, n, large, r) ==
    /\ HasFields(r)
    /\ r.poly = s.poly /\ r.oh_acc = s.oh_acc /\ r.oh_twisted = s.oh_twisted
    /\ r.oh_iter = s.oh_iter /\ r.block_size = s.block_size
    /\ r.hash_wanted = s.hash_wanted
    /\ r.large_umash = large
    /\ r.buf = CopyIn(s.buf, ChunkSize + s.bufsz, BytesSeen(s), n)
    /\ r.bufsz = s.bufsz + n

\* memcpy into the buffer keeps the buffer's type.
LEMMA CopiedBuffer ==
    ASSUME NEW buf \in [0 .. 2 * ChunkSize - 1 -> Int],
           NEW o \in Int, NEW p \in Int, NEW n \in Int
    PROVE  CopyIn(buf, o, p, n) \in [0 .. 2 * ChunkSize - 1 -> Int]
  BY Geometry DEF CopyIn

\* n buffered bytes from position q on, after the chunk that ends there.
WindowAt(buf, q, n) ==
    \A i \in 0 .. 2 * ChunkSize - 1 :
        i < ChunkSize + n /\ q + i >= ChunkSize => buf[i] = q - ChunkSize + i

\* Copying the next bytes of the input behind the buffered ones extends the window.
LEMMA FillWindow ==
    ASSUME NEW buf, NEW o \in Nat, NEW q \in Nat, NEW n \in Nat, o + n <= ChunkSize,
           WindowAt(buf, q, o)
    PROVE  WindowAt(CopyIn(buf, ChunkSize + o, q + o, n), q, o + n)
  BY Geometry DEF CopyIn, WindowAt

\* WindowOf in terms of the position of the last chunk boundary.
LEMMA WindowIs ==
    ASSUME NEW s, IsSink(s), PolyType(s)
    PROVE  /\ BaseOf(s) + s.block_size \in Nat
           /\ BytesSeen(s) = BaseOf(s) + s.block_size + s.bufsz
           /\ WindowOf(s) <=> WindowAt(s.buf, BaseOf(s) + s.block_size, s.bufsz)
  <1> DEFINE q == BaseOf(s) + s.block_size
  <1>1. BaseOf(s) \in Nat /\ s.block_size \in Nat /\ s.bufsz \in Nat
    BY SinkFacts
  <1>2. q \in Nat /\ BytesSeen(s) = q + s.bufsz
    BY <1>1 DEF BytesSeen
  <1>3. BytesSeen(s) - s.bufsz = q
    BY <1>1, <1>2
  <1>4. WindowOf(s) <=> WindowAt(s.buf, q, s.bufsz)
    BY <1>2, <1>3 DEF WindowOf, WindowAt
  <1> QED
    BY <1>2, <1>4

\* Buffering input, up to one chunk, keeps the sink's invariant and the window.
LEMMA FillStep ==
    ASSUME NEW s, Coherent(s), NEW n \in Nat, s.bufsz + n <= ChunkSize,
           NEW large \in BOOLEAN,
           NEW r, FillEffect(s, n, large, r)
    PROVE  /\ Coherent(r)
           /\ BytesSeen(r) = BytesSeen(s) + n
           /\ WindowOf(s) => WindowOf(r)
  <1> DEFINE q == BaseOf(s) + s.block_size
  <1>0. /\ BaseOf(s) \in Nat /\ s.block_size \in Nat /\ s.bufsz \in Nat
        /\ BytesSeen(s) \in Nat
        /\ s.buf \in [0 .. 2 * ChunkSize - 1 -> Int]
        /\ s.poly[0] \in Seq(BlockValues) /\ s.poly[1] \in Seq(BlockValues)
    BY SinkFacts, SMTT(30) DEF Coherent, IsSink, PolyType
  <1>1. BaseOf(r) = BaseOf(s) /\ r.block_size = s.block_size /\ r.bufsz = s.bufsz + n
    BY DEF FillEffect, BaseOf
  <1>2. BytesSeen(r) = BytesSeen(s) + n
    BY <1>0, <1>1 DEF BytesSeen
  <1>3. IsSink(r)
    <2>1. r.buf \in [0 .. 2 * ChunkSize - 1 -> Int]
      <3>1. ChunkSize + s.bufsz \in Int
        BY <1>0, Geometry, SMTT(30)
      <3> QED
        BY <1>0, <3>1, CopiedBuffer, SMTT(30) DEF FillEffect
    <2>2. s.bufsz + n \in 0 .. ChunkSize
      BY <1>0, Geometry, SMTT(30)
    <2> QED
      BY <2>1, <2>2 DEF FillEffect, IsSink, Coherent
  <1>4. PolyType(r) /\ PolyOf(r) /\ BlockOf(r)
    BY <1>1 DEF FillEffect, Coherent, PolyType, PolyOf, BlockOf
  <1>5. Coherent(r)
    BY <1>3, <1>4 DEF FillEffect, Coherent
  <1>7. ASSUME WindowOf(s) PROVE WindowOf(r)
    <2>1. /\ q \in Nat /\ BytesSeen(s) = q + s.bufsz
          /\ WindowAt(s.buf, q, s.bufsz)
      BY <1>7, WindowIs DEF Coherent
    <2>2. q = BaseOf(r) + r.block_size
      BY <1>1
    <2>3. WindowOf(r) <=> WindowAt(r.buf, q, r.bufsz)
      BY <1>3, <1>4, <2>2, WindowIs
    <2> HIDE DEF q
    <2>4. WindowAt(CopyIn(s.buf, ChunkSize + s.bufsz, q + s.bufsz, n), q, s.bufsz + n)
      BY <1>0, <2>1, FillWindow
    <2> QED
      BY <1>1, <2>1, <2>3, <2>4 DEF FillEffect
  <1> QED
    BY <1>2, <1>5, <1>7

\* The full buffer's second half is the chunk that ends at the sink's position.
LEMMA BufferedChunk ==
    ASSUME NEW s, Coherent(s), WindowOf(s), s.bufsz > 0, BytesSeen(s) >= ChunkSize
    PROVE  ChunkIn(s.buf, s.bufsz) = Span(BytesSeen(s) - ChunkSize, ChunkSize)
  <1> DEFINE q == BaseOf(s) + s.block_size
  <1>0. s.bufsz \in 1 .. ChunkSize
    BY SinkFacts, Geometry DEF Coherent, IsSink
  <1>1. /\ q \in Nat /\ BytesSeen(s) = q + s.bufsz
        /\ WindowAt(s.buf, q, s.bufsz)
    BY WindowIs DEF Coherent
  <1> HIDE DEF q
  <1>2. \A j \in 0 .. ChunkSize - 1 : s.buf[s.bufsz + j] = q + s.bufsz - ChunkSize + j
    <2> SUFFICES ASSUME NEW j \in 0 .. ChunkSize - 1
                 PROVE  s.buf[s.bufsz + j] = q + s.bufsz - ChunkSize + j
      OBVIOUS
    <2> DEFINE i == s.bufsz + j
    <2>1. /\ i \in 0 .. 2 * ChunkSize - 1 /\ i < ChunkSize + s.bufsz
          /\ q + i >= ChunkSize /\ q - ChunkSize + i = q + s.bufsz - ChunkSize + j
      BY <1>0, <1>1, Geometry
    <2> QED
      BY <1>1, <2>1 DEF WindowAt
  <1>3. Span(BytesSeen(s) - ChunkSize, ChunkSize)
          = [j \in 0 .. ChunkSize - 1 |-> q + s.bufsz - ChunkSize + j]
    <2>1. BytesSeen(s) - ChunkSize = q + s.bufsz - ChunkSize
      BY <1>0, <1>1, Geometry
    <2> QED
      BY <2>1, Zenon DEF Span
  <1>4. ChunkIn(s.buf, s.bufsz) = [j \in 0 .. ChunkSize - 1 |-> s.buf[s.bufsz + j]]
    BY DEF ChunkIn
  <1> QED
    BY <1>2, <1>3, <1>4
-----------------------------------------------------------------------------
(* The actions. *)

\* umash_init and umash_fp_init give a sink of no bytes.
LEMMA InitSink ==
    ASSUME NEW which \in 0 .. 2, NEW s, s = umash_init(which)
    PROVE  /\ Coherent(s) /\ WindowOf(s)
           /\ BytesSeen(s) = 0 /\ s.bufsz = 0
           /\ s.large_umash = FALSE /\ s.hash_wanted = which
  <1>1. /\ s.poly = [i \in 0 .. 1 |-> <<>>]
        /\ s.buf = [i \in 0 .. 2 * ChunkSize - 1 |-> ZeroByte]
        /\ s.oh_iter = 0 /\ s.bufsz = 0 /\ s.block_size = 0
        /\ s.large_umash = FALSE /\ s.hash_wanted = which
        /\ s.oh_acc = {} /\ s.oh_twisted = FreshTwist
        /\ HasFields(s)
    BY DEF umash_init, HasFields, FreshTwist
  <1>2. DOMAIN s.poly = 0 .. 1 /\ s.poly[0] = <<>> /\ s.poly[1] = <<>>
    BY <1>1
  <1>3. PolyType(s)
    <2>1. \A w \in 0 .. 1 : w = 0 \/ w = 1
      OBVIOUS
    <2>2. <<>> \in Seq(BlockValues)
      BY EmptySeq
    <2> QED
      BY <1>2, <2>1, <2>2 DEF PolyType
  <1>4. Len(s.poly[0]) = 0 /\ Len(s.poly[1]) = 0
    BY <1>2
  <1>5. PolyOf(s)
    BY <1>2, <1>4 DEF PolyOf
  <1>6. BlockOf(s)
    BY <1>1, EmptyBlock DEF BlockOf
  <1>7. IsSink(s)
    <2>1. ZeroByte \in Int
      BY DEF ZeroByte
    <2>2. s.buf \in [0 .. 2 * ChunkSize - 1 -> Int]
      BY <1>1, <2>1
    <2>3. /\ 0 \in 0 .. ChunkSize /\ 0 \in 0 .. BlockBytes - ChunkSize
          /\ 0 \in 0 .. OhParamCount - 2
      BY Geometry
    <2> QED
      BY <1>1, <1>2, <2>2, <2>3 DEF IsSink
  <1>8. 0 * WordSize = 0 /\ 0 * BlockBytes = 0 /\ 0 % 2 = 0
    BY Geometry
  <1>9. Coherent(s)
    BY <1>1, <1>3, <1>5, <1>6, <1>7, <1>8 DEF Coherent
  <1>10. BaseOf(s) + s.block_size = 0 /\ BytesSeen(s) = 0
    BY <1>1, <1>4, <1>8 DEF BaseOf, BytesSeen
  <1>11. WindowAt(s.buf, 0, 0)
    BY Geometry DEF WindowAt
  <1>12. WindowOf(s)
    BY <1>1, <1>3, <1>7, <1>10, <1>11, WindowIs
  <1> QED
    BY <1>1, <1>9, <1>10, <1>12

\* The invariant after a step, when no call is in progress.
LEMMA IdleInv ==
    ASSUME pc' = "idle", left' = 0, consumed' = 0, fed' \in 0 .. MaxBytes,
           Coherent(sink'), WindowOf(sink'), BytesSeen(sink') = fed',
           ~ sink'.large_umash => fed' = sink'.bufsz /\ fed' < ChunkSize,
           sink'.large_umash => fed' >= ChunkSize /\ sink'.bufsz > 0
    PROVE  IndInv'
  <1>1. data' + consumed' = fed'
    <2>1. fed' \in Int
      BY SinkAssumption
    <2>2. data' + consumed' = fed' - 0 + 0
      BY DEF data
    <2> QED
      BY <2>1, <2>2
  <1>2. TypeOK'
    BY SinkAssumption DEF TypeOK, Coherent
  <1>3. PositionInv'
    BY <1>1 DEF PositionInv, Coherent
  <1> QED
    BY <1>2, <1>3 DEF IndInv, WindowInv

\* The same inside a call: at the head of the loop of umash_sink_update,
\* and in block_sink_update.
LEMMA LoopInv ==
    ASSUME pc' = "loop", left' \in 0 .. MaxBytes, left' > 0, consumed' = 0,
           fed' \in 0 .. MaxBytes,
           Coherent(sink'), WindowOf(sink'), BytesSeen(sink') = data',
           data' >= ChunkSize, sink'.large_umash, sink'.bufsz = 0
    PROVE  IndInv'
  <1>1. data' + consumed' = data' /\ data' \in Int
    BY SinkAssumption DEF data
  <1>2. TypeOK'
    BY SinkAssumption DEF TypeOK, Coherent
  <1>3. PositionInv'
    BY <1>1 DEF PositionInv, Coherent
  <1> QED
    BY <1>2, <1>3 DEF IndInv, WindowInv

\* Between two steps of block_sink_update, the invariant only has these parts.
LEMMA BlocksInv ==
    ASSUME pc' \in {"blocks", "saveTail"},
           left' \in 0 .. MaxBytes, consumed' \in 0 .. MaxBytes, left' > consumed',
           fed' \in 0 .. MaxBytes,
           Coherent(sink'), BytesSeen(sink') = data' + consumed',
           data' + consumed' >= ChunkSize, sink'.large_umash,
           Between(sink'),
           pc' = "blocks" => left' > BlockBytes,
           pc' = "blocks" => consumed' = 0 \/ consumed' >= BlockBytes,
           pc' = "saveTail" => consumed' >= BlockBytes
    PROVE  IndInv'
  <1>1. TypeOK'
    BY DEF TypeOK, Coherent
  <1>2. PositionInv'
    BY DEF PositionInv, Coherent, Between
  <1> QED
    BY <1>1, <1>2 DEF IndInv, WindowInv

\* What the invariant says in a form the steps use.
LEMMA IndFacts ==
    ASSUME IndInv
    PROVE  /\ fed \in 0 .. MaxBytes /\ left \in 0 .. MaxBytes
           /\ consumed \in 0 .. MaxBytes /\ fed \in Int /\ left \in Int
           /\ consumed \in Int /\ data \in Int /\ MaxBytes \in Nat
           /\ Coherent(sink) /\ HasFields(sink)
           /\ BytesSeen(sink) = data + consumed
           /\ sink.bufsz \in Nat /\ sink.bufsz <= ChunkSize
  BY SinkAssumption, SinkFacts, Geometry
  DEF IndInv, TypeOK, PositionInv, data, Coherent, IsSink

\* A block has ended.
LEMMA BetweenBlocks ==
    ASSUME NEW s, Coherent(s), s.oh_iter = 0, s.bufsz = 0
    PROVE  Between(s) /\ BytesSeen(s) = BaseOf(s)
  <1>1. s.block_size = 0 /\ BaseOf(s) \in Nat
    <2>1. 0 * WordSize = 0
      BY Geometry
    <2> QED
      BY <2>1, SinkFacts DEF Coherent
  <1>2. BytesSeen(s) = BaseOf(s) + 0 + 0
    BY <1>1 DEF BytesSeen
  <1>3. BytesSeen(s) = BaseOf(s)
    BY <1>1, <1>2
  <1>4. Between(s)
    BY <1>1, EmptyBlock DEF Between, Coherent, BlockOf
  <1> QED
    BY <1>3, <1>4
\* The invariant holds before the first update.
LEMMA InitInv == Init => IndInv
  <1> SUFFICES ASSUME Init
               PROVE  IndInv
    OBVIOUS
  <1>1. PICK which \in 0 .. 2 : sink = umash_init(which)
    BY DEF Init
  <1>2. /\ Coherent(sink) /\ WindowOf(sink)
        /\ BytesSeen(sink) = 0 /\ sink.bufsz = 0 /\ sink.large_umash = FALSE
    BY <1>1, InitSink
  <1>3. fed = 0 /\ left = 0 /\ consumed = 0 /\ pc = "idle" /\ data + consumed = 0
    BY DEF Init, data
  <1>4. TypeOK
    BY <1>2, <1>3, SinkAssumption DEF TypeOK, Coherent
  <1>5. PositionInv
    BY <1>2, <1>3, Geometry DEF PositionInv, Coherent
  <1> QED
    BY <1>2, <1>4, <1>5 DEF IndInv, WindowInv

\* Initialising the sink again restores the invariant.
LEMMA ReinitStep ==
    ASSUME IndInv, Reinit
    PROVE  IndInv'
  <1>1. PICK which \in 0 .. 2 : sink' = umash_init(which)
    BY DEF Reinit
  <1>2. /\ Coherent(sink') /\ WindowOf(sink')
        /\ BytesSeen(sink') = 0 /\ sink'.bufsz = 0 /\ sink'.large_umash = FALSE
    BY <1>1, InitSink
  <1>3. fed' = 0 /\ pc' = "idle" /\ left' = 0 /\ consumed' = 0
    BY DEF Reinit, IndInv, PositionInv
  <1>4. 0 \in 0 .. MaxBytes /\ 0 < ChunkSize
    BY SinkAssumption, Geometry
  <1> QED
    BY <1>2, <1>3, <1>4, IdleInv

\* umash_sink_update that only buffers its input keeps the invariant.
LEMMA UpdateBufferStep ==
    ASSUME IndInv, NEW n \in UpdateSizes, UpdateBuffer(n)
    PROVE  IndInv'
  <1>0. /\ n \in Nat /\ fed \in Nat /\ sink.bufsz \in Nat /\ Coherent(sink)
        /\ HasFields(sink) /\ MaxBytes \in Nat
        /\ left = 0 /\ consumed = 0 /\ pc = "idle"
        /\ BytesSeen(sink) = fed /\ WindowOf(sink)
    <2>1. pc = "idle" /\ left = 0 /\ consumed = 0 /\ WindowOf(sink)
      BY DEF UpdateBuffer, IndInv, PositionInv, WindowInv
    <2>2. data + consumed = fed
      <3>1. fed \in Int
        BY IndFacts
      <3>2. data + consumed = fed - 0 + 0
        BY <2>1 DEF data
      <3> QED
        BY <3>1, <3>2
    <2> QED
      BY <2>1, <2>2, IndFacts, SinkAssumption
  <1>1. n < ChunkSize - sink.bufsz /\ fed + n <= MaxBytes
    BY DEF UpdateBuffer
  <1>2. FillEffect(sink, n, sink.large_umash, sink')
    <2>1. PICK r : r = [sink EXCEPT !.buf = CopyIn(@, ChunkSize + sink.bufsz, fed, n),
                                    !.bufsz = @ + n]
      OBVIOUS
    <2>2. sink' = r
      BY <2>1 DEF UpdateBuffer
    <2> QED
      BY <1>0, <2>1, <2>2 DEF FillEffect, HasFields
  <1>3. sink.bufsz + n <= ChunkSize /\ sink.bufsz + n < ChunkSize
    BY <1>0, <1>1, Geometry
  <1>4. sink.large_umash \in BOOLEAN
    BY <1>0 DEF Coherent, IsSink
  <1>5. /\ Coherent(sink') /\ WindowOf(sink')
        /\ BytesSeen(sink') = fed + n
    BY <1>0, <1>2, <1>3, <1>4, FillStep
  <1>6. /\ fed' = fed + n /\ fed + n \in 0 .. MaxBytes
        /\ left' = 0 /\ consumed' = 0 /\ pc' = "idle"
    BY <1>0, <1>1 DEF UpdateBuffer
  <1>7. sink'.large_umash = sink.large_umash /\ sink'.bufsz = sink.bufsz + n
    BY <1>2 DEF FillEffect
  <1>8. ~ sink'.large_umash => fed' = sink'.bufsz /\ fed' < ChunkSize
    <2> SUFFICES ASSUME ~ sink.large_umash
                 PROVE  fed + n = sink.bufsz + n /\ fed + n < ChunkSize
      BY <1>6, <1>7
    <2>1. fed = sink.bufsz
      BY DEF IndInv, PositionInv
    <2> QED
      BY <1>3, <2>1
  <1>9. sink'.large_umash => fed' >= ChunkSize /\ sink'.bufsz > 0
    <2> SUFFICES ASSUME sink.large_umash
                 PROVE  fed + n >= ChunkSize /\ sink.bufsz + n > 0
      BY <1>6, <1>7
    <2>1. BytesSeen(sink) >= ChunkSize /\ sink.bufsz > 0
      BY <1>0 DEF IndInv, PositionInv
    <2> QED
      BY <1>0, <2>1, Geometry
  <1> QED
    BY <1>5, <1>6, <1>8, <1>9, IdleInv
\* umash_sink_update that completes the buffered chunk keeps the invariant.
LEMMA UpdateFillStep ==
    ASSUME IndInv, NEW n \in UpdateSizes, UpdateFill(n)
    PROVE  IndInv'
  <1> DEFINE rest == ChunkSize - sink.bufsz
  <1>0. /\ n \in Nat /\ fed \in Nat /\ sink.bufsz \in Nat /\ Coherent(sink)
        /\ HasFields(sink) /\ MaxBytes \in Nat
        /\ left = 0 /\ consumed = 0 /\ pc = "idle"
        /\ BytesSeen(sink) = fed /\ WindowOf(sink)
        /\ sink.bufsz <= ChunkSize /\ rest \in Nat
    <2>1. pc = "idle" /\ left = 0 /\ consumed = 0 /\ WindowOf(sink)
      BY DEF UpdateFill, IndInv, PositionInv, WindowInv
    <2>2. data + consumed = fed
      <3>1. fed \in Int
        BY IndFacts
      <3>2. data + consumed = fed - 0 + 0
        BY <2>1 DEF data
      <3> QED
        BY <3>1, <3>2
    <2> QED
      BY <2>1, <2>2, IndFacts, SinkAssumption, Geometry
  <1>1. PICK full : full = [sink EXCEPT !.buf = CopyIn(@, ChunkSize + sink.bufsz, fed, rest),
                                        !.large_umash = TRUE,
                                        !.bufsz = ChunkSize]
    OBVIOUS
  <1>2. /\ n >= rest /\ fed + n <= MaxBytes
        /\ fed' = fed + n /\ left' = n - rest /\ consumed' = consumed
        /\ n = rest => sink' = full /\ pc' = "idle"
        /\ n # rest =>
             /\ sink' = sink_consume_buf(full, ChunkIn(full.buf, ChunkSize), FALSE)
             /\ pc' = "loop"
    BY <1>1 DEF UpdateFill
  <1>3. sink.bufsz + rest = ChunkSize
    BY <1>0, Geometry
  <1>4. FillEffect(sink, rest, TRUE, full)
    BY <1>0, <1>1, <1>3 DEF FillEffect, HasFields
  <1> HIDE DEF rest
  <1>5. /\ Coherent(full) /\ WindowOf(full)
        /\ BytesSeen(full) = fed + rest
    <2>1. sink.bufsz + rest <= ChunkSize
      BY <1>0, <1>3
    <2> QED
      BY <1>0, <1>4, <2>1, FillStep
  <1>6. full.bufsz = ChunkSize /\ full.large_umash = TRUE /\ full.poly = sink.poly
    BY <1>3, <1>4 DEF FillEffect
  <1>7. BytesSeen(full) >= ChunkSize
    <2>1. BaseOf(full) \in Nat /\ full.block_size \in Nat
      BY <1>5, SinkFacts DEF Coherent
    <2>2. BytesSeen(full) = BaseOf(full) + full.block_size + ChunkSize
      BY <1>6 DEF BytesSeen
    <2> QED
      BY <2>1, <2>2, Geometry
  <1>8. fed' \in 0 .. MaxBytes /\ consumed' = 0
    BY <1>0, <1>2
  <1>9. CASE n = rest
    <2>1. sink' = full /\ pc' = "idle" /\ left' = 0 /\ fed' = fed + rest
      BY <1>0, <1>2, <1>9
    <2>2. ~ ~ sink'.large_umash
      BY <1>6, <2>1
    <2>3. fed' >= ChunkSize /\ sink'.bufsz > 0
      BY <1>5, <1>6, <1>7, <2>1, Geometry
    <2> QED
      BY <1>5, <1>8, <2>1, <2>2, <2>3, IdleInv
  <1>10. CASE n # rest
    <2>1. ChunkIn(full.buf, ChunkSize) = Span(BytesSeen(full) - ChunkSize, ChunkSize)
      <3>1. full.bufsz > 0
        BY <1>6, Geometry
      <3>2. ChunkIn(full.buf, full.bufsz) = Span(BytesSeen(full) - ChunkSize, ChunkSize)
        BY <1>5, <1>7, <3>1, BufferedChunk
      <3> QED
        BY <1>6, <3>2
    <2>2. sink' = sink_consume_buf(full, Span(BytesSeen(full) - ChunkSize, ChunkSize), FALSE)
      BY <1>2, <1>10, <2>1
    <2>3. /\ Coherent(sink') /\ WindowOf(sink') /\ Keeps(full, sink')
          /\ BytesSeen(sink') = BytesSeen(full)
          /\ sink'.bufsz = 0
      BY <1>5, <1>6, <2>2, ConsumeStep
    <2>4. data' = fed + rest
      <3>1. fed' = fed + n /\ left' = n - rest
        BY <1>2
      <3>2. data' = fed' - left'
        BY DEF data
      <3> QED
        BY <1>0, <3>1, <3>2
    <2>5. left' \in 0 .. MaxBytes /\ left' > 0
      BY <1>0, <1>2, <1>10
    <2>6. BytesSeen(sink') = data' /\ data' >= ChunkSize
      BY <1>5, <1>7, <2>3, <2>4
    <2>8. sink'.large_umash
      BY <1>6, <2>3 DEF Keeps
    <2> QED
      BY <1>2, <1>8, <1>10, <2>3, <2>5, <2>6, <2>8, LoopInv
  <1> QED
    BY <1>9, <1>10

\* Consuming a chunk, in the loop of umash_sink_update, keeps the invariant.
LEMMA ConsumeChunkStep ==
    ASSUME IndInv, ConsumeChunk
    PROVE  IndInv'
  <1>0. /\ fed \in Int /\ left \in Int /\ data \in Int /\ MaxBytes \in Nat
        /\ Coherent(sink) /\ HasFields(sink) /\ WindowOf(sink)
        /\ fed \in 0 .. MaxBytes /\ left \in 0 .. MaxBytes
        /\ consumed = 0 /\ sink.bufsz = 0 /\ sink.large_umash
        /\ left > ChunkSize /\ pc = "loop"
    BY IndFacts DEF ConsumeChunk, IndInv, PositionInv, WindowInv
  <1>1. BytesSeen(sink) = data /\ data >= ChunkSize
    <2>1. data + consumed = data
      BY <1>0
    <2> QED
      BY <1>0, <2>1 DEF IndInv, PositionInv
  <1>2. PICK s : s = [sink EXCEPT !.bufsz = ChunkSize]
    OBVIOUS
  <1>3. /\ HasFields(s) /\ s.bufsz = ChunkSize /\ s.poly = sink.poly /\ s.buf = sink.buf
        /\ s.oh_iter = sink.oh_iter /\ s.block_size = sink.block_size
        /\ s.large_umash = sink.large_umash /\ s.hash_wanted = sink.hash_wanted
        /\ s.oh_acc = sink.oh_acc /\ s.oh_twisted = sink.oh_twisted
    BY <1>0, <1>2 DEF HasFields
  <1>4. Coherent(s)
    <2>1. ChunkSize \in 0 .. ChunkSize
      BY Geometry
    <2>2. IsSink(s)
      BY <1>0, <1>3, <2>1 DEF Coherent, IsSink
    <2>3. BaseOf(s) = BaseOf(sink)
      BY <1>3 DEF BaseOf
    <2> QED
      BY <1>0, <1>3, <2>2, <2>3 DEF Coherent, PolyType, PolyOf, BlockOf
  <1>5. BytesSeen(s) = data + ChunkSize
    <2>1. BaseOf(sink) \in Nat /\ sink.block_size \in Nat
      BY <1>0, SinkFacts DEF Coherent
    <2>2. BytesSeen(sink) = BaseOf(sink) + sink.block_size + 0
      BY <1>0 DEF BytesSeen
    <2>3. BytesSeen(s) = BaseOf(sink) + sink.block_size + ChunkSize
      BY <1>3 DEF BytesSeen, BaseOf
    <2> QED
      BY <1>1, <2>1, <2>2, <2>3, Geometry
  <1>6. data + ChunkSize - ChunkSize = data
    BY <1>0, Geometry
  <1>7. sink' = sink_consume_buf(s, Span(BytesSeen(s) - ChunkSize, ChunkSize), FALSE)
    <2>1. BytesSeen(s) - ChunkSize = data
      BY <1>0, <1>5, <1>6, Geometry
    <2>2. sink' = sink_consume_buf(s, Span(data, ChunkSize), FALSE)
      BY <1>2 DEF ConsumeChunk
    <2> QED
      BY <2>1, <2>2
  <1>8. /\ Coherent(sink') /\ WindowOf(sink') /\ Keeps(s, sink')
        /\ BytesSeen(sink') = data + ChunkSize
        /\ sink'.bufsz = 0
    BY <1>3, <1>4, <1>5, <1>7, ConsumeStep
  <1>9. fed' = fed /\ left' = left - ChunkSize /\ consumed' = consumed /\ pc' = "loop"
    BY <1>0 DEF ConsumeChunk
  <1>10. data' = data + ChunkSize
    BY <1>0, <1>9, Geometry DEF data
  <1>11. left' \in 0 .. MaxBytes /\ left' > 0
    BY <1>0, <1>9, Geometry
  <1>12. sink'.large_umash
    BY <1>0, <1>3, <1>8 DEF Keeps
  <1>13. data' >= ChunkSize
    BY <1>0, <1>1, <1>10, Geometry
  <1> QED
    BY <1>0, <1>8, <1>9, <1>10, <1>11, <1>12, <1>13, LoopInv
\* The whole blocks of at least one block of data, leaving the last byte.
LEMMA BlockCount ==
    ASSUME NEW l \in Nat, l > BlockBytes
    PROVE  /\ (l - 1) \div BlockBytes \in Nat
           /\ ((l - 1) \div BlockBytes) * BlockBytes < l
           /\ ((l - 1) \div BlockBytes) * BlockBytes >= BlockBytes
  <1> DEFINE m == (l - 1) \div BlockBytes
  <1>1. m \in Nat /\ m >= 1
    BY Geometry
  <1>2. m * BlockBytes <= l - 1
    BY Geometry
  <1> HIDE DEF m
  <1>3. m * BlockBytes >= BlockBytes
    BY <1>1, Geometry
  <1>4. m * BlockBytes \in Nat
    BY <1>1, Geometry
  <1> QED
    BY <1>1, <1>2, <1>3, <1>4 DEF m

\* Entering block_sink_update, with its run of blocks when the input is large,
\* keeps the invariant.
LEMMA EnterBlocksStep ==
    ASSUME IndInv, EnterBlocks
    PROVE  IndInv'
  <1>0. /\ fed \in Int /\ left \in Nat /\ data \in Int /\ MaxBytes \in Nat
        /\ Coherent(sink) /\ fed \in 0 .. MaxBytes /\ left \in 0 .. MaxBytes
        /\ consumed = 0 /\ sink.bufsz = 0 /\ sink.large_umash
        /\ sink.oh_iter = 0 /\ left > BlockBytes
    BY IndFacts DEF EnterBlocks, BlockPath, IndInv, PositionInv
  <1>1. BytesSeen(sink) = data + 0 /\ data + 0 >= ChunkSize
    BY <1>0 DEF IndInv, PositionInv
  <1>2. Between(sink) /\ BytesSeen(sink) = BaseOf(sink)
    BY <1>0, BetweenBlocks
  <1>3. fed' = fed /\ left' = left /\ data' = data
    BY DEF EnterBlocks, data
  <1>4. CASE left > MultipleBlocksThreshold
    <2> DEFINE n == (left - 1) \div BlockBytes
    <2>1. n \in Nat /\ n * BlockBytes < left /\ n * BlockBytes >= BlockBytes
      BY <1>0, BlockCount
    <2>2. /\ sink' = MultipleBlocks(sink, data, n)
          /\ consumed' = n * BlockBytes /\ pc' = "saveTail"
      BY <1>4 DEF EnterBlocks
    <2> HIDE DEF n
    <2>3. data = BaseOf(sink)
      BY <1>0, <1>1, <1>2
    <2>4. /\ Coherent(sink') /\ Between(sink') /\ Keeps(sink, sink')
          /\ BaseOf(sink') = BaseOf(sink) + n * BlockBytes
      BY <1>0, <1>2, <2>1, <2>2, <2>3, MultipleStep
    <2>5. BytesSeen(sink') = BaseOf(sink')
      BY <2>4, BetweenBlocks DEF Between
    <2>6. BytesSeen(sink') = data' + consumed'
      BY <1>3, <2>2, <2>3, <2>4, <2>5
    <2>7. /\ consumed' \in 0 .. MaxBytes /\ left' > consumed'
          /\ data' + consumed' >= ChunkSize
      <3>1. n * BlockBytes \in Nat
        BY <2>1, Geometry
      <3> QED
        BY <1>0, <1>1, <1>3, <2>1, <2>2, <3>1, Geometry
    <2>8. sink'.large_umash
      BY <1>0, <2>4 DEF Keeps
    <2> QED
      BY <1>0, <1>3, <2>1, <2>2, <2>4, <2>6, <2>7, <2>8, BlocksInv
  <1>5. CASE ~ (left > MultipleBlocksThreshold)
    <2>1. sink' = sink /\ consumed' = 0 /\ pc' = "blocks"
      BY <1>0, <1>5 DEF EnterBlocks
    <2>2. 0 \in 0 .. MaxBytes /\ left > 0
      BY <1>0, Geometry
    <2> QED
      BY <1>0, <1>1, <1>2, <1>3, <2>1, <2>2, BlocksInv
  <1> QED
    BY <1>4, <1>5

\* One turn of the block loop of block_sink_update keeps the invariant.
LEMMA NextBlockStep ==
    ASSUME IndInv, NextBlock
    PROVE  IndInv'
  <1>0. /\ fed \in Int /\ left \in Int /\ data \in Int /\ MaxBytes \in Nat
        /\ consumed \in Int /\ consumed \in 0 .. MaxBytes
        /\ Coherent(sink) /\ fed \in 0 .. MaxBytes /\ left \in 0 .. MaxBytes
        /\ sink.bufsz = 0 /\ sink.large_umash /\ sink.oh_iter = 0
        /\ left > BlockBytes /\ left > consumed /\ pc = "blocks"
        /\ BytesSeen(sink) = data + consumed /\ data + consumed >= ChunkSize
        /\ consumed = 0 \/ consumed >= BlockBytes
    BY IndFacts DEF NextBlock, IndInv, PositionInv
  <1>2. Between(sink) /\ BytesSeen(sink) = BaseOf(sink)
    BY <1>0, BetweenBlocks
  <1>3. fed' = fed /\ left' = left /\ data' = data
    BY DEF NextBlock, data
  <1>4. CASE left - consumed > BlockBytes
    <2>1. /\ sink' = BlockUpdate(sink, data + consumed)
          /\ consumed' = consumed + BlockBytes /\ pc' = "blocks"
      BY <1>0, <1>4 DEF NextBlock
    <2>2. sink' = BlockUpdate(sink, BaseOf(sink))
      BY <1>0, <1>2, <2>1
    <2>3. /\ Coherent(sink') /\ Between(sink') /\ Keeps(sink, sink')
          /\ BaseOf(sink') = BaseOf(sink) + BlockBytes
      BY <1>0, <1>2, <2>2, BlockStep
    <2>4. BytesSeen(sink') = BaseOf(sink')
      BY <2>3, BetweenBlocks DEF Between
    <2>5. BytesSeen(sink') = data' + consumed'
      <3>1. BytesSeen(sink') = data + consumed + BlockBytes
        BY <1>0, <1>2, <2>3, <2>4
      <3> QED
        BY <1>0, <1>3, <2>1, <3>1, Geometry
    <2>6. /\ consumed' \in 0 .. MaxBytes /\ left' > consumed'
          /\ data' + consumed' >= ChunkSize /\ consumed' >= BlockBytes
      BY <1>0, <1>3, <1>4, <2>1, Geometry
    <2>7. sink'.large_umash
      BY <1>0, <2>3 DEF Keeps
    <2> QED
      BY <1>0, <1>3, <2>1, <2>3, <2>5, <2>6, <2>7, BlocksInv
  <1>5. CASE ~ (left - consumed > BlockBytes)
    <2>1. sink' = sink /\ consumed' = consumed /\ pc' = "saveTail"
      BY <1>5 DEF NextBlock
    <2>2. consumed >= BlockBytes
      BY <1>0, <1>5, Geometry
    <2> QED
      BY <1>0, <1>2, <1>3, <2>1, <2>2, BlocksInv
  <1> QED
    BY <1>4, <1>5
\* block_sink_update's copy of the last bytes of its last block keeps the invariant.
LEMMA SaveTailStep ==
    ASSUME IndInv, SaveTail
    PROVE  IndInv'
  <1>0. /\ fed \in Int /\ left \in Int /\ data \in Int /\ MaxBytes \in Nat
        /\ consumed \in Int /\ consumed \in 0 .. MaxBytes
        /\ Coherent(sink) /\ HasFields(sink)
        /\ fed \in 0 .. MaxBytes /\ left \in 0 .. MaxBytes
        /\ sink.bufsz = 0 /\ sink.large_umash /\ left > consumed
        /\ BytesSeen(sink) = data + consumed /\ data + consumed >= ChunkSize
    BY IndFacts DEF SaveTail, IndInv, PositionInv
  <1> DEFINE p == data + consumed - ChunkSize
  <1>1. PICK r : r = [sink EXCEPT !.buf = CopyIn(@, 0, p, ChunkSize)]
    OBVIOUS
  <1>2. sink' = r
    BY <1>1 DEF SaveTail
  <1>3. /\ HasFields(sink') /\ sink'.buf = CopyIn(sink.buf, 0, p, ChunkSize)
        /\ sink'.bufsz = 0 /\ sink'.poly = sink.poly
        /\ sink'.oh_iter = sink.oh_iter /\ sink'.block_size = sink.block_size
        /\ sink'.large_umash = sink.large_umash
        /\ sink'.hash_wanted = sink.hash_wanted
        /\ sink'.oh_acc = sink.oh_acc /\ sink'.oh_twisted = sink.oh_twisted
    BY <1>0, <1>1, <1>2 DEF HasFields
  <1>4. p \in Int
    BY <1>0, Geometry
  <1>5. Coherent(sink')
    <2>1. sink'.buf \in [0 .. 2 * ChunkSize - 1 -> Int]
      <3>1. sink.buf \in [0 .. 2 * ChunkSize - 1 -> Int]
        BY <1>0 DEF Coherent, IsSink
      <3>2. 0 \in Int /\ ChunkSize \in Int
        BY Geometry
      <3> HIDE DEF p
      <3> QED
        BY <1>3, <1>4, <3>1, <3>2, CopiedBuffer
    <2>2. IsSink(sink')
      BY <1>0, <1>3, <2>1 DEF Coherent, IsSink
    <2>3. BaseOf(sink') = BaseOf(sink)
      BY <1>3 DEF BaseOf
    <2> QED
      BY <1>0, <1>3, <2>2, <2>3 DEF Coherent, PolyType, PolyOf, BlockOf
  <1>6. BytesSeen(sink') = data + consumed
    <2>1. BytesSeen(sink') = BytesSeen(sink)
      BY <1>0, <1>3 DEF BytesSeen, BaseOf
    <2> QED
      BY <1>0, <2>1
  <1>7. WindowOf(sink')
    <2> DEFINE q == BaseOf(sink') + sink'.block_size
    <2>1. q \in Nat /\ BytesSeen(sink') = q + 0
      BY <1>3, <1>5, WindowIs DEF Coherent
    <2>2. WindowOf(sink') <=> WindowAt(sink'.buf, q, 0)
      BY <1>3, <1>5, WindowIs DEF Coherent
    <2> HIDE DEF q
    <2>3. p = q - ChunkSize
      BY <1>0, <1>6, <2>1, Geometry
    <2> HIDE DEF p
    <2>4. WindowAt(CopyIn(sink.buf, 0, p, ChunkSize), q, 0)
      BY <2>1, <2>3, Geometry DEF WindowAt, CopyIn
    <2> QED
      BY <1>3, <2>2, <2>4
  <1>8. fed' = fed /\ left' = left - consumed /\ consumed' = 0 /\ pc' = "loop"
    BY DEF SaveTail
  <1>9. data' = data + consumed
    BY <1>0, <1>8 DEF data
  <1>10. left' \in 0 .. MaxBytes /\ left' > 0
    BY <1>0, <1>8
  <1> QED
    BY <1>0, <1>3, <1>5, <1>6, <1>7, <1>8, <1>9, <1>10, LoopInv

\* The rest of umash_sink_update, which buffers the tail, keeps the invariant.
LEMMA FinishUpdateStep ==
    ASSUME IndInv, FinishUpdate
    PROVE  IndInv'
  <1>0. /\ fed \in Int /\ left \in Nat /\ data \in Int /\ MaxBytes \in Nat
        /\ Coherent(sink) /\ HasFields(sink) /\ WindowOf(sink)
        /\ fed \in 0 .. MaxBytes /\ left > 0 /\ left <= ChunkSize
        /\ sink.bufsz = 0 /\ sink.large_umash /\ consumed = 0
        /\ BytesSeen(sink) = data + consumed /\ data + consumed >= ChunkSize
    BY IndFacts DEF FinishUpdate, IndInv, PositionInv, WindowInv
  <1>1. BytesSeen(sink) = data /\ data >= ChunkSize
    BY <1>0
  <1>2. PICK r : r = [sink EXCEPT !.buf = CopyIn(@, ChunkSize, data, left),
                                  !.bufsz = left]
    OBVIOUS
  <1>3. FillEffect(sink, left, TRUE, sink')
    <2>1. sink' = r
      BY <1>2 DEF FinishUpdate
    <2>2. ChunkSize + 0 = ChunkSize /\ 0 + left = left
      BY <1>0, Geometry
    <2>3. /\ HasFields(r) /\ r.buf = CopyIn(sink.buf, ChunkSize, data, left)
          /\ r.bufsz = left /\ r.poly = sink.poly
          /\ r.oh_iter = sink.oh_iter /\ r.block_size = sink.block_size
          /\ r.large_umash = sink.large_umash /\ r.hash_wanted = sink.hash_wanted
          /\ r.oh_acc = sink.oh_acc /\ r.oh_twisted = sink.oh_twisted
      BY <1>0, <1>2 DEF HasFields
    <2>4. sink.large_umash = TRUE
      BY <1>0 DEF Coherent, IsSink
    <2> QED
      BY <1>0, <1>1, <2>1, <2>2, <2>3, <2>4 DEF FillEffect
  <1>4. /\ Coherent(sink') /\ WindowOf(sink')
        /\ BytesSeen(sink') = data + left
    <2>1. sink.bufsz + left <= ChunkSize
      BY <1>0
    <2> QED
      BY <1>0, <1>1, <1>3, <2>1, FillStep
  <1>5. data + left = fed
    BY <1>0 DEF data
  <1>6. sink'.bufsz = left /\ sink'.large_umash = TRUE
    BY <1>0, <1>3 DEF FillEffect
  <1>7. fed' = fed /\ left' = 0 /\ consumed' = 0 /\ pc' = "idle"
    BY <1>0 DEF FinishUpdate
  <1>8. fed >= ChunkSize
    BY <1>0, <1>1, <1>5, Geometry
  <1> QED
    BY <1>0, <1>4, <1>5, <1>6, <1>7, <1>8, IdleInv

\* A stuttering step keeps the invariant.
LEMMA SameInv ==
    ASSUME IndInv, UNCHANGED <<sink, fed, left, consumed, pc>>
    PROVE  IndInv'
  BY DEF IndInv, TypeOK, PositionInv, WindowInv, data

\* Every step keeps the invariant.
LEMMA InvStep ==
    ASSUME IndInv, [Next]_vars
    PROVE  IndInv'
  <1>1. CASE Reinit
    BY <1>1, ReinitStep DEF Reinit
  <1>2. ASSUME NEW n \in UpdateSizes, UpdateBuffer(n)
        PROVE  IndInv'
    BY <1>2, UpdateBufferStep
  <1>3. ASSUME NEW n \in UpdateSizes, UpdateFill(n)
        PROVE  IndInv'
    BY <1>3, UpdateFillStep
  <1>4. CASE ConsumeChunk
    BY <1>4, ConsumeChunkStep
  <1>5. CASE EnterBlocks
    BY <1>5, EnterBlocksStep
  <1>6. CASE NextBlock
    BY <1>6, NextBlockStep
  <1>7. CASE SaveTail
    BY <1>7, SaveTailStep
  <1>8. CASE FinishUpdate
    BY <1>8, FinishUpdateStep
  <1>9. CASE Digest
    BY <1>9, SameInv DEF Digest
  <1>10. CASE UNCHANGED vars
    BY <1>10, SameInv DEF vars
  <1> QED
    BY <1>1, <1>2, <1>3, <1>4, <1>5, <1>6, <1>7, <1>8, <1>9, <1>10
    DEF Next, Continue

\* The inductive invariant holds.
THEOREM Inductive == Spec => []IndInv
  <1>1. Init => IndInv
    BY InitInv
  <1>2. IndInv /\ [Next]_vars => IndInv'
    BY InvStep
  <1> QED
    BY <1>1, <1>2, PTL DEF Spec

-----------------------------------------------------------------------------
(* The digest, and what follows from the invariant. *)

\* A sequence of one value, as the reference builds it.
LEMMA Singleton ==
    ASSUME NEW x
    PROVE  [j \in 1 .. 1 |-> x] = <<x>>
  <1>1. [j \in 1 .. 1 |-> x] \in Seq({x}) /\ Len([j \in 1 .. 1 |-> x]) = 1
    <2>1. [j \in 1 .. 1 |-> x] \in [1 .. 1 -> {x}]
      OBVIOUS
    <2> QED
      BY <2>1, 1 \in Nat
  <1>2. <<x>> \in Seq({x}) /\ Len(<<x>>) = 1
    OBVIOUS
  <1>3. \A i \in 1 .. 1 : [j \in 1 .. 1 |-> x][i] = <<x>>[i]
    OBVIOUS
  <1> DEFINE a == [j \in 1 .. 1 |-> x]
             b == <<x>>
  <1>4. \A i \in 1 .. Len(a) : a[i] = b[i]
    BY <1>1, <1>3
  <1>5. a \in Seq({x}) /\ b \in Seq({x}) /\ Len(a) = Len(b)
    BY <1>1, <1>2
  <1> HIDE DEF a, b
  <1>6. a = b
    BY <1>4, <1>5, SeqEqual
  <1> QED
    BY <1>6 DEF a, b

\* The hash that a sink was set up for is the one it is asked for.
LEMMA WantedDigest ==
    ASSUME NEW s, s.hash_wanted \in 0 .. 2, NEW n,
           s.hash_wanted = 2 => fp_digest_sink(s) = <<umash(n, FALSE), umash(n, TRUE)>>,
           s.hash_wanted # 1 => umash_digest(s) = umash(n, FALSE),
           s.hash_wanted = 1 => umash_digest(s) = umash(n, TRUE)
    PROVE  DigestOf(s) = Expected(s.hash_wanted, n)
  <1> DEFINE h == umash(n, FALSE)
             g == umash(n, TRUE)
             w == s.hash_wanted
             d == umash_digest(s)
             f == fp_digest_sink(s)
  <1>1. (w = 2 => f = <<h, g>>) /\ (w # 1 => d = h) /\ (w = 1 => d = g)
    OBVIOUS
  <1>2. w = 0 \/ w = 1 \/ w = 2
    OBVIOUS
  <1>3. DigestOf(s) = (IF w = 2 THEN f ELSE <<d>>)
    BY DEF DigestOf
  <1>4. Expected(w, n) = (IF w = 0 THEN <<h>> ELSE IF w = 1 THEN <<g>> ELSE <<h, g>>)
    BY DEF Expected
  <1>5. 0 # 1 /\ 0 # 2 /\ 1 # 2
    OBVIOUS
  <1> HIDE DEF h, g, w, d, f
  <1>6. CASE w = 0
    BY <1>1, <1>3, <1>4, <1>5, <1>6, Zenon DEF w
  <1>7. CASE w = 1
    BY <1>1, <1>3, <1>4, <1>5, <1>7, Zenon DEF w
  <1>8. CASE w = 2
    BY <1>1, <1>3, <1>4, <1>5, <1>8, Zenon DEF w
  <1> QED
    BY <1>2, <1>6, <1>7, <1>8

-----------------------------------------------------------------------------
(* Less than a chunk. *)

\* The buffer of a sink that never consumed a chunk holds the whole input.
LEMMA FirstBytes ==
    ASSUME NEW s, Coherent(s), WindowOf(s), BytesSeen(s) = s.bufsz
    PROVE  \A i \in 0 .. 2 * ChunkSize - 1 :
               ChunkSize <= i /\ i < ChunkSize + s.bufsz => s.buf[i] = i - ChunkSize
  <1> DEFINE q == BaseOf(s) + s.block_size
  <1>0. s.bufsz \in Nat
    BY SinkFacts DEF Coherent
  <1>1. q \in Nat /\ BytesSeen(s) = q + s.bufsz /\ WindowAt(s.buf, q, s.bufsz)
    BY WindowIs DEF Coherent
  <1> HIDE DEF q
  <1>2. q = 0
    BY <1>0, <1>1
  <1> QED
    BY <1>0, <1>1, <1>2, Geometry DEF WindowAt

\* The digest of up to 8 bytes is the reference's: umash_digest calls umash_short.
LEMMA ShortDigest ==
    ASSUME NEW s, Coherent(s), WindowOf(s), ~ s.large_umash,
           BytesSeen(s) = s.bufsz, s.bufsz <= WordSize
    PROVE  DigestOf(s) = Expected(s.hash_wanted, s.bufsz)
  <1>0. s.bufsz \in Nat /\ s.hash_wanted \in 0 .. 2
    BY SinkFacts DEF Coherent, IsSink
  <1>1. Buffered(s) = Span(0, s.bufsz)
    <2>1. \A j \in 0 .. s.bufsz - 1 : s.buf[ChunkSize + j] = 0 + j
      <3> SUFFICES ASSUME NEW j \in 0 .. s.bufsz - 1
                   PROVE  s.buf[ChunkSize + j] = 0 + j
        OBVIOUS
      <3> DEFINE i == ChunkSize + j
      <3>1. /\ i \in 0 .. 2 * ChunkSize - 1 /\ ChunkSize <= i /\ i < ChunkSize + s.bufsz
            /\ i - ChunkSize = 0 + j
        BY <1>0, Geometry
      <3> HIDE DEF i
      <3>2. s.buf[i] = i - ChunkSize
        BY <3>1, FirstBytes
      <3> QED
        BY <3>1, <3>2 DEF i
    <2> QED
      BY <2>1 DEF Buffered, Span
  <1>2. /\ umash(s.bufsz, FALSE) = umash_short(s.bufsz + 0, Buffered(s))
        /\ umash(s.bufsz, TRUE) = umash_short(s.bufsz + ShortHashShift, Buffered(s))
    BY <1>1 DEF umash
  <1>3. s.bufsz + 0 = s.bufsz
    BY <1>0
  <1>4. fp_digest_sink(s) = <<umash(s.bufsz, FALSE), umash(s.bufsz, TRUE)>>
    BY <1>2, <1>3 DEF fp_digest_sink, umash_fp_short
  <1>5. digest(s, 0) = umash(s.bufsz, FALSE)
    BY <1>2 DEF digest
  <1>6. s.hash_wanted # 1 => umash_digest(s) = umash(s.bufsz, FALSE)
    BY <1>5 DEF umash_digest
  <1>7. s.hash_wanted = 1 => umash_digest(s) = umash(s.bufsz, TRUE)
    BY <1>4 DEF umash_digest
  <1> QED
    BY <1>0, <1>4, <1>6, <1>7, WantedDigest

\* The digest of 9 to 15 bytes is the reference's: umash_digest calls umash_medium.
LEMMA MediumDigest ==
    ASSUME NEW s, Coherent(s), WindowOf(s), ~ s.large_umash,
           BytesSeen(s) = s.bufsz, s.bufsz > WordSize, s.bufsz < ChunkSize
    PROVE  DigestOf(s) = Expected(s.hash_wanted, s.bufsz)
  <1> DEFINE n == s.bufsz
             chunk == HalfChunks(0, n)
             enh == {Term(ENH(0, chunk, n), 0)}
             lrc == Xor({TwistToken}, {Mixed(0, chunk)})
             twisted == Xor(enh, {Term(PHLrc(lrc), 0)})
  <1>0. n \in Nat /\ s.hash_wanted \in 0 .. 2
    BY SinkFacts DEF Coherent, IsSink
  <1>1. BufferedHalves(s) = chunk
    <2>1. ASSUME NEW j \in 0 .. ChunkSize - 1
          PROVE  (IF j < WordSize THEN s.buf[ChunkSize + j] ELSE s.buf[n + j])
                   = (IF j < WordSize THEN 0 + j ELSE 0 + n - ChunkSize + j)
      <3> DEFINE i == IF j < WordSize THEN ChunkSize + j ELSE n + j
      <3>1. i \in 0 .. 2 * ChunkSize - 1 /\ ChunkSize <= i /\ i < ChunkSize + n
        BY <1>0, Geometry
      <3>2. i - ChunkSize = IF j < WordSize THEN 0 + j ELSE 0 + n - ChunkSize + j
        BY <1>0, Geometry
      <3>3. s.buf[i] = i - ChunkSize
        <4> HIDE DEF i
        <4> QED
          BY <3>1, FirstBytes
      <3> QED
        BY <3>2, <3>3
    <2> QED
      BY <2>1 DEF BufferedHalves, HalfChunks
  <1>2. /\ Blocks(n) = {0}
        /\ oh_compress_one_block(n, 0, FALSE) = enh
        /\ oh_compress_one_block(n, 0, TRUE) = twisted
    BY <1>0, MediumBlock
  <1> HIDE DEF n, chunk, enh, lrc, twisted
  <1>3. poly_reduce(n, FALSE) = <<enh>> /\ poly_reduce(n, TRUE) = <<twisted>>
    <2>1. {b + 1 : b \in Blocks(n)} = 1 .. 1
      BY <1>2
    <2>2. 1 - 1 = 0
      OBVIOUS
    <2>3. /\ poly_reduce(n, FALSE) = [j \in 1 .. 1 |-> enh]
          /\ poly_reduce(n, TRUE) = [j \in 1 .. 1 |-> twisted]
      <3>1. \A j \in 1 .. 1 : j - 1 = 0
        OBVIOUS
      <3> QED
        BY <1>2, <2>1, <3>1 DEF poly_reduce
    <2> QED
      BY <2>3, Singleton
  <1>4. /\ umash(n, FALSE) = finalize(0, <<enh>>)
        /\ umash(n, TRUE) = finalize(1, <<twisted>>)
    <2>1. ~ (n <= WordSize)
      BY <1>0, Geometry DEF n
    <2> QED
      BY <1>3, <2>1 DEF umash, umash_long
  <1>5. umash_fp_medium(BufferedHalves(s), s.bufsz)
            = <<umash(n, FALSE), umash(n, TRUE)>>
    BY <1>1, <1>4 DEF umash_fp_medium, n, enh, lrc, twisted
  <1>6. umash_medium(0, BufferedHalves(s), s.bufsz) = umash(n, FALSE)
    BY <1>1, <1>4 DEF umash_medium, n, enh
  <1>7. ~ (s.bufsz <= WordSize)
    BY <1>0, Geometry DEF n
  <1>8. fp_digest_sink(s) = <<umash(n, FALSE), umash(n, TRUE)>>
    BY <1>5, <1>7 DEF fp_digest_sink
  <1>9. s.hash_wanted # 1 => umash_digest(s) = umash(n, FALSE)
    BY <1>6, <1>7 DEF umash_digest, digest
  <1>10. s.hash_wanted = 1 => umash_digest(s) = umash(n, TRUE)
    BY <1>8 DEF umash_digest
  <1> QED
    BY <1>0, <1>8, <1>9, <1>10, WantedDigest DEF n
-----------------------------------------------------------------------------
(* A chunk or more. *)

\* Where a sink that has buffered at least one byte is in the stream: in its
\* block b, at chunk k.
LEMMA EndPosition ==
    ASSUME NEW s, Coherent(s), s.bufsz > 0,
           NEW b, b = Len(s.poly[0]), NEW k, k = s.oh_iter \div 2
    PROVE  /\ b \in Nat /\ k \in 0 .. BlockChunks - 1 /\ s.oh_iter = 2 * k
           /\ s.bufsz \in 1 .. ChunkSize
           /\ BaseOf(s) = b * BlockBytes
           /\ s.block_size = k * ChunkSize
           /\ BytesSeen(s) = b * BlockBytes + k * ChunkSize + s.bufsz
           /\ b * BlockBytes < BytesSeen(s)
           /\ BytesSeen(s) <= b * BlockBytes + BlockBytes
  <1> DEFINE i == s.oh_iter
             z == s.bufsz
             y == s.block_size
             base == b * BlockBytes
  <1>1. /\ i \in 0 .. OhParamCount - 2 /\ i % 2 = 0 /\ z \in 0 .. ChunkSize
        /\ y = i * WordSize /\ b \in Nat /\ z > 0
    BY SinkFacts DEF Coherent, IsSink
  <1>2. BaseOf(s) = base /\ BytesSeen(s) = base + y + z
    BY DEF BaseOf, BytesSeen
  <1>3. base \in Nat
    <2>1. BlockBytes \in Nat
      BY Geometry
    <2> HIDE DEF i, z, y
    <2> QED
      BY <1>1, <2>1
  <1> HIDE DEF i, z, y, base
  <1>4. k = i \div 2
    BY DEF i
  <1>5. k \in 0 .. BlockChunks - 1 /\ i = 2 * k
    BY <1>1, <1>4, Geometry
  <1>6. y = k * ChunkSize
    BY <1>1, <1>5, Geometry
  <1>7. z \in 1 .. ChunkSize
    BY <1>1, Geometry
  <1>8. k * ChunkSize + ChunkSize <= BlockBytes /\ k * ChunkSize \in Nat
    <2>1. ChunkSize \in Nat /\ BlockChunks \in Nat /\ BlockBytes = BlockChunks * ChunkSize
      BY Geometry, GeometryAssumption
    <2>2. k \in Nat /\ k + 1 <= BlockChunks
      BY <1>5, <2>1
    <2>3. (k + 1) * ChunkSize <= BlockChunks * ChunkSize
      BY <2>1, <2>2
    <2>4. (k + 1) * ChunkSize = k * ChunkSize + ChunkSize /\ k * ChunkSize \in Nat
      BY <2>1, <2>2
    <2> QED
      BY <2>1, <2>3, <2>4, Zenon
  <1>9. base < base + y + z /\ base + y + z <= base + BlockBytes
    <2>1. y \in Nat /\ y + ChunkSize <= BlockBytes
      BY <1>6, <1>8, Zenon
    <2>2. ChunkSize \in Nat /\ BlockBytes \in Nat
      BY Geometry
    <2> QED
      BY <1>3, <1>7, <2>1, <2>2
  <1> QED
    BY <1>1, <1>2, <1>5, <1>6, <1>7, <1>9 DEF i, z, y, base

\* The blocks before the last one are what the sink's paths absorbed.
LEMMA WholeBlocks ==
    ASSUME NEW n, NEW b, NEW k, NEW size, EndsAt(n, b, k, size), NEW j \in 1 .. b
    PROVE  /\ oh_compress_one_block(n, j - 1, FALSE) = BlockValue(0, j)
           /\ oh_compress_one_block(n, j - 1, TRUE) = BlockValue(1, j)
  <1>0. n \in Nat /\ b \in Nat
        /\ n = b * BlockBytes + k * ChunkSize + size
        /\ k \in Nat /\ size \in Nat
    BY Geometry DEF EndsAt
  <1> DEFINE c == j - 1
  <1>1. c \in Nat /\ c < b
    BY <1>0
  <1>2. c * BlockBytes + BlockBytes <= b * BlockBytes
    BY <1>0, <1>1, Geometry, MultiplesApart
  <1>3. c * BlockBytes + BlockBytes <= n
    <2>1. c * BlockBytes \in Nat /\ k * ChunkSize \in Nat /\ b * BlockBytes \in Nat
      BY <1>0, <1>1, Geometry
    <2> QED
      BY <1>0, <1>2, <2>1, Geometry
  <1> HIDE DEF c
  <1>4. /\ oh_compress_one_block(n, c, FALSE) = oh_varblock(0, c * BlockBytes, BlockBytes)
        /\ oh_compress_one_block(n, c, TRUE)
             = oh_varblock_fprint(0, c * BlockBytes, BlockBytes)[2]
    BY <1>0, <1>1, <1>3, FullBlock
  <1>5. /\ BlockValue(0, j) = oh_varblock(0, c * BlockBytes, BlockBytes)
        /\ BlockValue(1, j) = oh_varblock_fprint(0, c * BlockBytes, BlockBytes)[2]
    BY ~ (1 = 0) DEF BlockValue, c
  <1> QED
    BY <1>4, <1>5 DEF c

\* The polynomial of the flushed copy is the one the reference reduces.
LEMMA FlushedPoly ==
    ASSUME NEW n, NEW b, NEW k, NEW size, EndsAt(n, b, k, size),
           NEW second, NEW q \in Seq(BlockValues), Len(q) = b,
           \A j \in 1 .. b : q[j] = oh_compress_one_block(n, j - 1, second)
    PROVE  Append(q, oh_compress_one_block(n, b, second)) = poly_reduce(n, second)
  <1> DEFINE last == oh_compress_one_block(n, b, second)
             a == Append(q, last)
             p == poly_reduce(n, second)
             S == BlockValues \union {last}
  <1>0. n \in Nat /\ b \in Nat /\ k * ChunkSize \in Nat /\ b * BlockBytes \in Nat
        /\ b * BlockBytes < n /\ n <= b * BlockBytes + BlockBytes
    <2>1. /\ n \in Nat /\ b \in Nat /\ k \in Nat /\ size \in 1 .. ChunkSize
          /\ n = b * BlockBytes + k * ChunkSize + size
          /\ n <= b * BlockBytes + BlockBytes
      BY Geometry DEF EndsAt
    <2>2. k * ChunkSize \in Nat /\ b * BlockBytes \in Nat
      BY <2>1, Geometry
    <2> QED
      BY <2>1, <2>2, Geometry
  <1>1. q \in Seq(S)
    BY SeqDef
  <1>2. a \in Seq(S) /\ Len(a) = b + 1 /\ a[b + 1] = last
    BY <1>0, <1>1
  <1>3. \A j \in 1 .. b : a[j] = q[j]
    BY <1>1
  <1>6. {c + 1 : c \in Blocks(n)} = 1 .. b + 1
    BY <1>0, BlocksOf
  <1>7. p = [j \in 1 .. b + 1 |-> oh_compress_one_block(n, j - 1, second)]
    BY <1>6 DEF poly_reduce
  <1>9. \A j \in 1 .. b : a[j] = p[j]
    BY <1>0, <1>3, <1>7
  <1>10. b + 1 - 1 = b
    BY <1>0
  <1>11. a[b + 1] = p[b + 1]
    BY <1>0, <1>2, <1>7, <1>10
  <1>12. \A j \in 1 .. b + 1 : a[j] = p[j]
    BY <1>0, <1>9, <1>11
  <1>13. \A j \in 1 .. b + 1 : p[j] \in S
    <2>1. \A j \in 1 .. b : q[j] \in S
      BY <1>1
    <2>2. p[b + 1] \in S
      BY <1>2, <1>11
    <2> QED
      BY <1>0, <1>3, <1>9, <2>1, <2>2
  <1>14. p \in Seq(S) /\ Len(p) = b + 1
    <2>1. p \in [1 .. b + 1 -> S]
      <3> HIDE DEF S
      <3> QED
        BY <1>7, <1>13
    <2> HIDE DEF S, p
    <2> QED
      BY <1>0, <2>1, b + 1 \in Nat
  <1> HIDE DEF a, p, S
  <1>15. a = p
    BY <1>2, <1>12, <1>14, SeqEqual
  <1> QED
    BY <1>15 DEF a, p

\* A sink that has seen a chunk: the flushed copy ends the last block with the
\* chunk that ends the stream.
LEMMA FlushedSink ==
    ASSUME NEW s, Coherent(s), WindowOf(s), s.bufsz > 0, BytesSeen(s) >= ChunkSize,
           NEW n, n = BytesSeen(s),
           NEW r, r = digest_flush(s)
    PROVE  /\ r.poly[0] = poly_reduce(n, FALSE)
           /\ s.hash_wanted # 0 => r.poly[1] = poly_reduce(n, TRUE)
           /\ r.large_umash = s.large_umash
  <1> DEFINE b == Len(s.poly[0])
             k == s.oh_iter \div 2
             size == s.bufsz
             chunk == Span(n - ChunkSize, ChunkSize)
             tag == U8(s.block_size + s.bufsz)
  <1>1. r = sink_consume_buf(s, chunk, TRUE)
    BY BufferedChunk DEF digest_flush
  <1>2. LastEffect(s, chunk, r)
    BY <1>1, ConsumeLast, SinkFacts DEF Coherent
  <1>3. /\ b \in Nat /\ k \in 0 .. BlockChunks - 1 /\ s.oh_iter = 2 * k
        /\ size \in 1 .. ChunkSize
        /\ BaseOf(s) = b * BlockBytes
        /\ s.block_size = k * ChunkSize
        /\ n = b * BlockBytes + k * ChunkSize + size
        /\ n <= b * BlockBytes + BlockBytes
    BY EndPosition
  <1>4. /\ n \in Nat /\ BaseOf(s) \in Int
        /\ s.oh_iter \in 0 .. OhParamCount - 2 /\ s.oh_iter % 2 = 0
        /\ s.hash_wanted \in 0 .. 2
    BY SinkFacts DEF Coherent, IsSink
  <1>5. /\ EndHash(s, chunk) = OhValue(tag, BaseOf(s), s.oh_iter, chunk)
        /\ s.hash_wanted # 0 =>
             EndTwisted(s, chunk) = OhTwisted(tag, BaseOf(s), s.oh_iter, chunk)
    <2>1. BlockOf(s)
      BY DEF Coherent
    <2> QED
      BY <1>4, <2>1, EndValues
  <1>6. tag = U8(k * ChunkSize + size)
    BY <1>3
  <1> HIDE DEF b, k, size, chunk, tag
  <1>16. EndsAt(n, b, k, size)
    BY <1>3, <1>4 DEF EndsAt
  <1>7. /\ oh_compress_one_block(n, b, FALSE) = OhValue(tag, b * BlockBytes, 2 * k, chunk)
        /\ oh_compress_one_block(n, b, TRUE) = OhTwisted(tag, b * BlockBytes, 2 * k, chunk)
    <2>1. chunk = Span(n - ChunkSize, ChunkSize)
      BY DEF chunk
    <2>2. /\ oh_compress_one_block(n, b, FALSE)
               = OhValue(U8(k * ChunkSize + size), b * BlockBytes, 2 * k,
                         Span(n - ChunkSize, ChunkSize))
          /\ oh_compress_one_block(n, b, TRUE)
               = OhTwisted(U8(k * ChunkSize + size), b * BlockBytes, 2 * k,
                           Span(n - ChunkSize, ChunkSize))
      BY <1>16, EndBlock
    <2> QED
      BY <1>6, <2>1, <2>2, Zenon
  <1>8. /\ EndHash(s, chunk) = oh_compress_one_block(n, b, FALSE)
        /\ s.hash_wanted # 0 => EndTwisted(s, chunk) = oh_compress_one_block(n, b, TRUE)
    BY <1>3, <1>5, <1>7
  <1>9. /\ r.poly[0] = Append(s.poly[0], EndHash(s, chunk))
        /\ s.hash_wanted # 0 => r.poly[1] = Append(s.poly[1], EndTwisted(s, chunk))
        /\ r.large_umash = s.large_umash
    BY <1>2 DEF LastEffect, Absorbs, Keeps
  <1>10. /\ s.poly[0] \in Seq(BlockValues) /\ s.poly[1] \in Seq(BlockValues)
         /\ \A j \in 1 .. b : s.poly[0][j] = BlockValue(0, j)
         /\ s.hash_wanted # 0 =>
              /\ Len(s.poly[1]) = b
              /\ \A j \in 1 .. b : s.poly[1][j] = BlockValue(1, j)
    <2>1. PolyType(s) /\ PolyOf(s)
      BY DEF Coherent
    <2>2. ~ (1 = 0)
      OBVIOUS
    <2> QED
      BY <2>1, <2>2 DEF PolyType, PolyOf, BlockValue, b
  <1>11. \A j \in 1 .. b : /\ oh_compress_one_block(n, j - 1, FALSE) = BlockValue(0, j)
                            /\ oh_compress_one_block(n, j - 1, TRUE) = BlockValue(1, j)
    BY <1>16, WholeBlocks
  <1>12. Append(s.poly[0], oh_compress_one_block(n, b, FALSE)) = poly_reduce(n, FALSE)
    <2>1. Len(s.poly[0]) = b
      BY DEF b
    <2>2. \A j \in 1 .. b : s.poly[0][j] = oh_compress_one_block(n, j - 1, FALSE)
      BY <1>10, <1>11
    <2> QED
      BY <1>10, <1>16, <2>1, <2>2, FlushedPoly
  <1>13. s.hash_wanted # 0 =>
           Append(s.poly[1], oh_compress_one_block(n, b, TRUE)) = poly_reduce(n, TRUE)
    <2> SUFFICES ASSUME s.hash_wanted # 0
                 PROVE  Append(s.poly[1], oh_compress_one_block(n, b, TRUE))
                          = poly_reduce(n, TRUE)
      OBVIOUS
    <2>1. Len(s.poly[1]) = b
      BY <1>10
    <2>2. \A j \in 1 .. b : s.poly[1][j] = oh_compress_one_block(n, j - 1, TRUE)
      BY <1>10, <1>11
    <2> QED
      BY <1>10, <1>16, <2>1, <2>2, FlushedPoly
  <1> QED
    BY <1>8, <1>9, <1>12, <1>13

\* The digest of 16 bytes or more, after digest_flush, is the reference's.
LEMMA LargeDigest ==
    ASSUME NEW s, Coherent(s), WindowOf(s), s.bufsz > 0, s.large_umash,
           NEW n, n = BytesSeen(s), n >= ChunkSize
    PROVE  DigestOf(s) = Expected(s.hash_wanted, n)
  <1> DEFINE r == digest_flush(s)
  <1>0. n \in Nat /\ s.hash_wanted \in 0 .. 2
    BY SinkFacts DEF Coherent, IsSink
  <1>1. /\ r.poly[0] = poly_reduce(n, FALSE)
        /\ s.hash_wanted # 0 => r.poly[1] = poly_reduce(n, TRUE)
        /\ r.large_umash
    BY FlushedSink
  <1>2. /\ umash(n, FALSE) = finalize(0, poly_reduce(n, FALSE))
        /\ umash(n, TRUE) = finalize(1, poly_reduce(n, TRUE))
    <2>1. ~ (n <= WordSize)
      BY <1>0, Geometry
    <2> QED
      BY <2>1 DEF umash, umash_long
  <1>3. /\ digest(r, 0) = umash(n, FALSE)
        /\ s.hash_wanted # 0 => digest(r, 1) = umash(n, TRUE)
    BY <1>1, <1>2 DEF digest
  <1>4. fp_digest_sink(s) = <<digest(r, 0), digest(r, 1)>>
    BY DEF fp_digest_sink
  <1>5. s.hash_wanted # 1 => umash_digest(s) = digest(r, 0)
    BY DEF umash_digest
  <1>6. s.hash_wanted = 1 => umash_digest(s) = digest(r, 1)
    BY <1>4 DEF umash_digest
  <1>7. /\ s.hash_wanted = 2 => fp_digest_sink(s) = <<umash(n, FALSE), umash(n, TRUE)>>
        /\ s.hash_wanted # 1 => umash_digest(s) = umash(n, FALSE)
        /\ s.hash_wanted = 1 => umash_digest(s) = umash(n, TRUE)
    <2> HIDE DEF r
    <2>1. 2 # 0 /\ 1 # 0
      OBVIOUS
    <2> QED
      BY <1>3, <1>4, <1>5, <1>6, <2>1, Zenon
  <1> QED
    BY <1>0, <1>7, WantedDigest
-----------------------------------------------------------------------------
(* The theorems. *)

\* Between calls, the invariant determines the digest.
LEMMA DigestHolds == IndInv => DigestIsReference
  <1> SUFFICES ASSUME IndInv, pc = "idle"
               PROVE  DigestOf(sink) = Expected(sink.hash_wanted, fed)
    BY DEF DigestIsReference
  <1>1. /\ fed \in Nat /\ Coherent(sink) /\ WindowOf(sink)
        /\ BytesSeen(sink) = fed
        /\ sink.bufsz \in Nat
        /\ ~ sink.large_umash => fed = sink.bufsz /\ fed < ChunkSize
        /\ sink.large_umash => fed >= ChunkSize /\ sink.bufsz > 0
    BY IndFacts DEF IndInv, PositionInv, WindowInv, data
  <1>2. CASE sink.large_umash
    BY <1>1, <1>2, LargeDigest
  <1>3. CASE ~ sink.large_umash /\ sink.bufsz <= WordSize
    BY <1>1, <1>3, ShortDigest
  <1>4. CASE ~ sink.large_umash /\ sink.bufsz > WordSize
    BY <1>1, <1>4, MediumDigest
  <1> QED
    BY <1>1, <1>2, <1>3, <1>4, Geometry

\* Between calls, a digest is the reference's hash of the bytes fed so far,
\* for any sequence of umash_sink_update calls of any sizes, any digests taken
\* on the way, and any block size and threshold.
THEOREM DigestCorrect == Spec => []DigestIsReference
  BY Inductive, DigestHolds, PTL

\* The fields of the sink keep their types and bounds.
THEOREM TypeCorrect == Spec => []TypeOK
  <1>1. IndInv => TypeOK
    BY DEF IndInv
  <1> QED
    BY <1>1, Inductive, PTL

\* The sink's position, buffer, block state and polynomials stay consistent
\* with each other and with the stream, whichever path hashes a block.
THEOREM SinkCorrect == Spec => []SinkInv
  <1>1. IndInv => SinkInv
    BY DEF IndInv, SinkInv, Coherent
  <1> QED
    BY <1>1, Inductive, PTL

\* The buffer holds what digest_flush will reread.
THEOREM WindowCorrect == Spec => []WindowInv
  <1>1. IndInv => WindowInv
    BY DEF IndInv
  <1> QED
    BY <1>1, Inductive, PTL

\* The assertions of block_sink_update and umash_sink_update cannot fail.
THEOREM AssertionsHold == Spec => []BlockSinkAsserts
  <1>1. IndInv => BlockSinkAsserts
    <2> SUFFICES ASSUME IndInv
                 PROVE  BlockSinkAsserts
      OBVIOUS
    <2>1. sink.oh_iter = 0 => sink.block_size = 0
      <3>1. sink.block_size = sink.oh_iter * WordSize
        BY DEF IndInv, PositionInv
      <3>2. 0 * WordSize = 0
        BY Geometry
      <3> QED
        BY <3>1, <3>2
    <2>2. pc = "blocks" => left >= BlockBytes /\ sink.bufsz = 0 /\ sink.oh_iter = 0
      BY IndFacts, Geometry DEF IndInv, PositionInv
    <2>3. pc = "saveTail" => consumed >= BlockBytes
      BY DEF IndInv, PositionInv
    <2> QED
      BY <2>1, <2>2, <2>3 DEF BlockSinkAsserts
  <1> QED
    BY <1>1, Inductive, PTL

\* UmashStream promises the reference's hash, as UmashSink understands it.
LEMMA SamePromise ==
    \A w, n : Stream!Expected(w, n) = Expected(w, n)
  BY DEF Stream!Expected, Expected, Stream!umash, umash, Stream!umash_long, umash_long,
     Stream!poly_reduce, poly_reduce, Stream!oh_compress_one_block, oh_compress_one_block,
     Stream!ShiftOf, ShiftOf, Stream!shuffle, shuffle, Stream!LrcOf, LrcOf,
     Stream!MixedChunk, MixedChunk, Stream!BlockSizeOf, BlockSizeOf,
     Stream!IsLastOf, IsLastOf, Stream!ChunksOf, ChunksOf, Stream!Blocks, Blocks,
     Stream!ChunkAt, ChunkAt, Stream!HalfChunks, HalfChunks,
     Stream!finalize, finalize, Stream!umash_short, umash_short,
     Stream!Term, Term, Stream!ENH, ENH, Stream!PHLrc, PHLrc, Stream!PH, PH,
     Stream!Mixed, Mixed, Stream!TwistToken, TwistToken, Stream!ZeroByte, ZeroByte,
     Stream!Span, Span, Stream!OhParamCount, OhParamCount

\* A chunk does not change what the sink was set up for.
LEMMA ConsumeKeeps ==
    ASSUME NEW s, HasFields(s), s.oh_iter \in 0 .. OhParamCount - 2, NEW chunk
    PROVE  sink_consume_buf(s, chunk, FALSE).hash_wanted = s.hash_wanted
  <1> DEFINE i == s.oh_iter
             r == sink_consume_buf(s, chunk, FALSE)
  <1>1. i \in Nat /\ (i < OhParamCount - 2 \/ i = OhParamCount - 2)
    <2>1. i \in 0 .. OhParamCount - 2
      OBVIOUS
    <2> HIDE DEF i
    <2> QED
      BY <2>1, Geometry
  <1>2. CASE i < OhParamCount - 2
    <2>1. MiddleEffect(s, chunk, r)
      BY <1>1, <1>2, ConsumeMiddle
    <2> QED
      BY <2>1 DEF MiddleEffect, Keeps
  <1>3. CASE i = OhParamCount - 2
    <2>1. LastEffect(s, chunk, r)
      BY <1>1, <1>3, ConsumeLast
    <2> QED
      BY <2>1 DEF LastEffect, Keeps
  <1> QED
    BY <1>1, <1>2, <1>3

\* Neither does a step of a call in progress, or its first one.
LEMMA StepKeeps ==
    ASSUME IndInv, Continue \/ \E n \in UpdateSizes : UpdateBuffer(n) \/ UpdateFill(n)
    PROVE  sink'.hash_wanted = sink.hash_wanted
  <1>0. /\ HasFields(sink) /\ sink.oh_iter \in 0 .. OhParamCount - 2
        /\ Len(sink.poly[0]) \in Nat
    BY IndFacts, SinkFacts DEF Coherent, IsSink
  <1>1. ASSUME NEW n \in UpdateSizes, UpdateBuffer(n)
        PROVE  sink'.hash_wanted = sink.hash_wanted
    BY <1>0, <1>1 DEF UpdateBuffer, HasFields
  <1>2. ASSUME NEW n \in UpdateSizes, UpdateFill(n)
        PROVE  sink'.hash_wanted = sink.hash_wanted
    <2> DEFINE rest == ChunkSize - sink.bufsz
    <2>1. PICK full : full = [sink EXCEPT
                                 !.buf = CopyIn(@, ChunkSize + sink.bufsz, fed, rest),
                                 !.large_umash = TRUE,
                                 !.bufsz = ChunkSize]
      OBVIOUS
    <2>2. \/ sink' = full
          \/ sink' = sink_consume_buf(full, ChunkIn(full.buf, ChunkSize), FALSE)
      BY <1>2, <2>1 DEF UpdateFill
    <2>3. /\ HasFields(full) /\ full.oh_iter = sink.oh_iter
          /\ full.hash_wanted = sink.hash_wanted
      BY <1>0, <2>1 DEF HasFields
    <2> QED
      BY <1>0, <2>2, <2>3, ConsumeKeeps
  <1>3. CASE ConsumeChunk
    <2>1. PICK s : s = [sink EXCEPT !.bufsz = ChunkSize]
      OBVIOUS
    <2>2. sink' = sink_consume_buf(s, Span(data, ChunkSize), FALSE)
      BY <1>3, <2>1 DEF ConsumeChunk
    <2>3. HasFields(s) /\ s.oh_iter = sink.oh_iter /\ s.hash_wanted = sink.hash_wanted
      BY <1>0, <2>1 DEF HasFields
    <2> QED
      BY <1>0, <2>2, <2>3, ConsumeKeeps
  <1>4. CASE EnterBlocks
    <2>1. ASSUME NEW n, NEW p, sink' = MultipleBlocks(sink, p, n)
          PROVE  sink'.hash_wanted = sink.hash_wanted
      BY <1>0, <2>1 DEF MultipleBlocks, HasFields
    <2> QED
      BY <1>4, <2>1 DEF EnterBlocks
  <1>5. CASE NextBlock
    <2>1. \/ sink' = sink
          \/ sink' = BlockUpdate(sink, data + consumed)
      BY <1>5 DEF NextBlock
    <2>2. BlockUpdate(sink, data + consumed).hash_wanted = sink.hash_wanted
      BY <1>0, BlockUpdateEffect DEF BlockEffect, Keeps
    <2> QED
      BY <2>1, <2>2
  <1>6. CASE SaveTail
    BY <1>0, <1>6 DEF SaveTail, HasFields
  <1>7. CASE FinishUpdate
    BY <1>0, <1>7 DEF FinishUpdate, HasFields
  <1> QED
    BY <1>1, <1>2, <1>3, <1>4, <1>5, <1>6, <1>7 DEF Continue

\* UmashSink implements UmashStream: a call to umash_sink_update feeds its
\* bytes at once, and each digest is the one umash.h promises.
THEOREM SinkImplementsStream == Spec => ImplementsStream
  <1>1. Init => Stream!StreamInit
    <2> SUFFICES ASSUME Init
                 PROVE  Stream!StreamInit
      OBVIOUS
    <2>1. PICK which \in 0 .. 2 : sink = umash_init(which)
      BY DEF Init
    <2>2. sink.hash_wanted = which
      BY <2>1, InitSink
    <2> QED
      BY <2>1, <2>2 DEF Init, Stream!StreamInit
  <1>2. IndInv /\ DigestIsReference /\ [Next]_vars
          => [Stream!StreamNext]_(Stream!streamVars)
    <2> SUFFICES ASSUME IndInv, DigestIsReference, [Next]_vars
                 PROVE  \/ Stream!Open \/ Stream!Feed \/ Stream!Digest
                        \/ /\ sink'.hash_wanted = sink.hash_wanted
                           /\ fed' = fed /\ out' = out
      BY DEF Stream!StreamNext, Stream!streamVars
    <2>1. CASE Reinit
      <3>1. PICK which \in 0 .. 2 : sink' = umash_init(which)
        BY <2>1 DEF Reinit
      <3>2. sink'.hash_wanted = which
        BY <3>1, InitSink
      <3> QED
        BY <2>1, <3>1, <3>2 DEF Reinit, Stream!Open
    <2>2. ASSUME NEW n \in UpdateSizes, UpdateBuffer(n) \/ UpdateFill(n)
          PROVE  Stream!Feed
      <3>1. sink'.hash_wanted = sink.hash_wanted
        BY <2>2, StepKeeps
      <3>2. fed + n <= MaxBytes /\ fed' = fed + n /\ out' = <<>>
        BY <2>2 DEF UpdateBuffer, UpdateFill
      <3> QED
        BY <3>1, <3>2 DEF Stream!Feed
    <2>3. CASE Continue
      <3>1. sink'.hash_wanted = sink.hash_wanted
        BY <2>3, StepKeeps
      <3>2. fed' = fed /\ out' = out
        BY <2>3 DEF Continue, ConsumeChunk, EnterBlocks, NextBlock, SaveTail, FinishUpdate
      <3> QED
        BY <3>1, <3>2
    <2>4. CASE Digest
      <3>1. out' = Stream!Expected(sink.hash_wanted, fed)
        BY <2>4, SamePromise DEF Digest, DigestIsReference
      <3>2. sink' = sink /\ fed' = fed
        BY <2>4 DEF Digest
      <3> QED
        BY <3>1, <3>2 DEF Stream!Digest
    <2>5. CASE UNCHANGED vars
      BY <2>5 DEF vars
    <2> QED
      BY <2>1, <2>2, <2>3, <2>4, <2>5 DEF Next
  <1> QED
    BY <1>1, <1>2, Inductive, DigestCorrect, PTL
       DEF Spec, ImplementsStream, Stream!StreamSpec
=============================================================================
