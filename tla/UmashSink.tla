------------------------------ MODULE UmashSink ------------------------------
(***************************************************************************)
(* The incremental interface of umash.c: struct umash_sink, which is       *)
(* initialised by umash_init or umash_fp_init, fed by umash_sink_update    *)
(* and read by umash_digest or umash_fp_digest.                            *)
(*                                                                         *)
(* A call to umash_sink_update is cut at its loop iterations: `left` is    *)
(* its local n_bytes, so that its data pointer is at stream position       *)
(* fed - left, and `consumed` is the count in block_sink_update.  A digest *)
(* works on a copy of the sink and leaves it alone.                        *)
(***************************************************************************)
EXTENDS UmashKernels

CONSTANTS
    UpdateSizes,              \* sizes a caller passes to umash_sink_update
    MaxBytes,                 \* bound on the bytes fed to one sink
    MultipleBlocksThreshold   \* UMASH_MULTIPLE_BLOCKS_THRESHOLD (1024)

ASSUME SinkAssumption ==
    /\ UpdateSizes \subseteq Nat
    /\ MaxBytes \in Nat
    /\ MultipleBlocksThreshold \in Nat
    /\ MultipleBlocksThreshold >= BlockBytes

VARIABLES
    sink,      \* the struct umash_sink
    fed,       \* bytes passed to umash_sink_update since the sink was set up
    left,      \* n_bytes of the call in progress
    consumed,  \* of block_sink_update
    pc,        \* "idle" between calls, or the loop the call is in
    out        \* the last digest; empty if none was taken of these bytes

vars == <<sink, fed, left, consumed, pc, out>>

\* Stream position of the data pointer of the call in progress.
data == fed - left

-----------------------------------------------------------------------------
(* The operations on a sink, as functions of the sink. *)

FreshTwist == [lrc |-> {TwistToken}, prev |-> {}, acc |-> {}]

\* umash_init, umash_fp_init: compound literals that zero every other field.
umash_init(which) ==
    [poly        |-> [i \in 0 .. 1 |-> <<>>],
     buf         |-> [i \in 0 .. 2 * ChunkSize - 1 |-> ZeroByte],
     oh_iter     |-> 0,
     bufsz       |-> 0,
     block_size  |-> 0,
     large_umash |-> FALSE,
     hash_wanted |-> which,
     oh_acc      |-> {},
     oh_twisted  |-> FreshTwist]

\* memcpy of the n bytes at position p to offset o of the buffer.
CopyIn(buf, o, p, n) ==
    [i \in 0 .. 2 * ChunkSize - 1 |->
        IF o <= i /\ i < o + n THEN p + i - o ELSE buf[i]]

\* The chunk at offset o of the buffer.
ChunkIn(buf, o) == [j \in 0 .. ChunkSize - 1 |-> buf[o + j]]

\* Mistake: the previous chunk is not kept.
SaveChunk_Skipped(buf, chunk) == buf

\* memmove of a chunk to the first half of the buffer.
SaveChunk(buf, chunk) ==
    [i \in 0 .. 2 * ChunkSize - 1 |-> IF i < ChunkSize THEN chunk[i] ELSE buf[i]]

\* The polynomials with the OH values of the current block; the second one is
\* only kept for fingerprints.
Absorbed(s) ==
    [w \in 0 .. 1 |->
        IF w = 0 THEN horner_double_update(s.poly[0], s.oh_acc)
        ELSE IF s.hash_wanted = 0 THEN s.poly[1]
        ELSE horner_double_update(s.poly[1], s.oh_twisted.acc)]

\* Mistake: the twisted state survives its block.
sink_update_poly_KeepsTwist(s) ==
    [s EXCEPT !.poly = Absorbed(s), !.oh_acc = {}]

\* The end of an OH block: its values join the polynomials and it restarts.
sink_update_poly(s) ==
    [s EXCEPT !.poly = Absorbed(s),
              !.oh_acc = {},
              !.oh_twisted = IF s.hash_wanted = 0 THEN @ ELSE FreshTwist]

\* All but the last chunk of a block goes through PH.
MixPH(s, chunk) ==
    LET h == {Term(PH(s.oh_iter, chunk), 0)}
        tw == s.oh_twisted
        twisted == [lrc  |-> Xor(tw.lrc, {Mixed(s.oh_iter, chunk)}),
                    prev |-> h,
                    acc  |-> Shift(Xor(tw.acc, tw.prev))]
    IN  [s EXCEPT !.oh_acc = Xor(@, h),
                  !.oh_twisted = IF s.hash_wanted = 0 THEN @ ELSE twisted]

\* The last one is combined with the size tag by ENH.
MixENH(s, chunk) ==
    LET enh == {Term(ENH(s.oh_iter, chunk, U8(s.block_size + s.bufsz)), 0)}
        tw == s.oh_twisted
        lrc_hash == {Term(PHLrc(Xor(tw.lrc, {Mixed(s.oh_iter, chunk)})), 0)}
        twisted == [lrc  |-> tw.lrc,
                    prev |-> tw.prev,
                    acc  |-> Xor(Xor(Shift(Xor(s.oh_acc, tw.acc)), lrc_hash), enh)]
    IN  [s EXCEPT !.oh_acc = Xor(@, enh),
                  !.oh_twisted = IF s.hash_wanted = 0 THEN @ ELSE twisted]

\* Mistake: the last parameter pair is followed by another.
EndOfBlock_Late(i) == i > OhParamCount

\* Whether the chunk just read, which moved oh_iter to i, was the block's last.
EndOfBlock(i) == i = OhParamCount

sink_consume_buf(s, chunk, final) ==
    LET mixed == IF s.oh_iter < OhParamCount - 2 /\ ~final
                 THEN MixPH(s, chunk) ELSE MixENH(s, chunk)
        next == [mixed EXCEPT !.buf = SaveChunk(@, chunk),
                              !.block_size = U8(@ + s.bufsz),
                              !.bufsz = 0,
                              !.oh_iter = @ + 2]
    IN  IF EndOfBlock(next.oh_iter) \/ final
        THEN [sink_update_poly(next) EXCEPT !.block_size = 0, !.oh_iter = 0]
        ELSE next

\* One iteration of the loop of block_sink_update, for the block at p.
BlockUpdate(s, p) ==
    LET fp == oh_varblock_fprint(0, p, BlockBytes)
    IN  sink_update_poly(
            IF s.hash_wanted # 0
            THEN [s EXCEPT !.oh_acc = fp[1], !.oh_twisted = [@ EXCEPT !.acc = fp[2]]]
            ELSE [s EXCEPT !.oh_acc = oh_varblock(0, p, BlockBytes)])

\* Mistake: the accumulator is not carried over.
Extend_FromZero(acc, values) == values

Extend(acc, values) == acc \o values

\* umash_multiple_blocks and umash_fprint_multiple_blocks only touch the
\* polynomials, once per block.
MultipleBlocks(s, p, n_blocks) ==
    LET block(i) == p + (i - 1) * BlockBytes
        hash == [i \in 1 .. n_blocks |-> oh_varblock(0, block(i), BlockBytes)]
        fp == [i \in 1 .. n_blocks |-> oh_varblock_fprint(0, block(i), BlockBytes)[2]]
    IN  [s EXCEPT !.poly =
            [w \in 0 .. 1 |->
                IF w = 0 THEN Extend(s.poly[0], hash)
                ELSE IF s.hash_wanted = 0 THEN s.poly[1]
                ELSE Extend(s.poly[1], fp)]]
-----------------------------------------------------------------------------
(* Digests, of a copy of the sink. *)

\* The buffered bytes of a sink that has not seen a whole chunk.
Buffered(s) == [j \in 0 .. s.bufsz - 1 |-> s.buf[ChunkSize + j]]

\* Their first and last words.
BufferedHalves(s) ==
    [j \in 0 .. ChunkSize - 1 |->
        IF j < WordSize THEN s.buf[ChunkSize + j] ELSE s.buf[s.bufsz + j]]

\* Mistake: the second half of the buffer is the last chunk.
digest_flush_SecondHalf(s) ==
    IF s.bufsz > 0 THEN sink_consume_buf(s, ChunkIn(s.buf, ChunkSize), TRUE) ELSE s

\* The last chunk ends where the buffered bytes end.
digest_flush(s) ==
    IF s.bufsz > 0 THEN sink_consume_buf(s, ChunkIn(s.buf, s.bufsz), TRUE) ELSE s

digest(s, index) ==
    IF s.large_umash THEN finalize(index, s.poly[index])
    ELSE IF s.bufsz <= WordSize
    THEN umash_short(s.bufsz + (IF index = 0 THEN 0 ELSE ShortHashShift), Buffered(s))
    ELSE umash_medium(index, BufferedHalves(s), s.bufsz)

fp_digest_sink(s) ==
    IF s.large_umash
    THEN LET copy == digest_flush(s) IN <<digest(copy, 0), digest(copy, 1)>>
    ELSE IF s.bufsz <= WordSize THEN umash_fp_short(Buffered(s), s.bufsz)
    ELSE umash_fp_medium(BufferedHalves(s), s.bufsz)

\* Mistake: the second hash of 9 to 16 bytes has an LRC that `digest` ignores.
umash_digest_ByIndex(s) ==
    digest(IF s.large_umash THEN digest_flush(s) ELSE s,
           IF s.hash_wanted = 0 THEN 0 ELSE 1)

umash_digest(s) ==
    IF s.hash_wanted = 1 THEN fp_digest_sink(s)[2]
    ELSE digest(IF s.large_umash THEN digest_flush(s) ELSE s, 0)

\* umash_state gives a hash and umash_fp_state a fingerprint.
DigestOf(s) ==
    IF s.hash_wanted = 2 THEN fp_digest_sink(s) ELSE <<umash_digest(s)>>
-----------------------------------------------------------------------------
Init ==
    /\ \E which \in 0 .. 2 : sink = umash_init(which)
    /\ fed = 0 /\ left = 0 /\ consumed = 0
    /\ pc = "idle"
    /\ out = <<>>

\* The caller sets the same storage up again for another stream.
Reinit ==
    /\ pc = "idle"
    /\ \E which \in 0 .. 2 : sink' = umash_init(which)
    /\ fed' = 0
    /\ out' = <<>>
    /\ UNCHANGED <<left, consumed, pc>>

\* umash_sink_update: the bytes do not fill the buffer.
UpdateBuffer(n) ==
    /\ pc = "idle"
    /\ fed + n <= MaxBytes
    /\ n < ChunkSize - sink.bufsz
    /\ sink' = [sink EXCEPT !.buf = CopyIn(@, ChunkSize + sink.bufsz, fed, n),
                            !.bufsz = @ + n]
    /\ fed' = fed + n
    /\ out' = <<>>
    /\ UNCHANGED <<left, consumed, pc>>

\* They fill it; it is consumed only if more data follows it.
UpdateFill(n) ==
    LET rest == ChunkSize - sink.bufsz
        full == [sink EXCEPT !.buf = CopyIn(@, ChunkSize + sink.bufsz, fed, rest),
                             !.large_umash = TRUE,
                             !.bufsz = ChunkSize]
    IN  /\ pc = "idle"
        /\ fed + n <= MaxBytes
        /\ n >= rest
        /\ fed' = fed + n
        /\ out' = <<>>
        /\ left' = n - rest
        /\ IF n = rest
           THEN sink' = full /\ pc' = "idle"
           ELSE /\ sink' = sink_consume_buf(full, ChunkIn(full.buf, ChunkSize), FALSE)
                /\ pc' = "loop"
        /\ UNCHANGED consumed

\* Mistakes: whole blocks are hashed at once from the middle of another block;
\* or the block path is taken for a block that must be left to the caller.
BlockPath_AnyChunk == left > BlockBytes
BlockPath_WholeBlock == sink.oh_iter = 0 /\ left >= BlockBytes
\* At the start of an OH block, if data remains after it.
BlockPath == sink.oh_iter = 0 /\ left > BlockBytes

\* The loop reads whole chunks straight from the caller's buffer.
ConsumeChunk ==
    /\ pc = "loop"
    /\ left > ChunkSize
    /\ ~BlockPath
    /\ sink' = sink_consume_buf([sink EXCEPT !.bufsz = ChunkSize],
                                Span(data, ChunkSize), FALSE)
    /\ left' = left - ChunkSize
    /\ UNCHANGED <<fed, consumed, pc, out>>

EnterBlocks ==
    /\ pc = "loop"
    /\ left > ChunkSize
    /\ BlockPath
    /\ IF left > MultipleBlocksThreshold
       THEN LET n_blocks == (left - 1) \div BlockBytes
            IN  /\ sink' = MultipleBlocks(sink, data, n_blocks)
                /\ consumed' = n_blocks * BlockBytes
                /\ pc' = "saveTail"
       ELSE pc' = "blocks" /\ UNCHANGED <<sink, consumed>>
    /\ UNCHANGED <<fed, left, out>>

NextBlock ==
    /\ pc = "blocks"
    /\ IF left - consumed > BlockBytes
       THEN /\ sink' = BlockUpdate(sink, data + consumed)
            /\ consumed' = consumed + BlockBytes
            /\ UNCHANGED pc
       ELSE pc' = "saveTail" /\ UNCHANGED <<sink, consumed>>
    /\ UNCHANGED <<fed, left, out>>

\* The final digest may reread the last chunk of the blocks just consumed.
SaveTail ==
    /\ pc = "saveTail"
    /\ sink' = [sink EXCEPT !.buf =
                    CopyIn(@, 0, data + consumed - ChunkSize, ChunkSize)]
    /\ left' = left - consumed
    /\ consumed' = 0
    /\ pc' = "loop"
    /\ UNCHANGED <<fed, out>>

FinishUpdate ==
    /\ pc = "loop"
    /\ left <= ChunkSize
    /\ sink' = [sink EXCEPT !.buf = CopyIn(@, ChunkSize, data, left), !.bufsz = left]
    /\ left' = 0
    /\ pc' = "idle"
    /\ UNCHANGED <<fed, consumed, out>>

Digest ==
    /\ pc = "idle"
    /\ out' = DigestOf(sink)
    /\ UNCHANGED <<sink, fed, left, consumed, pc>>

\* Steps of a call in progress.
Continue == ConsumeChunk \/ EnterBlocks \/ NextBlock \/ SaveTail \/ FinishUpdate

Next ==
    \/ Reinit
    \/ \E n \in UpdateSizes : UpdateBuffer(n) \/ UpdateFill(n)
    \/ Continue
    \/ Digest

\* A call that has started runs: nothing else can happen to its thread.
Spec == Init /\ [][Next]_vars /\ WF_vars(Continue)
-----------------------------------------------------------------------------
(* Properties. *)

\* What the hashed bytes should give: the promise of umash.h.
Stream == INSTANCE UmashStream WITH wanted <- sink.hash_wanted

\* Bytes in the blocks that are already in the polynomials of a sink, and all
\* the bytes it has been given.
BaseOf(s) == Len(s.poly[0]) * BlockBytes
BytesSeen(s) == BaseOf(s) + s.block_size + s.bufsz

\* The fields of struct umash_sink.
HasFields(s) ==
    /\ DOMAIN s = {"poly", "buf", "oh_iter", "bufsz", "block_size", "large_umash",
                   "hash_wanted", "oh_acc", "oh_twisted"}
    /\ DOMAIN s.oh_twisted = {"lrc", "prev", "acc"}

IsSink(s) ==
    /\ HasFields(s)
    /\ s.hash_wanted \in 0 .. 2
    /\ s.large_umash \in BOOLEAN
    /\ s.bufsz \in 0 .. ChunkSize
    /\ s.block_size \in 0 .. BlockBytes - ChunkSize
    /\ s.oh_iter \in 0 .. OhParamCount - 2
    /\ s.buf \in [0 .. 2 * ChunkSize - 1 -> Int]
    /\ DOMAIN s.poly = 0 .. 1

TypeOK ==
    /\ fed \in 0 .. MaxBytes
    /\ left \in 0 .. MaxBytes
    /\ consumed \in 0 .. MaxBytes
    /\ pc \in {"idle", "loop", "blocks", "saveTail"}
    /\ IsSink(sink)

\* Between calls, a digest taken now is the reference's hash of the bytes fed
\* so far: for any way of cutting the stream into updates, for the hash, the
\* second hash and the fingerprint, and across digests taken on the way
\* (umash.h:246-250, umash_digest; umash.h:260-264, umash_fp_digest).
DigestIsReference ==
    pc = "idle" => DigestOf(sink) = Expected(sink.hash_wanted, fed)

\* The two assertions around block_sink_update: it starts from a sink that has
\* just dumped its OH state in the polynomial, and it makes progress
\* (umash.c:1212-1215 and 1318).
BlockSinkAsserts ==
    /\ pc = "blocks" =>
        /\ left >= BlockBytes
        /\ sink.bufsz = 0 /\ sink.block_size = 0 /\ sink.oh_iter = 0
    /\ pc = "saveTail" => consumed >= BlockBytes

\* The position the sink has reached accounts for every byte of the stream
\* exactly once: blocks in the polynomials, chunks in the current OH block,
\* buffered bytes, and what the call in progress has still to read.
PositionInv ==
    /\ BytesSeen(sink) = data + consumed
    /\ sink.block_size = sink.oh_iter * WordSize
    /\ sink.oh_iter % 2 = 0
    /\ pc = "idle" => left = 0
    /\ pc = "idle" /\ sink.large_umash => sink.bufsz > 0
    /\ pc = "loop" => left > 0 /\ sink.bufsz = 0
    /\ pc \in {"blocks", "saveTail"} =>
        left > consumed /\ sink.bufsz = 0 /\ sink.oh_iter = 0
    /\ pc \in {"idle", "loop"} => consumed = 0
    /\ pc = "blocks" => left > BlockBytes
    /\ pc = "blocks" => consumed = 0 \/ consumed >= BlockBytes
    /\ pc = "saveTail" => consumed >= BlockBytes
    /\ ~sink.large_umash =>
        pc = "idle" /\ fed = sink.bufsz /\ fed < ChunkSize
    /\ sink.large_umash => data + consumed >= ChunkSize

\* When an OH block ends early, the final chunk is reread from the buffer: the
\* buffered bytes, and the chunk before them, are the bytes of the stream that
\* end at the data pointer (the comments on buf in umash.h:145-151 and on the
\* redundant read in umash.c:1320-1325).
WindowOf(s) ==
    \A i \in 0 .. 2 * ChunkSize - 1 :
        i < ChunkSize + s.bufsz /\ BytesSeen(s) - s.bufsz + i >= ChunkSize =>
            s.buf[i] = BytesSeen(s) - s.bufsz - ChunkSize + i

WindowInv == pc \in {"idle", "loop"} => WindowOf(sink)

\* The current OH block holds the PH of each chunk read so far.  For the second
\* hash, the LRC holds each of them, and the twisted accumulator lags one chunk
\* behind: the product in `prev` joins it, shifted, with the next chunk.
BlockOf(s) ==
    /\ s.oh_acc = PHTerms(BaseOf(s), s.oh_iter)
    /\ s.hash_wanted # 0 =>
        /\ s.oh_twisted.lrc = LrcTerms(BaseOf(s), s.oh_iter)
        /\ s.oh_twisted.prev = PrevTerms(BaseOf(s), s.oh_iter)
        /\ s.oh_twisted.acc = TwistTerms(BaseOf(s), s.oh_iter)

\* The polynomials hold the OH values of the whole blocks, in order, each once
\* and with the tag of a full block, whichever of the three paths hashed it.
PolyOf(s) ==
    /\ \A j \in 1 .. Len(s.poly[0]) :
        s.poly[0][j] = oh_varblock(0, (j - 1) * BlockBytes, BlockBytes)
    /\ s.hash_wanted = 0 => s.poly[1] = <<>>
    /\ s.hash_wanted # 0 =>
        /\ Len(s.poly[1]) = Len(s.poly[0])
        /\ \A j \in 1 .. Len(s.poly[0]) : s.poly[1][j] =
            oh_varblock_fprint(0, (j - 1) * BlockBytes, BlockBytes)[2]

\* What the three paths of an update keep true; umash_digest relies on it.
SinkInv == PositionInv /\ WindowInv /\ BlockOf(sink) /\ PolyOf(sink)

\* A call to umash_sink_update returns, whatever the state of the sink and the
\* number of bytes: each way round its loop consumes some, and counts of bytes are
\* unsigned (umash.c:1313-1337).
UpdateReturns == pc # "idle" ~> pc = "idle"

\* The sink implements the stream of umash.h: the steps inside a call are
\* invisible, and each digest is the one promised.
ImplementsStream == Stream!StreamSpec

=============================================================================
