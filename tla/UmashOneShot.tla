----------------------------- MODULE UmashOneShot -----------------------------
(***************************************************************************)
(* umash_full and umash_fprint, down to the chunks their loops read: the   *)
(* dispatch on the size, the loop of whole blocks, the multiple-block path *)
(* of umash_long.inc in its generic and its 256-bit (vpclmulqdq) form, and *)
(* the last block.                                                         *)
(*                                                                         *)
(* The accumulators of a block have two lanes.  128-bit code uses lane 0;  *)
(* 256-bit code reads two chunks at a time, one for each lane, and merges  *)
(* the lanes at the end of the block.                                      *)
(***************************************************************************)
EXTENDS UmashKernels, FiniteSets

CONSTANTS
    Sizes,                    \* sizes of message a caller passes
    MultipleBlocksThreshold   \* UMASH_MULTIPLE_BLOCKS_THRESHOLD (1024)

ASSUME OneShotAssumption ==
    /\ Sizes \subseteq Nat
    /\ MultipleBlocksThreshold \in Nat
    /\ MultipleBlocksThreshold >= BlockBytes
    /\ BlockChunks % 2 = 0  \* 256-bit loads pair up the chunks of a block

VARIABLES
    call,      \* what is called, with how many bytes, and the code it will run
    pc,        \* "start", "head" of a loop of blocks, "chunks", "end" of a block,
               \* "finalize", "done"
    loop,      \* the code that hashes the block: "batch", "full" or "last"
    data,      \* position of the block in the message
    left,      \* n_bytes of umash_long: those after the batch, or from data on
    n_blocks,  \* blocks the batch has still to hash
    i,         \* words of the block mixed so far
    oh,        \* the accumulators of the block
    poly,      \* acc of umash_long and umash_fp_long
    result     \* what the call returns

vars == <<call, pc, loop, data, left, n_blocks, i, oh, poly, result>>

\* umash_full gives the first hash (0) or the second one (1), umash_fprint both.
Fingerprint == call.which # 0
Wide == call.wide /\ loop = "batch"

\* Bytes and tag of the current block.
size == IF loop = "last" THEN left ELSE BlockBytes
tag == IF loop = "last" THEN U8(left) ELSE 0

Zero == [lane \in 0 .. 1 |-> {}]
FreshOh == [acc |-> Zero, shifted |-> Zero, lrc |-> [Zero EXCEPT ![0] = {TwistToken}]]

-----------------------------------------------------------------------------
(* The mixing of chunks. *)

\* Chunks are mixed one by one.  The product of the last pair is not shifted
\* here, but with all of them at the end.  The code for the first hash alone has
\* only acc; the rest is not used then.
OneChunk ==
    LET x == {Term(PHOf(data, i), 0)}
    IN  [acc |-> [oh.acc EXCEPT ![0] = Xor(@, x)],
         lrc |-> [oh.lrc EXCEPT ![0] = Xor(@, {Mixed(i, ChunkOfPair(data, i))})],
         shifted |-> IF i + 2 >= end_full_pairs(size) THEN oh.shifted
                     ELSE [oh.shifted EXCEPT ![0] = Shift(Xor(@, x))]]

\* Mistake: each product is shifted one time less.
LaneShift_Short(k) == (OhParamCount - 10 - k) \div 2

\* _mm256_slli_epi64(x, (24 - I) / 2)
LaneShift(k) == (OhParamCount - 8 - k) \div 2

\* Two at a time: the lanes shift by two for each, until they are merged.
TwoChunks ==
    LET key(lane) == i + 2 * lane
        x(lane, by) == {Term(PHOf(data, key(lane)), by)}
    IN  [acc |-> [lane \in 0 .. 1 |-> Xor(oh.acc[lane], x(lane, 0))],
         lrc |-> [lane \in 0 .. 1 |-> Xor(oh.lrc[lane],
                    {Mixed(key(lane), ChunkOfPair(data, key(lane)))})],
         shifted |-> [lane \in 0 .. 1 |-> Xor(oh.shifted[lane], x(lane, LaneShift(i)))]]

\* The last full chunk of a block of 256-bit code is only in lane 0; the lane
\* of even chunks has one shift to catch up.
MergeLanes ==
    LET x == {Term(PHOf(data, i), 0)}
    IN  [acc |-> [Zero EXCEPT ![0] = Xor(Xor(oh.acc[0], oh.acc[1]), x)],
         lrc |-> [Zero EXCEPT ![0] =
                    Xor(Xor(oh.lrc[0], oh.lrc[1]), {Mixed(i, ChunkOfPair(data, i))})],
         shifted |-> [Zero EXCEPT ![0] = Shift(Xor(Shift(oh.shifted[0]), oh.shifted[1]))]]

\* The values of a block once its last chunk, mixed with params[i], joins in.
BlockHash ==
    Xor(oh.acc[0], {Term(ENH(i, LastChunk(data, size), tag), 0)})
BlockTwisted ==
    LET last == LastChunk(data, size)
        lrc == Xor(oh.lrc[0], {Mixed(i, last)})
    IN  Xor(Xor(Shift(Xor(oh.shifted[0], oh.acc[0])), {Term(PHLrc(lrc), 0)}),
            {Term(ENH(i, last, tag), 0)})
-----------------------------------------------------------------------------
Init ==
    /\ \E n \in Sizes, which \in 0 .. 2, wide \in BOOLEAN :
        call = [n |-> n, which |-> which, wide |-> wide]
    /\ pc = "start" /\ loop = "full"
    /\ data = 0 /\ left = 0 /\ n_blocks = 0 /\ i = 0
    /\ oh = FreshOh
    /\ poly = [w \in 0 .. 1 |-> <<>>]
    /\ result = <<>>

\* The hashes the caller asked for, of the two of a fingerprint.
Asked(fp) == IF call.which = 1 THEN <<fp[2]>> ELSE fp

\* Mistake: only inputs of at most a word are special.
Long_Medium == call.n > WordSize

Long == call.n > ChunkSize

ShortInput ==
    LET bytes == Span(0, call.n)
    IN  /\ pc = "start" /\ call.n <= WordSize
        /\ result' = IF Fingerprint THEN Asked(umash_fp_short(bytes, call.n))
                     ELSE <<umash_short(call.n, bytes)>>
        /\ pc' = "done"
        /\ UNCHANGED <<call, loop, data, left, n_blocks, i, oh, poly>>

MediumInput ==
    LET chunk == HalfChunks(0, call.n)
    IN  /\ pc = "start" /\ call.n > WordSize /\ ~Long
        /\ result' = IF Fingerprint THEN Asked(umash_fp_medium(chunk, call.n))
                     ELSE <<umash_medium(0, chunk, call.n)>>
        /\ pc' = "done"
        /\ UNCHANGED <<call, loop, data, left, n_blocks, i, oh, poly>>

\* n_bytes / BLOCK_SIZE
BatchBlocks(n) == n \div BlockBytes

LongInput ==
    /\ pc = "start" /\ Long
    /\ IF call.n >= MultipleBlocksThreshold
       THEN /\ loop' = "batch"
            /\ n_blocks' = BatchBlocks(call.n)
            /\ left' = call.n % BlockBytes
       ELSE /\ loop' = "full"
            /\ left' = call.n
            /\ UNCHANGED n_blocks
    /\ pc' = "head"
    /\ UNCHANGED <<call, data, i, oh, poly, result>>

\* The loop stops when n_bytes > BLOCK_SIZE fails.
LastLeft == left <= BlockBytes

\* A block's accumulators are set up.  The while loop leaves the last block,
\* which may be full, to the code after it.
StartBlock ==
    /\ pc = "head"
    /\ loop' = IF loop = "full" /\ LastLeft THEN "last" ELSE loop
    /\ i' = 0
    /\ oh' = FreshOh
    /\ pc' = "chunks"
    /\ UNCHANGED <<call, data, left, n_blocks, poly, result>>

MixChunk ==
    /\ pc = "chunks" /\ ~Wide
    /\ IF i < end_full_pairs(size)
       THEN oh' = OneChunk /\ i' = i + 2 /\ UNCHANGED pc
       ELSE pc' = "end" /\ UNCHANGED <<oh, i>>
    /\ UNCHANGED <<call, loop, data, left, n_blocks, poly, result>>

MixWide ==
    /\ pc = "chunks" /\ Wide
    /\ IF i <= OhParamCount - 8
       THEN oh' = TwoChunks /\ i' = i + 4 /\ UNCHANGED pc
       ELSE oh' = MergeLanes /\ i' = i + 2 /\ pc' = "end"
    /\ UNCHANGED <<call, loop, data, left, n_blocks, poly, result>>

\* The block's values go to the polynomials.
Absorb ==
    /\ poly' = [w \in 0 .. 1 |->
                    IF w = 0 THEN horner_double_update(poly[0], BlockHash)
                    ELSE IF Fingerprint THEN horner_double_update(poly[1], BlockTwisted)
                    ELSE poly[1]]
    /\ UNCHANGED <<call, i, oh, result>>

\* while (--n_blocks); then finalize, or the last block.
EndBatchBlock ==
    /\ pc = "end" /\ loop = "batch"
    /\ Absorb
    /\ data' = data + BlockBytes
    /\ n_blocks' = n_blocks - 1
    /\ loop' = IF n_blocks' = 0 THEN "last" ELSE "batch"
    /\ pc' = IF n_blocks' = 0 /\ left = 0 THEN "finalize" ELSE "head"
    /\ UNCHANGED left

EndFullBlock ==
    /\ pc = "end" /\ loop = "full"
    /\ Absorb
    /\ data' = data + BlockBytes
    /\ left' = left - BlockBytes
    /\ pc' = "head"
    /\ UNCHANGED <<loop, n_blocks>>

EndLastBlock ==
    /\ pc = "end" /\ loop = "last"
    /\ Absorb
    /\ pc' = "finalize"
    /\ UNCHANGED <<loop, data, left, n_blocks>>

Finalize ==
    /\ pc = "finalize"
    /\ result' = IF Fingerprint THEN Asked(<<finalize(0, poly[0]), finalize(1, poly[1])>>)
                 ELSE <<finalize(0, poly[0])>>
    /\ pc' = "done"
    /\ UNCHANGED <<call, loop, data, left, n_blocks, i, oh, poly>>

Next ==
    \/ ShortInput \/ MediumInput \/ LongInput
    \/ StartBlock \/ MixChunk \/ MixWide
    \/ EndBatchBlock \/ EndFullBlock \/ EndLastBlock \/ Finalize

Spec == Init /\ [][Next]_vars
-----------------------------------------------------------------------------
(* Properties. *)

TypeOK ==
    /\ call \in [n : Sizes, which : 0 .. 2, wide : BOOLEAN]
    /\ pc \in {"start", "head", "chunks", "end", "finalize", "done"}
    /\ loop \in {"batch", "full", "last"}
    /\ data \in 0 .. call.n /\ left \in 0 .. call.n
    /\ n_blocks \in 0 .. call.n
    /\ i \in 0 .. OhParamCount - 2
    /\ DOMAIN poly = 0 .. 1

\* The call returns the reference's hash of its bytes, whichever code hashed
\* them, so the same as the incremental interface for the same bytes
\* (umash_reference.py:1279-1284).
ResultIsReference == pc = "done" => result = Expected(call.which, call.n)

\* No load reads outside the message: the last chunk of a block starts before
\* the block when that has less than a chunk (umash.c:538), and 256-bit loads
\* take two chunks.
ReadsInside ==
    /\ pc = "chunks" /\ ~Wide /\ i < end_full_pairs(size) =>
        data + (i + 2) * WordSize <= call.n
    /\ pc = "chunks" /\ Wide => data + (i + 4) * WordSize <= call.n
    /\ pc = "end" => data + size - ChunkSize >= 0 /\ data + size <= call.n

=============================================================================
