--------------------------- MODULE UmashReference ---------------------------
(***************************************************************************)
(* umash_reference.py: the definition of UMASH that the C library must     *)
(* agree with, for the stream of the first n bytes.                        *)
(*                                                                         *)
(* The generators of the program become functions of an index: chunk i,    *)
(* block b, and the value OH makes of block b.  secondary selects the      *)
(* second hash of a fingerprint.                                           *)
(***************************************************************************)
EXTENDS UmashAlgebra

-----------------------------------------------------------------------------
(* chunk_bytes *)

\* Fewer bytes than a chunk: the first and the last word, which overlap.
HalfChunks(p, n) ==
    [j \in 0 .. ChunkSize - 1 |->
        IF j < WordSize THEN p + j ELSE p + n - ChunkSize + j]

\* for i in range(0, len(buf), CHUNK_SIZE); a partial last chunk rereads bytes
\* of the previous one.
ChunkAt(n, i) ==
    IF n < ChunkSize THEN HalfChunks(0, n)
    ELSE IF i * ChunkSize + ChunkSize <= n THEN Span(i * ChunkSize, ChunkSize)
    ELSE Span(n - ChunkSize, ChunkSize)

-----------------------------------------------------------------------------
(* blockify_chunks: blocks and chunks of a block are counted from 0 *)

Blocks(n) == {b \in 0 .. n : b * BlockBytes < n}

\* The chunks of block b.
ChunksOf(n, b) ==
    {i \in 0 .. BlockChunks - 1 : b * BlockBytes + i * ChunkSize < n}

IsLastOf(n, b, i) == i \in ChunksOf(n, b) /\ i + 1 \notin ChunksOf(n, b)

BlockSizeOf(n, b) ==
    IF (b + 1) * BlockBytes <= n THEN BlockBytes ELSE n - b * BlockBytes

-----------------------------------------------------------------------------
(* oh_mix_one_block *)

MixedChunk(n, b, i) ==
    LET chunk == ChunkAt(n, b * BlockChunks + i)
    IN  IF IsLastOf(n, b, i)
        THEN ENH(2 * i, chunk, BlockSizeOf(n, b) % BlockBytes)
        ELSE PH(2 * i, chunk)

\* The checksum: every chunk with its parameters, and the twisting constants.
LrcOf(n, b) ==
    {Mixed(2 * i, ChunkAt(n, b * BlockChunks + i)) : i \in ChunksOf(n, b)}
        \union {TwistToken}

-----------------------------------------------------------------------------
(* shuffle(x, i, n), and oh_compress_one_block.  The xors are unions: terms *)
(* of different chunks have different parameters, so that none cancels.     *)

shuffle(x, shift) ==
    CASE shift = 0 -> {Term(x, 0)}
      [] shift = 1 -> {Term(x, 1)}
      [] OTHER     -> {Term(x, shift), Term(x, 1)}

ShiftOf(n, b, i) == CHOOSE s \in 0 .. BlockChunks - 1 : IsLastOf(n, b, i + s)

oh_compress_one_block(n, b, secondary) ==
    IF ~secondary
    THEN {Term(MixedChunk(n, b, i), 0) : i \in ChunksOf(n, b)}
    ELSE {Term(PHLrc(LrcOf(n, b)), 0)} \union
         UNION {shuffle(MixedChunk(n, b, i), ShiftOf(n, b, i)) : i \in ChunksOf(n, b)}

-----------------------------------------------------------------------------
(* poly_reduce absorbs the OH values in order; umash_long, umash. *)

poly_reduce(n, secondary) ==
    [j \in {b + 1 : b \in Blocks(n)} |-> oh_compress_one_block(n, j - 1, secondary)]

umash_long(n, secondary) ==
    finalize(IF secondary THEN 1 ELSE 0, poly_reduce(n, secondary))

umash(n, secondary) ==
    IF n <= WordSize
    THEN umash_short(n + (IF secondary THEN ShortHashShift ELSE 0), Span(0, n))
    ELSE umash_long(n, secondary)

\* What a stream of n bytes set up for the first hash (0), the second (1) or the
\* fingerprint (2) promises.
Expected(wanted, n) ==
    IF wanted = 0 THEN <<umash(n, FALSE)>>
    ELSE IF wanted = 1 THEN <<umash(n, TRUE)>>
    ELSE <<umash(n, FALSE), umash(n, TRUE)>>
=============================================================================
