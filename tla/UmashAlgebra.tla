---------------------------- MODULE UmashAlgebra ----------------------------
(***************************************************************************)
(* The values UMASH computes with, kept symbolic.                          *)
(*                                                                         *)
(* The hashed input is one stream of bytes, and a byte is named by its     *)
(* position in that stream; -1 names a zero byte.  A chunk is a function   *)
(* from offsets to bytes.  The 128-bit values of OH live in GF(2): such a  *)
(* value is the set of the products xored into it, each with the number    *)
(* of times it was shifted left, so that xor is symmetric difference and   *)
(* a product that cancels out disappears.  A term names the parameter      *)
(* pair it was mixed with by the index of its first word, as params[i]     *)
(* does in the code.                                                       *)
(*                                                                         *)
(* Two digests are equal here exactly when the code computes them by       *)
(* mixing the same bytes with the same parameters, tags and shifts, in the *)
(* same polynomial order.                                                  *)
(***************************************************************************)
EXTENDS Integers, Sequences

CONSTANTS
    ChunkSize,      \* bytes in a chunk: sizeof(v128), CHUNK_SIZE (16)
    WordSize,       \* bytes in half a chunk: sizeof(uint64_t) (8)
    BlockChunks,    \* chunks in a block: BLOCK_SIZE of the reference (16)
    BlockBytes,     \* bytes in a block: BLOCK_SIZE of umash.c (256)
    ShortHashShift  \* OH_SHORT_HASH_SHIFT, SHORT_KEY_SHIFT (4)

ASSUME GeometryAssumption ==
    /\ WordSize \in Nat \ {0}
    /\ ChunkSize = 2 * WordSize
    /\ BlockChunks \in Nat /\ BlockChunks >= 2
    /\ BlockBytes = BlockChunks * ChunkSize
    /\ ShortHashShift \in Nat \ {0}

\* Words of the OH key; the twisting constants live at this index.
OhParamCount == 2 * BlockChunks

\* The code stores sizes in a uint8_t, whose range is exactly one block:
\* 2^8 = BLOCK_SIZE.
U8(x) == x % BlockBytes
-----------------------------------------------------------------------------
\* The n bytes at position p of the stream.
Span(p, n) == [j \in 0 .. n - 1 |-> p + j]

ZeroByte == -1

\* What initialises the LRC: a zero chunk mixed with the twisting constants.
TwistToken == [key |-> OhParamCount, data |-> Span(ZeroByte, 0)]

\* x ^ k, the contribution of one chunk to the LRC.
Mixed(key, chunk) == [key |-> key, data |-> chunk]

PH(key, chunk) == [op |-> "PH", key |-> key, data |-> chunk]
PHLrc(lrc) == [op |-> "PH", lrc |-> lrc]
ENH(key, chunk, tag) == [op |-> "ENH", key |-> key, data |-> chunk, tag |-> tag]

Xor(a, b) == (a \ b) \union (b \ a)

\* A product that has been shifted `by` times.
Term(t, by) == [term |-> t, by |-> by]

\* v128_shift: shifts both 64-bit halves left by one.
Shift(x) == {Term(e.term, e.by + 1) : e \in x}
-----------------------------------------------------------------------------
\* A digest is a short hash, which depends on one parameter and the bytes, or
\* the finalized value of one of the two polynomials over OH values.
umash_short(param, data) == [kind |-> "short", param |-> param, data |-> data]
finalize(which, acc) == [kind |-> "poly", which |-> which, acc |-> acc]

\* horner_double_update: the accumulator is the list of the values absorbed.
horner_double_update(acc, oh) == Append(acc, oh)
=============================================================================
