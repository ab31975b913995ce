---------------------------- MODULE UmashKernels ----------------------------
(***************************************************************************)
(* The functions of umash.c that hash a contiguous range, the n bytes at   *)
(* position p: one OH block, for the hash or for the fingerprint, and      *)
(* inputs of at most one chunk.  OhVarblock shows that the loops of        *)
(* oh_varblock and oh_varblock_fprint compute what is stated here.         *)
(***************************************************************************)
EXTENDS UmashReference

\* The values of the loop counter: i = 0, 2, ... below `end`, in words.
Pairs(end) == {i \in 0 .. end - 1 : i % 2 = 0}

ChunkOfPair(p, i) == Span(p + i * WordSize, ChunkSize)

PHOf(p, i) == PH(i, ChunkOfPair(p, i))

PHTerms(p, end) == {Term(PHOf(p, i), 0) : i \in Pairs(end)}

LrcTerms(p, end) ==
    {Mixed(i, ChunkOfPair(p, i)) : i \in Pairs(end)} \union {TwistToken}

\* The product not yet in the twisted accumulator, and those that are, after
\* `end` words of the block at p.
PrevTerms(p, end) == IF end = 0 THEN {} ELSE {Term(PHOf(p, end - 2), 0)}
TwistTerms(p, end) == {Term(PHOf(p, i), (end - 2 - i) \div 2) : i \in Pairs(end - 2)}

\* The block at p whose chunk `last`, mixed with params[end], ends it.
OhValue(tag, p, end, last) ==
    PHTerms(p, end) \union {Term(ENH(end, last, tag), 0)}

\* Its second value: the loop shifts what it accumulated once per chunk, except
\* for the last pair it visits, and once more with everything at the end.
OhTwisted(tag, p, end, last) ==
    {Term(PHOf(p, i), (end - i) \div 2) : i \in Pairs(end - 2)}
        \union {Term(PHOf(p, i), 1) : i \in Pairs(end)}
        \union {Term(PHLrc(LrcTerms(p, end) \union {Mixed(end, last)}), 0),
                Term(ENH(end, last, tag), 0)}

\* Bytes of the last chunk that no previous chunk covers: 1 .. ChunkSize.
remaining(n) == 1 + ((n - 1) % ChunkSize)

\* Index of the parameters of the last chunk.
end_full_pairs(n) == (n - remaining(n)) \div WordSize

\* The last chunk is always whole, and overlaps the previous one if it must.
LastChunk(p, n) == Span(p + n - ChunkSize, ChunkSize)

oh_varblock(tag, p, n) == OhValue(tag, p, end_full_pairs(n), LastChunk(p, n))

oh_varblock_fprint(tag, p, n) ==
    <<oh_varblock(tag, p, n), OhTwisted(tag, p, end_full_pairs(n), LastChunk(p, n))>>

-----------------------------------------------------------------------------
\* Up to a word of data: the parameter is picked by the size.
umash_fp_short(data, n) ==
    <<umash_short(n, data), umash_short(n + ShortHashShift, data)>>

\* More than a word, at most a chunk: `chunk` is the first and the last word.
umash_medium(which, chunk, n) == finalize(which, <<{Term(ENH(0, chunk, n), 0)}>>)

umash_fp_medium(chunk, n) ==
    LET enh == {Term(ENH(0, chunk, n), 0)}
        lrc == Xor({TwistToken}, {Mixed(0, chunk)})
    IN  <<finalize(0, <<enh>>), finalize(1, <<Xor(enh, {Term(PHLrc(lrc), 0)})>>)>>
=============================================================================
