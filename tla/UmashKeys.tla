------------------------------- MODULE UmashKeys -------------------------------
(***************************************************************************)
(* Parameters and what they are for: a struct is filled, derived or        *)
(* generated, prepared until it is said to be usable, and then hashes      *)
(* either the blocks of a long input, with one of its two multipliers, or  *)
(* an input of at most 8 bytes, with two words of its OH key.              *)
(***************************************************************************)
EXTENDS UmashShort

CONSTANTS
    Eighth, OhCount,       \* the widths of the parameters
    Fills, Streams, Keys,  \* where parameters come from (UmashParams)
    Values,                \* words that OH produces (PolyAccumulator)
    Seeds                  \* seeds for short inputs

VARIABLES
    caller, prep, params, given, again, buf_idx, i, candidate, success,
    multiplier, m, poly, acc, split, exact, field,
    short  \* parameters, seed and size of a short input, or none

Prep == INSTANCE UmashParams WITH pc <- prep, f <- candidate
Poly == INSTANCE PolyAccumulator WITH f <- multiplier, pc <- poly

ASSUME KeysAssumption ==
    /\ Prep!EighthAssumption /\ Prep!ParamsAssumption /\ Poly!ValuesAssumption
    /\ ShortAssumption /\ Range64 = 8 * Eighth
    /\ OhCount > WordSize + OH_SHORT_HASH_SHIFT
    /\ Seeds \subseteq 0 .. Range64 - 1

prepVars == <<caller, prep, params, given, again, buf_idx, i, candidate, success>>
polyVars == <<multiplier, m, poly, acc, split, exact, field>>
vars == <<prepVars, polyVars, short>>
-----------------------------------------------------------------------------
NoInput == <<>>

Init == Prep!Init /\ Poly!Init /\ short = NoInput

Unused == poly = "unused" /\ short = NoInput

PrepareParams == Unused /\ Prep!Next /\ UNCHANGED <<polyVars, short>>

\* From here on, only the words in use matter: the struct is as if filled again.
Prepared == Unused /\ prep = "idle" /\ success
Leave ==
    /\ params' = CHOOSE p \in Fills : TRUE
    /\ given' = params'
    /\ caller' = "user" /\ again' = FALSE /\ success' = FALSE
    /\ UNCHANGED <<prep, buf_idx, i, candidate>>

\* umash_full and umash_fprint pass params->poly[which].
HashLong ==
    /\ Prepared /\ Leave
    /\ \E which \in 0 .. 1 : Poly!Start(params.poly[which])
    /\ UNCHANGED short

\* They pass params->oh for short inputs.
HashShort ==
    /\ Prepared /\ Leave
    /\ \E seed \in Seeds, n \in 0 .. WordSize :
          short' = [oh |-> params.oh, seed |-> seed, n |-> n]
    /\ UNCHANGED polyVars

ReturnShort ==
    /\ short # NoInput /\ short' = NoInput
    /\ UNCHANGED <<prepVars, polyVars>>

AbsorbBlock == Poly!Absorb /\ UNCHANGED <<prepVars, short>>

Next == PrepareParams \/ HashLong \/ HashShort \/ ReturnShort \/ AbsorbBlock

Spec == Init /\ [][Next]_vars
-----------------------------------------------------------------------------
(* Properties. *)

TypeOK ==
    /\ Prep!TypeOK /\ Poly!TypeOK
    /\ short # NoInput => /\ short.oh \in [0 .. OhCount - 1 -> 0 .. Range64 - 1]
                          /\ short.seed \in Seeds /\ short.n \in 0 .. WordSize

\* What is said to be prepared is usable: multipliers that are not 0 in the field
\* with their squares, and distinct OH words (umash.c:1016, 1036; umash.h:205).
SuccessIsUsable == Prep!SuccessIsUsable

\* "When it succeeds, this function is idempotent" (umash.h:208): parameters that
\* were prepared, or generated by the reference, change no more.
Idempotent == Prep!Idempotent

\* A word is only replaced when it is bad, and then by one of the two spare words.
WordsAreTheCallers == Prep!WordsAreTheCallers

\* The accumulator that the split accumulator delays is the reference's, with any
\* multiplier that a preparation leaves (umash_reference.py:1193-1220), and so is
\* the hash, from which the accumulator can be found again (t/test_finalize.py:38).
HashIsReference ==
    /\ Poly!AccumulatorIsExact
    /\ poly = "idle" => /\ finalize(acc) = ReferenceFinalize(exact)
                        /\ xor_rot2_inv(finalize(acc)) = acc

\* Working modulo 2^64 - 8 with a reduced square does not change the value in
\* the field, on which the collision bounds rest (umash_reference.py:1212).
HashesInField == Poly!HashesInField

\* Short inputs get the reference's two hashes (t/test_umash_short.py,
\* t/test_umash_fprint.py), together or apart.
ShortIsReference ==
    short # NoInput =>
        \A buf \in Buffers(short.n), w \in 0 .. 1 :
            LET hash == umash_fp_short(short.oh, short.seed, buf)[w]
            IN  /\ hash = Reference(short.oh, short.seed, buf, w = 1)
                /\ hash = umash_short(short.oh, w * OH_SHORT_HASH_SHIFT, short.seed, buf)

\* The values of the word of the key for size n with which y, of that size, has the
\* hash of x.
Colliding(oh, first, seed, x, n, y) ==
    LET hash == umash_short(oh, first, seed, x)
    IN  {k \in 0 .. Range64 - 1 : umash_short([oh EXCEPT ![first + n] = k], first, seed, y) = hash}

\* "Two values of the same size never collide.  Two values of different lengths
\* collide iff" one word of the key "has exactly the correct value"
\* (umash_reference.py:927-932), here one value of each length; and as words of the
\* key differ, so do the two hashes of a value.
ShortCollisionIsChance ==
    short # NoInput =>
        \A first \in {0, OH_SHORT_HASH_SHIFT} :
            LET same == Buffers(short.n)
                x == [j \in 0 .. short.n - 1 |-> j % 2]
                Ones(n) == [j \in 0 .. n - 1 |-> 1]
            IN  /\ Cardinality({umash_short(short.oh, first, short.seed, buf) : buf \in same})
                        = Cardinality(same)
                /\ \A buf \in same : LET fp == umash_fp_short(short.oh, short.seed, buf)
                                     IN  fp[0] # fp[1]
                /\ \A n \in (0 .. WordSize) \ {short.n} :
                      Cardinality(Colliding(short.oh, first, short.seed, x, n, Ones(n))) = 1
=============================================================================
