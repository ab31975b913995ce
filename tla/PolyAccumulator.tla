---------------------------- MODULE PolyAccumulator ----------------------------
(***************************************************************************)
(* The polynomial hash of umash.c in 64-bit arithmetic: one double-pumped  *)
(* Horner update per block, modulo 2^64 - 8, with the reduction delayed by *)
(* the split accumulator of umash_long.inc while a batch of blocks runs.   *)
(***************************************************************************)
EXTENDS UmashModular

CONSTANT Values  \* words that OH produces

ValuesAssumption == Values \subseteq Words

VARIABLES
    f,      \* the multiplier that the parameters were prepared from
    m,      \* an element of struct umash_params.poly: <<f^2, f>>
    pc,     \* "unused", "idle", or "batch" inside umash_multiple_blocks
    acc,    \* the reduced accumulator, between batches
    split,  \* struct split_accumulator, in a batch
    exact,  \* what poly_reduce of the reference computes
    field   \* the value of the polynomial in the field of 2^61 - 1 elements

vars == <<f, m, pc, acc, split, exact, field>>
-----------------------------------------------------------------------------
(* The split accumulator represents base + 8 * fixup. *)

MaxFixup == 3

split_accumulator_eval(s) == add_mod_slow(s.base, 8 * s.fixup)

\* Mistake: the comparison leaves no room for the last fixup.
HighHash_NoRoom(h0) == h0 > W - 8 * MaxFixup

\* An extremely high hash, to which fixups cannot be added without a reduction.
HighHash(h0) == h0 > W - 8 * (MaxFixup + 1)

FixedHash(s, h0) ==
    IF HighHash(h0) THEN add_mod_slow(h0, 8 * s.fixup) ELSE Wrap(h0 + 8 * s.fixup)

Carry(x) == IF x >= W THEN 1 ELSE 0

HighCarry(hi) == IF (hi \div Eighth) % 2 = 1 THEN 1 ELSE 0

split_accumulator_update(s, m0, m1, h0, h1) ==
    LET p1 == mul128(m1, h1)
        p0 == mul128(add_mod_fast(s.base, FixedHash(s, h0)), m0)
        sum == Wrap(p0.lo + p1.lo)
        hi == Wrap(p0.hi + p1.hi)
        high == Wrap(8 * hi)
    IN  [base  |-> Wrap(sum + high),
         fixup |-> Carry(p0.lo + p1.lo) + HighCarry(hi) + Carry(sum + high)]
-----------------------------------------------------------------------------
\* No batch is running.
NoSplit == [base |-> 0, fixup |-> 0]

\* Nothing is hashed yet.
Init ==
    /\ f = 0 /\ m = <<0, 0>>
    /\ pc = "unused" /\ acc = 0 /\ split = NoSplit
    /\ exact = 0 /\ field = 0

\* An empty polynomial, with the parameters that were prepared.
Start(poly) ==
    /\ pc = "unused" /\ pc' = "idle"
    /\ f' = poly[2] /\ m' = poly
    /\ UNCHANGED <<acc, split, exact, field>>

\* What poly_reduce of the reference does with a block.
Reduce(h0, h1) ==
    /\ exact' = (((f * f) % Field) * (exact + h0) + f * h1) % Modulus
    /\ field' = (f * (f * (field + h0) + h1)) % Field

\* A block on its own: oh_varblock, then horner_double_update.
Block(h0, h1) ==
    /\ pc = "idle"
    /\ acc' = horner_double_update(acc, m[1], m[2], h0, h1)
    /\ Reduce(h0, h1)
    /\ UNCHANGED <<f, m, pc, split>>

\* umash_multiple_blocks: `initial` is the accumulator so far, and its result
\* replaces it.
StartBatch ==
    /\ pc = "idle"
    /\ split' = [base |-> acc, fixup |-> 0]
    /\ acc' = 0
    /\ pc' = "batch"
    /\ UNCHANGED <<f, m, exact, field>>

BatchBlock(h0, h1) ==
    /\ pc = "batch"
    /\ split' = split_accumulator_update(split, m[1], m[2], h0, h1)
    /\ Reduce(h0, h1)
    /\ UNCHANGED <<f, m, pc, acc>>

EndBatch ==
    /\ pc = "batch"
    /\ acc' = split_accumulator_eval(split)
    /\ split' = NoSplit
    /\ pc' = "idle"
    /\ UNCHANGED <<f, m, exact, field>>

Absorb ==
    \/ \E h0, h1 \in Values : Block(h0, h1) \/ BatchBlock(h0, h1)
    \/ StartBatch
    \/ EndBatch
-----------------------------------------------------------------------------
(* Properties. *)

TypeOK ==
    /\ f \in 0 .. Field - 1
    /\ m[1] \in 0 .. Field - 1 /\ m[2] = f
    /\ pc \in {"unused", "idle", "batch"}
    /\ acc \in Words
    /\ split.base \in Words /\ split.fixup \in 0 .. MaxFixup
    /\ exact \in 0 .. Modulus - 1
    /\ field \in 0 .. Field - 1

\* After each block the accumulator is the reference's, fully reduced, and the
\* split accumulator evaluates to it (umash_reference.py:1193-1220;
\* umash_long.inc:211-216 and 229-231).
AccumulatorIsExact ==
    /\ pc # "batch" => acc = exact
    /\ pc = "batch" => split_accumulator_eval(split) = exact

\* Working modulo 2^64 - 8 with a reduced square does not change the value in
\* the field, on which the collision bounds rest (the assertion in
\* umash_reference.py:1212).
HashesInField == exact % Field = field /\ (pc # "batch" => acc % Field = field)
=============================================================================
