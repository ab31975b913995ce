----------------------------- MODULE MCUmashKeys -----------------------------
(* Values for the constants of UmashKeys: an 8-bit machine. *)
EXTENDS UmashKeys

\* A byte has one bit: shifts, rotations and factors in proportion.
SomeShifts == <<4, 3, 4>>
SomeFactors == <<185, 235>>
SomeRotations == <<1, 4>>

\* 13 distinct words, among them 22 and 39; then up to three of them repeated.
Distinct == [j \in 0 .. 12 |-> 5 + 17 * j]
Repeats == {Distinct,
            [Distinct EXCEPT ![1] = 5],
            [Distinct EXCEPT ![12] = 5, ![8] = 22],
            [Distinct EXCEPT ![4] = 5, ![5] = 5, ![9] = 56],
            [Distinct EXCEPT ![12] = 192, ![0] = 0, ![4] = 255]}

Struct(a, b, c, d, oh) ==
    [poly |-> [w \in 0 .. 1 |-> IF w = 0 THEN <<a, b>> ELSE <<c, d>>], oh |-> oh]

\* Multipliers 0 and 31 are zeros of the field, and so are 32 and 255 once masked;
\* spare words are good, a zero of the field, or repeat an OH word.
SomeFills ==
    {Struct(a, b, c, d, oh) : a \in {3, 31, 22}, b \in {1, 30, 31, 32},
                              c \in {3, 60}, d \in {0, 2, 255}, oh \in Repeats}

\* A usable struct, one with two words to replace and one that cannot be saved.
SomeStreams ==
    {Struct(60, 5, 61, 6, Distinct), Struct(13, 31, 14, 33, Distinct),
     Struct(60, 64, 61, 0, [Distinct EXCEPT ![3] = 5])}

\* Every multiplier, and keys with and without a repeated word.
SomeKeys ==
    {[poly |-> x, oh |-> oh] :
        x \in 0 .. 31, oh \in {Distinct, [Distinct EXCEPT ![7] = 22]}}

\* Small words, and those around the thresholds of the modulus (248) and of an
\* extremely high hash (224).
BoundaryWords == {0, 1, 128, 223, 224, 225, 226, 231, 232, 233, 247, 248, 255}
=============================================================================
