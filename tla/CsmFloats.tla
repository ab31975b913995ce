------------------------------ MODULE CsmFloats ------------------------------
(***************************************************************************)
(* The floats of csm.py: sign and magnitude, rounding to nearest, and the  *)
(* directed rounding and summation that csm.py builds on them.             *)
(*                                                                         *)
(* A float is its bits, read as a signed integer as struct.unpack does.    *)
(* The width of the fraction and of the exponent are parameters, so that   *)
(* rounding errors are frequent and all floats can be enumerated.          *)
(***************************************************************************)
EXTENDS Integers, Sequences, SequencesExt

CONSTANTS
    FracBits,   \* bits of the fraction (52)
    Exponents,  \* values of the exponent (2047)
    UnitBits,   \* 1.0 is 2^UnitBits times the least positive float (1074)
    LIBM_ERROR_LIMIT  \* libm is off by less than this many ULPs (4)

ASSUME FloatsAssumption ==
    /\ FracBits \in Nat \ {0} /\ Exponents \in Nat \ {0} /\ UnitBits \in Nat
    /\ LIBM_ERROR_LIMIT \in Nat \ {0}

Scale == 2 ^ FracBits
SignBit == Scale * Exponents  \* 2^63
Units == 2 ^ UnitBits

Floats == -SignBit .. SignBit - 1
NegativeZero == -SignBit

Significand(bits) == IF bits < Scale THEN bits ELSE Scale + (bits % Scale)
Exponent(bits) == IF bits < Scale THEN 0 ELSE (bits \div Scale) - 1
Magnitude(bits) == Significand(bits) * 2 ^ Exponent(bits)

\* What a float represents, in multiples of the least positive one.
Value[x \in Int] == IF x >= 0 THEN Magnitude(x) ELSE -Magnitude(x % SignBit)

\* The bits of the float nearest to num / den >= 0, the even one of two.
Nearest[num \in Int, den \in Int] ==
    LET exponent == CHOOSE e \in 0 .. Exponents :
                        /\ e = 0 \/ num >= Scale * 2 ^ e * den
                        /\ num < 2 * Scale * 2 ^ e * den
        ulp == (2 ^ exponent) * den
        quotient == num \div ulp
        rest == num % ulp
        up == 2 * rest > ulp \/ (2 * rest = ulp /\ quotient % 2 = 1)
    IN  exponent * Scale + quotient + (IF up THEN 1 ELSE 0)

Float(num, den) == IF num >= 0 THEN Nearest[num, den] ELSE Nearest[-num, den] - SignBit

Neg(x) == IF x >= 0 THEN x - SignBit ELSE x + SignBit
Abs(x) == IF x >= 0 THEN x ELSE Neg(x)
Plus[x \in Int, y \in Int] ==
    IF x = NegativeZero /\ y = NegativeZero THEN NegativeZero
    ELSE Float(Value[x] + Value[y], 1)
Minus[x \in Int, y \in Int] == Plus[x, Neg(y)]
Times[x \in Int, y \in Int] ==
    LET significands == Significand(Abs(x)) * Significand(Abs(y))
        exponent == Exponent(Abs(x)) + Exponent(Abs(y)) - UnitBits
        product == IF exponent < 0 THEN Nearest[significands, 2 ^ (-exponent)]
                   ELSE Nearest[significands * 2 ^ exponent, 1]
    IN  IF (x < 0) = (y < 0) THEN product ELSE product - SignBit

\* The float of a fraction of integers.
Ratio(num, den) == Float(num * Units, den)

Less(x, y) == Value[x] < Value[y]
LeastOf[x \in Int, y \in Int] == IF Less(y, x) THEN y ELSE x
GreatestOf[x \in Int, y \in Int] == IF Less(x, y) THEN y ELSE x
-----------------------------------------------------------------------------
\* Bits in two's complement: their order is that of floats, and -0.0 is just
\* below 0.0.
float_bits(x) == LET significand == x % SignBit
                 IN  IF x >= 0 THEN significand ELSE -1 - significand

bits_float(bits) == IF bits < 0 THEN -1 - (bits % SignBit) ELSE bits

next[x \in Int, delta \in Int] == bits_float(float_bits(x) + delta)
prev[x \in Int, delta \in Int] == bits_float(float_bits(x) - delta)
Up[x \in Int] == next[x, 1]

\* Mistake: the addition of the compensation is rounded to nearest.
Shifted_Nearest(term, compensation) == Plus[term, compensation]

Shifted(term, compensation) == next[Plus[term, compensation], 1]

\* The pair <<acc, compensation>> becomes one for an upper bound of its sum and
\* of the term.
sum_update_up[accumulator \in Floats \X Floats, value \in Int] ==
    LET acc == accumulator[1]
        compensation == accumulator[2]
        swap == Less(Abs(acc), Abs(value))
        larger == IF swap THEN value ELSE acc
        smaller == IF swap THEN acc ELSE value
        shifted == Shifted(smaller, compensation)
        b == IF Value[compensation] <= 0 THEN LeastOf[smaller, shifted] ELSE shifted
        x == Plus[larger, b]
    IN  <<x, Minus[b, Minus[x, larger]]>>

FinishBound(acc, compensation) ==
    LET shifted == next[Plus[acc, compensation], 1]
    IN  IF Value[compensation] > 0 THEN shifted ELSE LeastOf[acc, shifted]

\* What sum_update_finish asserts, and the bound it returns.
FinishAsserts(accumulator) ==
    LET bound == FinishBound(accumulator[1], accumulator[2])
    IN  ~Less(Minus[bound, accumulator[1]], accumulator[2])

sum_update_finish(accumulator) == FinishBound(accumulator[1], accumulator[2])

sum_up(values) ==
    sum_update_finish(FoldLeft(LAMBDA sum, value : sum_update_up[sum, value], <<0, 0>>, values))
=============================================================================
