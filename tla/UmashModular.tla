----------------------------- MODULE UmashModular -----------------------------
(***************************************************************************)
(* The modular arithmetic utilities of umash.c: 64-bit words, in which any *)
(* operation may wrap, and the two moduli of the polynomial hash.          *)
(***************************************************************************)
EXTENDS Integers

CONSTANT Eighth  \* 2^61, an eighth of the range of a word

W == 8 * Eighth
Modulus == W - 8
Field == Eighth - 1

Words == 0 .. W - 1

EighthAssumption == Eighth \in Nat /\ Eighth >= 4
-----------------------------------------------------------------------------
Wrap(x) == x % W

mul128(x, y) == [hi |-> (x * y) \div W, lo |-> (x * y) % W]

\* If the sum overflows, adding 8 does not, for x + y < 2W - 8.
add_mod_fast(x, y) == IF x + y >= W THEN Wrap(Wrap(x + y) + 8) ELSE x + y

ReduceOnce(x) == IF x >= W - 8 THEN Wrap(x + 8) ELSE x

add_mod_slow_slow_path(sum, fixup) == ReduceOnce(Wrap(ReduceOnce(sum) + fixup))

add_mod_slow(x, y) ==
    LET sum == Wrap(x + y)
        fixup == IF x + y >= W THEN 8 ELSE 0
    IN  IF sum < W - 16 THEN Wrap(sum + fixup) ELSE add_mod_slow_slow_path(sum, fixup)

mul_mod_fast(k, x) ==
    LET p == mul128(k, x) IN add_mod_fast(p.lo, Wrap(8 * p.hi))

horner_double_update(a, m0, m1, x, y) ==
    add_mod_slow(mul_mod_fast(m0, add_mod_fast(a, x)), mul_mod_fast(m1, y))

\* Mistake: the square is only reduced modulo 2^64 - 8.
Square_Partial(x) == mul_mod_fast(x, x)

\* umash_params_prepare: "We can work in 2**64 - 8 and reduce after the fact."
Square(x) == mul_mod_fast(x, x) % Field
=============================================================================
