-------------------------------- MODULE CsmLogs --------------------------------
(***************************************************************************)
(* The logarithms and exponentials of csm.py: those of libm, which are off *)
(* by a few ULPs, with a margin that makes them bounds, and the bound on   *)
(* log c(n, s) that is built with them.                                    *)
(***************************************************************************)
EXTENDS CsmFloats

\* Logarithms are in units of 2^-22, and off by a few units.
LogUnits == 2 ^ 22

\* log(1 + i / 16) and log(1 + j / 256), for i and j in 0 .. 16.
Log16 ==
    <<0, 254278, 494018, 720792, 935932, 1140573, 1335692, 1522136, 1700644,
      1871864, 2036367, 2194662, 2347199, 2494382, 2636576, 2774106, 2907270>>
Log256 ==
    <<0, 16352, 32641, 48866, 65029, 81130, 97170, 113148, 129066,
      144923, 160721, 176459, 192139, 207760, 223324, 238829, 254278>>
Log2 == Log16[17]

\* log(n), 0 < n < 2^22: n is about 2^k (1 + i / 16) (1 + j / 256) (1 + d).
Log(n) ==
    LET k == CHOOSE e \in 0 .. 21 : 2 ^ e <= n /\ n < 2 ^ (e + 1)
        scaled == n * 2 ^ (21 - k)
        i_ == scaled \div 2 ^ 17 - 16
        rest == (16 * scaled) \div (16 + i_) - 2 ^ 21
        j == rest \div 2 ^ 13
        d == ((rest % 2 ^ 13) * 2 ^ 9) \div (256 + j)
    IN  k * Log2 + Log16[i_ + 1] + Log256[j + 1] + d - (d * d) \div 2 ^ 23

\* The last number of a table that is at most y.
Place(table, y) == (CHOOSE k \in 1 .. 16 : table[k] <= y /\ y < table[k + 1]) - 1

\* The float nearest to exp(y), for y in LogUnits.
Exp(y) ==
    LET k == y \div Log2
        i_ == Place(Log16, y % Log2)
        rest == (y % Log2) - Log16[i_ + 1]
        j == Place(Log256, rest)
        factor == (16 + i_) * (256 + j)
        significand == factor * 2 ^ 9 + (factor * (rest - Log256[j + 1])) \div 2 ^ 13
        exponent == k + UnitBits - 21
    IN  IF exponent >= 0 THEN Nearest[significand * 2 ^ exponent, 1]
        ELSE IF exponent >= -21 THEN Nearest[significand, 2 ^ (-exponent)] ELSE 0
-----------------------------------------------------------------------------
\* The largest errors of libm, in both directions.
Errors == {1 - LIBM_ERROR_LIMIT, LIBM_ERROR_LIMIT - 1}

\* math.log of a fraction, and math.log1p of a fraction less 1.
Libm(num, den, error) == next[Float(Log(num) - Log(den), LogUnits \div Units), error]

\* math.exp of a float
exp(x, error) == next[Exp(Value[x] * (LogUnits \div Units)), error]

\* Mistake: an error towards zero is not made up for.
log_up_Nearest(num, den, error) == Libm(num, den, error)

log_up(num, den, error) == next[Libm(num, den, error), LIBM_ERROR_LIMIT]
log_down(num, den, error) == prev[Libm(num, den, error), LIBM_ERROR_LIMIT]

\* The least float above - log sqrt(2 pi), which is -3854307.6 / LogUnits.
MINUS_LOG_SQRT_2PI ==
    LET x == Float(-3854308, LogUnits \div Units)
    IN  IF Value[x] * (LogUnits \div Units) > -3854308 THEN x ELSE next[x, 1]

\* An upper bound on log c(n, s).
robbins_log_choose(trials, successes, e) ==
    LET failures == trials - successes
        Plus_half(k) == Ratio(2 * k + 1, 2)
    IN  IF successes \in {0, trials} THEN 0
        ELSE IF successes \in {1, trials - 1} THEN log_up(trials, 1, e[1])
        ELSE sum_up(<<MINUS_LOG_SQRT_2PI,
                      Up[Times[Plus_half(trials), log_up(trials, 1, e[1])]],
                      Up[Times[Neg(Plus_half(successes)), log_down(successes, 1, e[2])]],
                      Up[Times[Neg(Plus_half(failures)), log_down(failures, 1, e[3])]],
                      Up[Ratio(1, 12 * trials)],
                      Up[Ratio(-1, 12 * successes + 1)],
                      Up[Ratio(-1, 12 * failures + 1)]>>)
=============================================================================
