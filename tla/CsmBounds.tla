------------------------------- MODULE CsmBounds -------------------------------
(***************************************************************************)
(* beta_icdf of csm.py: a bisection for the left or right end of a         *)
(* confidence interval on Beta(a, b), driven by _incbeta, a series that is *)
(* summed until it is known on which side of the threshold it ends.        *)
(***************************************************************************)
EXTENDS CsmLogs, Combinatorics

CONSTANTS
    Thresholds,        \* values of alpha, floats up to 0.05
    BETA_ICDF_EPS, BETA_ICDF_GOAL,  \* 1e-10 and 1e-3, as floats
    CheckPeriod,       \* iterations between two checks for termination (128)
    CloseLimit,        \* limit of iterations when the bound is close enough (1000)
    FarLimit           \* limit of iterations when it is not (10 * (a + b + 1000))

VARIABLES
    alpha,    \* the threshold
    upper,    \* whether the right end is computed
    a, b,     \* the parameters, exchanged for the right end
    lo, hi,   \* the interval of the bisection
    step,     \* "idle", "bisect", "series" in _incbeta, or "done"
    x,        \* the argument of _incbeta
    limit,    \* and its limit
    i,        \* iterations of its loop
    product,  \* the last term
    acc       \* the sum, an accumulator of sum_update_up

bound_vars == <<alpha, upper, a, b, lo, hi, step, x, limit, i, product, acc>>
-----------------------------------------------------------------------------
Half == Ratio(1, 2)

BoundsInit ==
    /\ alpha = 0 /\ upper = FALSE /\ a = 1 /\ b = 1 /\ lo = 0 /\ hi = 0 /\ step = "idle"
    /\ x = 0 /\ limit = 0 /\ i = 0 /\ product = 0 /\ acc = <<0, 0>>

NoSeries == x' = 0 /\ limit' = 0 /\ i' = 0 /\ product' = 0 /\ acc' = <<0, 0>>

\* The start of it and of _beta_icdf_lo.
beta_icdf(p, q, threshold, right) ==
    /\ step \in {"idle", "done"}
    /\ step' = "bisect"
    /\ alpha' = threshold /\ upper' = right
    /\ a' = (IF right THEN q ELSE p) /\ b' = (IF right THEN p ELSE q)
    /\ lo' = 0 /\ hi' = Ratio(a', a' + b')
    /\ UNCHANGED <<x, limit, i, product, acc>>

Wide == Less(GreatestOf[BETA_ICDF_EPS, Plus[lo, Times[lo, BETA_ICDF_EPS]]], hi)

close_enough == Less(hi, Plus[lo, Times[lo, BETA_ICDF_GOAL]])

\* c(a + b - 1, a) y^a (1 - y)^b, from its logarithm, with errors e of libm.  It
\* grows with each of them, e[2] and e[3] excepted.
Initial(y, e) ==
    LET log_initial ==
            sum_up(<<robbins_log_choose(a + b - 1, a, e),
                     Up[Times[Ratio(a, 1), log_up(Value[y], Units, e[4])]],
                     Up[Times[Ratio(b, 1), log_up(Units - Value[y], Units, e[5])]]>>)
    IN  next[exp(log_initial, e[6]), LIBM_ERROR_LIMIT]

Extreme(error) == [k \in 1 .. 6 |-> IF k \in {2, 3} THEN -error ELSE error]

\* _incbeta is called in the middle of the interval.
Bisect ==
    /\ step = "bisect" /\ Wide
    /\ \E y \in {Times[Half, Plus[hi, lo]]} :
          /\ x' = y
          /\ product' \in {Initial(y, Extreme(error)) : error \in Errors}
    /\ limit' = (IF close_enough THEN CloseLimit ELSE FarLimit)
    /\ acc' = <<product', 0>>
    /\ i' = 1
    /\ step' = "series"
    /\ UNCHANGED <<alpha, upper, a, b, lo, hi>>

multiplicand == LeastOf[Up[Times[x, Up[Plus[Up[Ratio(b - 1, a + i)], Ratio(1, 1)]]]], Ratio(1, 1)]

\* The sum of p r^j for all j > 0, with bounds of log(r) and log(1 - r); the
\* product and the exponential are not made bounds.
tail_hi(p, r, error) ==
    Times[p, exp(Minus[log_up(Value[r], Units, error), log_down(Units - Value[r], Units, -error)],
                 error)]

tail_lo(p, r, error) ==
    Times[p, exp(Minus[log_down(Value[r], Units, error), log_up(Units - Value[r], Units, -error)],
                 error)]

\* px is not None and px < alpha
Below(px) == px = "below"

\* Mistake: nothing is made of a series that is too long.
Narrowed_Stuck(px) == IF px = "none" THEN <<lo, hi>> ELSE IF Below(px) THEN <<x, hi>> ELSE <<lo, x>>

Narrowed(px) == IF Below(px) THEN <<x, hi>> ELSE <<lo, x>>

\* _incbeta returns, and the bisection goes on or ends.
Return(px) ==
    /\ IF px = "none" /\ close_enough
       THEN step' = "done" /\ UNCHANGED <<lo, hi>>
       ELSE /\ step' = "bisect"
            /\ lo' = Narrowed(px)[1] /\ hi' = Narrowed(px)[2]
    /\ NoSeries
    /\ UNCHANGED <<alpha, upper, a, b>>

\* No decision yet.
Continue(p, sum) ==
    IF i < limit
    THEN /\ i' = i + 1 /\ product' = p /\ acc' = sum
         /\ UNCHANGED <<alpha, upper, a, b, lo, hi, step, x, limit>>
    ELSE Return("none")

\* Mistake: the terms that are left are not looked at.
CannotReach_Short(p, delta, error) == 0 < Value[delta]

\* The terms that are left certainly take the sum past the threshold, or not.
CertainlyReaches(p, delta, error) == Less(Times[Ratio(2, 1), delta], tail_lo(p, x, error))
CannotReach(p, delta, error) == Less(tail_hi(p, multiplicand, error), Times[Half, delta])

\* What is made of the terms that are left.
Decision(p, sum, error) ==
    LET delta == Minus[Minus[alpha, sum[1]], sum[2]]
    IN  IF CertainlyReaches(p, delta, error) THEN "above"
        ELSE IF CannotReach(p, delta, error) THEN IF Less(sum[1], alpha) THEN "below" ELSE "above"
        ELSE "none"

\* An iteration: terms are added until the sum is past the threshold; what is left
\* is only looked at when the sum no longer changes, or from time to time.
AddTerm ==
    /\ step = "series"
    /\ \E p \in {Up[Times[product, multiplicand]]} : \E sum \in {sum_update_up[acc, p]} :
          IF Less(alpha, sum[1]) THEN Return("above")
          ELSE IF sum[1] # acc[1] /\ i % CheckPeriod # 0 THEN Continue(p, sum)
          ELSE \E decision \in {Decision(p, sum, error) : error \in Errors} :
                  IF decision = "none" THEN Continue(p, sum) ELSE Return(decision)

Narrow ==
    /\ step = "bisect" /\ ~Wide
    /\ step' = "done"
    /\ UNCHANGED <<alpha, upper, a, b, lo, hi, x, limit, i, product, acc>>

\* What beta_icdf returns.
Returned == IF upper THEN LeastOf[Up[Minus[Ratio(1, 1), lo]], Ratio(1, 1)]
            ELSE GreatestOf[0, lo]

Search == Bisect \/ AddTerm \/ Narrow
-----------------------------------------------------------------------------
(* Properties. *)

\* Naturals are sequences of digits in base 2^10, the least one first, so that
\* the reference is exact.
Carried(digits) ==
    Front(FoldLeft(LAMBDA done, digit : Front(done) \o <<(Last(done) + digit) % 2 ^ 10,
                                                         (Last(done) + digit) \div 2 ^ 10>>,
                   <<0>>, digits))
Sum(m, n) == Carried([d \in DOMAIN m |-> m[d] + n[d]])
Product(digits, factors) ==
    FoldLeft(LAMBDA n, factor : Carried([d \in DOMAIN n |-> factor * n[d]]),
             [d \in 1 .. digits |-> IF d = 1 THEN 1 ELSE 0], factors)
AtMost(m, n) ==
    \/ m = n
    \/ LET top == Max({d \in DOMAIN m : m[d] # n[d]}) IN m[top] < n[top]

\* The regularised incomplete beta function at the fraction y of Units, times
\* Units^N, with UnitBits <= 20.
I(p, q, y) ==
    LET N == p + q - 1
        Term(j) == Product(2 * N + 1, <<choose(N, j)>> \o [k \in 1 .. j |-> y]
                                          \o [k \in 1 .. N - j |-> Units - y])
    IN  FoldLeft(LAMBDA sum, j : Sum(sum, Term(j)), Term(p), [k \in 1 .. N - p |-> p + k])

\* It is no more than alpha.
AtMostAlpha(p, q, y) ==
    LET N == p + q - 1
    IN  AtMost(I(p, q, y), Product(2 * N + 1, <<Value[alpha]>> \o [k \in 1 .. N - 1 |-> Units]))

\* Both ends are conservative: no more than alpha of the distribution is to the
\* left of the left end, or to the right of the right one (csm.py:504, 594, 645).
Conservative ==
    step = "done" =>
        IF upper THEN AtMostAlpha(a, b, Units - Value[Returned])
        ELSE AtMostAlpha(a, b, Value[Returned])

\* The assertion of _incbeta, and the domain of the logarithms it calls.
SeriesConverges ==
    step = "series" => /\ 0 < x /\ Less(x, Ratio(a, a + b))
                       /\ Less(multiplicand, Ratio(1, 1))
=============================================================================
