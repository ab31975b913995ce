------------------------------- MODULE CsmDriver -------------------------------
(***************************************************************************)
(* csm and csm_driver of csm.py: a stream of booleans is read until its    *)
(* success rate is certainly not alpha, with the confidence sequence of    *)
(* Ding, Gandy and Hahn, in floats and with a libm that errs.              *)
(***************************************************************************)
EXTENDS CsmLogs, Combinatorics

CONSTANTS
    Experiments,       \* [alpha, eps : two integers each, min_count, max_count]
    NotGiven,          \* an argument that is not given
    Longest            \* bound on the length of a stream

ASSUME CsmDriverAssumption ==
    /\ Longest \in Nat
    /\ \A e \in Experiments :
          /\ 0 < e.alpha[1] /\ e.alpha[1] < e.alpha[2]
          /\ 0 < e.eps[1] /\ e.eps[1] <= e.eps[2]
          /\ e.min_count \in Int \cup {NotGiven} /\ e.max_count \in Int \cup {NotGiven}

-----------------------------------------------------------------------------
\* Whether csm would stop, and with which errors e of libm; log_eps is the lower
\* bound that csm_driver computes once, with error e[7].
csm(x, trials, successes, e) ==
    LET alpha == x.alpha
        log_level ==
            sum_up(<<log_up(trials + 1, 1, e[4]),
                     robbins_log_choose(trials, successes, e),
                     Up[Times[Ratio(successes, 1), log_up(alpha[1], alpha[2], e[5])]],
                     Up[Times[Ratio(trials - successes, 1),
                              log_up(alpha[2] - alpha[1], alpha[2], e[6])]]>>)
        log_eps == log_down(x.eps[1], 2 * x.eps[2], e[7])
    IN  Less(log_level, log_eps)

\* The verdicts that some errors of libm lead to.
Answers ==
    [x \in Experiments |->
        [trials \in 1 .. Longest |->
            [successes \in 0 .. trials |->
                {csm(x, trials, successes, e) : e \in [1 .. 7 -> Errors]}]]]
-----------------------------------------------------------------------------
\* Mistake: a verdict ends the loop before min_count trials.
After_Hasty(x, trials, verdict) ==
    IF verdict THEN "stop"
    ELSE IF x.max_count # NotGiven /\ trials >= x.max_count THEN "max_count"
    ELSE "run"

\* Where the loop goes after a trial.
After(x, trials, verdict) ==
    IF x.min_count # NotGiven /\ trials <= x.min_count THEN "run"
    ELSE IF verdict THEN "stop"
    ELSE IF x.max_count # NotGiven /\ trials >= x.max_count THEN "max_count"
    ELSE "run"

\* A csm_driver: n trials, s of them successes, the last verdict, and where it is:
\* in the loop, or after it for one of three reasons ("end" is that of the stream).
Drivers ==
    [x : Experiments, n : 0 .. Longest, s : 0 .. Longest, stop : BOOLEAN,
     pc : {"run", "stop", "max_count", "end", "error"}]

Started(x) == [x |-> x, n |-> 0, s |-> 0, stop |-> FALSE, pc |-> "run"]

Runs(driver) == driver.pc = "run" /\ driver.n < Longest
Answered(driver) == driver.pc \in {"stop", "max_count", "end"}

\* What a trial may lead to.
AfterTrial(driver, success) ==
    LET trials == driver.n + 1
        successes == driver.s + (IF success THEN 1 ELSE 0)
    IN  {[driver EXCEPT !.n = trials, !.s = successes, !.stop = verdict,
                        !.pc = After(driver.x, trials, verdict)] :
            verdict \in Answers[driver.x][trials][successes]}

\* The stream ends; the rate of an empty one is a division by zero.
AfterEnd(driver) == [driver EXCEPT !.pc = IF driver.n = 0 THEN "error" ELSE "end"]
-----------------------------------------------------------------------------
(* Properties. *)

\* (n + 1) c(n, s) alpha^s (1 - alpha)^(n - s) < eps / 2
Improbable(driver) ==
    LET alpha == driver.x.alpha
        eps == driver.x.eps
    IN  (driver.n + 1) * choose(driver.n, driver.s)
            * alpha[1] ^ driver.s * (alpha[2] - alpha[1]) ^ (driver.n - driver.s)
            * 2 * eps[2] < eps[1] * alpha[2] ^ driver.n

\* The loop was left before the stream ended.
Left(driver) == driver.pc \in {"stop", "max_count"}

\* The loop is left after one trial at least, and more than min_count of them; with a
\* verdict, or after max_count trials.  It makes no more than max_count of them when
\* that is a trial at least and above min_count.
InBounds(driver) ==
    LET x == driver.x IN
    /\ Left(driver) =>
          /\ driver.n > 0 /\ (x.min_count # NotGiven => driver.n > x.min_count)
          /\ driver.stop \/ (x.max_count # NotGiven /\ driver.n >= x.max_count)
    /\ driver.pc = "stop" => driver.stop
    /\ x.max_count # NotGiven /\ 0 < x.max_count
       /\ (x.min_count # NotGiven => x.min_count < x.max_count) => driver.n <= x.max_count
=============================================================================
