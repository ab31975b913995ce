---------------------------------- MODULE Csm ----------------------------------
(***************************************************************************)
(* The functions of csm.py that are called from outside: sum_up,           *)
(* csm_driver with the bounds it computes at its end, and csm_power, a     *)
(* csm_driver whose stream is the answers of others.                       *)
(***************************************************************************)
EXTENDS CsmDriver, CsmBounds

CONSTANTS
    Terms, MaxTerms,   \* floats to add, and a bound on their number
    Tests,             \* the arguments of csm_driver,
    BoundTrials,       \* whose bounds are looked at after this many trials at most
    Powers             \* the arguments of csm_power: [inner, outer : Experiments,
                       \* below : BOOLEAN (p < alpha), draws : what random() < p can be]

ASSUME CsmAssumption ==
    /\ Terms \subseteq Floats /\ MaxTerms \in Nat /\ BoundTrials \in Nat
    /\ Tests \subseteq Experiments
    /\ Powers \subseteq [inner : Experiments, outer : Experiments,
                         below : BOOLEAN, draws : SUBSET BOOLEAN]

VARIABLES
    function,     \* the function called
    accumulator,  \* of sum_up: the unevaluated sum of two floats,
    exact,        \* the sum of the terms,
    terms,        \* and their number
    test,         \* a csm_driver
    power,        \* the arguments of csm_power, and its own csm_driver
    counted

sum_vars == <<accumulator, exact, terms>>
csm_vars == <<function, sum_vars, test, power, counted, bound_vars>>

CsmInit ==
    /\ function = "none"
    /\ accumulator = <<0, 0>> /\ exact = 0 /\ terms = 0
    /\ test = NotGiven /\ power = NotGiven /\ counted = NotGiven
    /\ BoundsInit
-----------------------------------------------------------------------------
\* sum_up, one term at a time.
Add(term) ==
    /\ function \in {"none", "sum_up"} /\ terms < MaxTerms
    /\ function' = "sum_up"
    /\ accumulator' = sum_update_up[accumulator, term]
    /\ exact' = exact + Value[term]
    /\ terms' = terms + 1
    /\ UNCHANGED <<test, power, counted, bound_vars>>

csm_driver(experiment) ==
    /\ function = "none"
    /\ function' = "csm_driver"
    /\ test' = Started(experiment)
    /\ UNCHANGED <<sum_vars, power, counted, bound_vars>>

Trial ==
    /\ test # NotGiven /\ Runs(test)
    /\ \E success \in (IF power = NotGiven THEN BOOLEAN ELSE power.draws) :
          test' \in AfterTrial(test, success)
    /\ UNCHANGED <<function, sum_vars, power, counted, bound_vars>>

End ==
    /\ function = "csm_driver" /\ test.pc = "run"
    /\ test' = AfterEnd(test)
    /\ UNCHANGED <<function, sum_vars, power, counted, bound_vars>>

\* csm_driver returns a lower and an upper bound on the rate.
Bound ==
    /\ function = "csm_driver" /\ Answered(test) /\ test.n <= BoundTrials
    /\ LET _bound(confidence, right) ==
               beta_icdf(test.s + 1, (test.n - test.s) + 1, confidence, right)
       IN  \/ step = "idle" /\ \E confidence \in Thresholds : _bound(confidence, FALSE)
           \/ step = "done" /\ ~upper /\ _bound(alpha, TRUE)
    /\ UNCHANGED <<function, sum_vars, test, power, counted>>

BoundSearch == Search /\ UNCHANGED <<function, sum_vars, test, power, counted>>

csm_power(arguments) ==
    /\ function = "none"
    /\ function' = "csm_power"
    /\ power' = arguments
    /\ counted' = Started(arguments.outer)
    /\ test' = Started(arguments.inner)
    /\ UNCHANGED <<sum_vars, bound_vars>>

\* The answer of an inner test: whether it found on which side of alpha p is.
Found ==
    LET estimate == Ratio(test.s, test.n)
        rate == Ratio(test.x.alpha[1], test.x.alpha[2])
    IN  test.stop /\ IF power.below THEN Less(estimate, rate) ELSE Less(rate, estimate)

CountAnswer ==
    /\ function = "csm_power" /\ Answered(test) /\ Runs(counted)
    /\ counted' \in AfterTrial(counted, Found)
    /\ test' = Started(power.inner)
    /\ UNCHANGED <<function, sum_vars, power, bound_vars>>

CsmNext ==
    \/ \E term \in Terms : Add(term)
    \/ \E experiment \in Tests : csm_driver(experiment)
    \/ \E arguments \in Powers : csm_power(arguments)
    \/ Trial \/ End \/ Bound \/ BoundSearch \/ CountAnswer

CsmSpec == CsmInit /\ [][CsmNext]_csm_vars
-----------------------------------------------------------------------------
(* Properties. *)

\* After every term the accumulator is an upper bound of the exact sum, its two
\* floats do not overlap, and the value that sum_up returns, when it stops here, is
\* an upper bound too; its assertion holds (csm.py:226-228, 266-269, 281).
SumIsAbove ==
    /\ Value[accumulator[1]] + Value[accumulator[2]] >= exact
    /\ Value[Plus[accumulator[1], accumulator[2]]] = Value[accumulator[1]]
    /\ Value[sum_update_finish(accumulator)] >= exact
    /\ FinishAsserts(accumulator)

\* Whatever errors libm and rounding make, csm only answers "stop" when
\*   (n + 1) c(n, s) alpha^s (1 - alpha)^(n - s) < eps / 2,
\* on which the false positive rate rests, for a test of its own and for both those
\* of csm_power (csm.py:361-368, 736-738).
StopIsJustified ==
    /\ test # NotGiven /\ test.stop => Improbable(test)
    /\ counted # NotGiven /\ counted.stop => Improbable(counted)

\* A test that does not end with its stream has made more than min_count trials, and
\* has a verdict or has made max_count; and no test makes more than max_count, when
\* that is a trial at least and above min_count (csm.py:726-727, 772-783).
TrialsInBounds ==
    /\ test # NotGiven => InBounds(test)
    /\ counted # NotGiven => InBounds(counted)

\* The bounds that csm_driver returns are conservative, and the series they come
\* from stays in the domain that _incbeta asserts (csm.py:540, 594, 643).
BoundsAreConservative == SeriesConverges /\ Conservative

\* A bisection does not go on forever, whatever its thresholds and the rounding: it
\* may only have infinitely many steps by ending infinitely often (csm.py:626-637).
BisectionEnds == []<><<TRUE>>_bound_vars => []<>(step \notin {"bisect", "series"})
=============================================================================
