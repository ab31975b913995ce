------------------------------ MODULE UmashBench ------------------------------
(***************************************************************************)
(* t/umash_bench.py: compare_inputs times two versions of UMASH on blocks  *)
(* of input lengths, and compare_short_inputs and compare_long_inputs take *)
(* these lengths from a trace, while other processes may be downloading it *)
(* too.                                                                    *)
(*                                                                         *)
(* A timing is the version and the length that it measures.                *)
(***************************************************************************)
EXTENDS UmashTraces, Functions

CONSTANTS
    Bench,       \* the process that compares; the others only read the trace
    Versions,    \* of the versions that build_and_load can load
    LengthLimits, LengthMins, LengthFixups,
                 \* arguments of compare_short_inputs and compare_long_inputs
    SizeLimit,   \* 2^64
    block_size, min_count

ASSUME BenchAssumption ==
    /\ Bench \in Processes
    /\ LengthLimits \subseteq Nat /\ LengthMins \subseteq Nat /\ LengthFixups \subseteq Int
    /\ SizeLimit \in Nat /\ \A k \in DOMAIN Trace : Trace[k] # None => Trace[k].size < SizeLimit
    /\ block_size \in Nat \ {0} /\ min_count \in Nat

VARIABLES
    filter,            \* the lengths that the comparison takes from the trace
    suffixes,          \* of current and baseline
    length_arguments,
    passes, block,     \* what remains of the two loops
    implementations,   \* index, in the order of the calls
    called,            \* how many were called on the block
    inputs, timings, count,
    recorded,          \* how many of these timings are in the results
    results, record_results,
    returned           \* the dict of compare_inputs

vars == <<traceVars, filter, suffixes, length_arguments, passes, block, implementations,
          called, inputs, timings, count, recorded, results, record_results, returned>>
benchVars == <<filter, suffixes, length_arguments, passes, block, implementations,
               called, inputs, timings, count, recorded, results, record_results, returned>>

Indices == {1, 2}

\* Which lengths each of them takes.
compare_short_inputs == [min : {0}, limit : LengthLimits, fixup : LengthFixups]
compare_long_inputs == [min : LengthMins, limit : {SizeLimit}, fixup : LengthFixups]

Size(k) == Trace[k].size + filter.fixup
Taken(k) == filter.min <= Size(k) /\ Size(k) < filter.limit

\* _full_call_sizes of the calls on these lines: by thread, in the order of their
\* first calls.
full_call_sizes(lines) ==
    LET sized == {k \in lines : Taken(k)}
        first(k) == CHOOSE j \in sized : /\ Trace[j].tid = Trace[k].tid
                                         /\ \A l \in sized : Trace[l].tid = Trace[k].tid => j <= l
        before(j, k) == first(j) < first(k) \/ (first(j) = first(k) /\ j < k)
        order == CHOOSE o \in [1 .. Cardinality(sized) -> sized] :
                    \A p, q \in DOMAIN o : p < q => before(o[p], o[q])
    IN  [p \in DOMAIN order |-> Size(order[p])]

\* random.shuffle
Shuffles(s) == {[k \in DOMAIN s |-> s[order[k]]] : order \in Bijection(DOMAIN s, DOMAIN s)}

Zeros == [k \in 1 .. block_size |-> 0]
-----------------------------------------------------------------------------
BenchInit ==
    /\ filter \in compare_short_inputs \cup compare_long_inputs /\ suffixes \in [Indices -> Versions]
    /\ length_arguments = <<>> /\ passes = 0 /\ block = 0
    /\ implementations = <<1, 2>> /\ called = 0
    /\ inputs = Zeros /\ timings = Zeros /\ count = 0 /\ recorded = 0
    /\ results = [k \in Indices |-> <<>>] /\ record_results = FALSE
    /\ returned = <<>>

Init == TracesInit /\ BenchInit

Passes == 1 + (min_count \div Len(length_arguments))

\* The start of compare_inputs, with the list of lengths: max raises on an empty one.
Compare ==
    LET lengths == full_call_sizes(calls[Bench])
    IN  /\ pc[Bench] = "loaded"
        /\ IF lengths = <<>>
           THEN Goto(Bench, "raised") /\ UNCHANGED benchVars
           ELSE /\ Goto(Bench, "next")
                /\ length_arguments' = lengths /\ passes' = Passes' /\ block' = 1
                /\ UNCHANGED <<filter, suffixes, implementations, called, inputs, timings, count,
                               recorded, results, record_results, returned>>
        /\ UNCHANGED <<ext, exists, pieces, at, calls>>

\* How many lengths come before the block of grouper, and how many are in it,
\* without the fill values.
Before == (block - 1) * block_size
InBlock == IF Len(length_arguments) - Before < block_size THEN Len(length_arguments) - Before
           ELSE block_size

\* The next block overwrites the front of `inputs`.
NextBlock ==
    /\ pc[Bench] = "next" /\ passes > 0 /\ Before < Len(length_arguments)
    /\ implementations' \in Shuffles(implementations)
    /\ count' = InBlock
    /\ inputs' = [k \in 1 .. block_size |-> IF k <= InBlock THEN length_arguments[Before + k]
                                            ELSE inputs[k]]
    /\ called' = 0 /\ Goto(Bench, "call")
    /\ UNCHANGED <<ext, exists, pieces, at, calls, filter, suffixes, length_arguments, passes,
                   block, timings, recorded, results, record_results, returned>>

\* fn(options, timings, inputs, count, max_len), on both versions in turn.
Call ==
    LET version == suffixes[implementations[called + 1]]
    IN  /\ pc[Bench] = "call" /\ called < 2
        /\ timings' = [k \in 1 .. block_size |->
                        IF k <= count THEN [version |-> version, length |-> inputs[k]] ELSE timings[k]]
        /\ called' = called + 1
        /\ Goto(Bench, IF record_results THEN "record" ELSE "call")
        /\ UNCHANGED <<ext, exists, pieces, at, calls, filter, suffixes, length_arguments, passes,
                       block, implementations, inputs, count, recorded, results, record_results,
                       returned>>

\* Mistake: the whole buffers are grouped, the end of the last blocks included.
Recorded_Buffer == block_size

Recorded == count

\* An iteration of _update_results: acc[length].append(timings[i])
Record ==
    LET index == implementations[called]
        k == recorded + 1
        acc == results[index]
        list == IF inputs[k] \in DOMAIN acc THEN acc[inputs[k]] ELSE <<>>
    IN  /\ pc[Bench] = "record" /\ recorded < Recorded
        /\ results' = [results EXCEPT ![index] =
                        [length \in DOMAIN acc \cup {inputs[k]} |->
                            IF length = inputs[k] THEN Append(list, timings[k]) ELSE acc[length]]]
        /\ recorded' = k
        /\ UNCHANGED <<traceVars, filter, suffixes, length_arguments, passes, block,
                       implementations, called, inputs, timings, count, record_results, returned>>

EndRecord ==
    /\ pc[Bench] = "record" /\ recorded = Recorded
    /\ recorded' = 0 /\ Goto(Bench, "call")
    /\ UNCHANGED <<ext, exists, pieces, at, calls, filter, suffixes, length_arguments, passes, block,
                   implementations, called, inputs, timings, count, results, record_results, returned>>

EndBlock ==
    /\ pc[Bench] = "call" /\ called = 2
    /\ record_results' = TRUE /\ block' = block + 1 /\ Goto(Bench, "next")
    /\ UNCHANGED <<ext, exists, pieces, at, calls, filter, suffixes, length_arguments, passes,
                   implementations, called, inputs, timings, count, recorded, results, returned>>

EndPass ==
    /\ pc[Bench] = "next" /\ passes > 0 /\ Before >= Len(length_arguments)
    /\ length_arguments' \in Shuffles(length_arguments)
    /\ passes' = passes - 1 /\ block' = 1
    /\ UNCHANGED <<traceVars, filter, suffixes, implementations, called, inputs, timings, count,
                   recorded, results, record_results, returned>>

\* Mistake: the versions are not put back in order.
Ordered_Not == implementations

\* implementations.sort(), by index
Ordered == CHOOSE s \in Shuffles(implementations) : s[1] < s[2]

\* The dict has one entry if both versions have the same suffix.
Return ==
    /\ pc[Bench] = "next" /\ passes = 0
    /\ returned' = [s \in Range(suffixes) |->
                    IF s = suffixes[2] THEN results[Ordered[2]] ELSE results[Ordered[1]]]
    /\ implementations' = Ordered
    /\ Goto(Bench, "returned")
    /\ UNCHANGED <<ext, exists, pieces, at, calls, filter, suffixes, length_arguments, passes,
                   block, called, inputs, timings, count, recorded, results, record_results>>

\* The locals of a comparison that was interrupted, or has returned.
Lost ==
    /\ length_arguments' = <<>> /\ passes' = 0 /\ block' = 0
    /\ implementations' = <<1, 2>> /\ called' = 0
    /\ inputs' = Zeros /\ timings' = Zeros /\ count' = 0 /\ recorded' = 0
    /\ results' = [k \in Indices |-> <<>>] /\ record_results' = FALSE
    /\ returned' = <<>> /\ UNCHANGED <<filter, suffixes>>

Next ==
    \/ Compare \/ NextBlock \/ Call \/ Record \/ EndRecord \/ EndBlock \/ EndPass \/ Return
    \/ \E p \in Processes :
        \/ TraceStep(p) /\ UNCHANGED benchVars
        \/ Restart(p) /\ IF p = Bench THEN Lost ELSE UNCHANGED benchVars

Spec == Init /\ [][Next]_vars
-----------------------------------------------------------------------------
(* Properties. *)

\* Both versions are compared on the same inputs, whatever the order in which they
\* were called and the lists shuffled: a timing stands under the version and the
\* length that it measured, both have as many of each length, and there is one for
\* each input of each pass but those of the first block.
ResultsArePaired ==
    pc[Bench] = "returned" =>
        LET n == Len(length_arguments)
        IN  /\ \A s \in DOMAIN returned : \A length \in DOMAIN returned[s] :
                Range(returned[s][length]) = {[version |-> s, length |-> length]}
            /\ \A s, t \in DOMAIN returned : DOMAIN returned[s] = DOMAIN returned[t]
                /\ \A length \in DOMAIN returned[s] : Len(returned[s][length]) = Len(returned[t][length])
            /\ \A s \in DOMAIN returned :
                FoldFunction(+, 0, [length \in DOMAIN returned[s] |-> Len(returned[s][length])])
                    = (Passes * n) - (IF n < block_size THEN n ELSE block_size)

\* A comparison measures the calls of the whole trace when the trace is compressed,
\* each as often as it is there, although the cached file is written in place, and
\* stays truncated after a download that failed: the reader raises rather than
\* measure a part.
MeasuresTheTrace ==
    ext = ".bz2" /\ pc[Bench] \in {"next", "call", "record", "returned"} =>
        LET whole == {k \in DOMAIN Trace : Trace[k] # None /\ Taken(k)}
        IN  \A length \in Range(length_arguments) \cup {Size(k) : k \in whole} :
            Cardinality({k \in DOMAIN length_arguments : length_arguments[k] = length})
                = Cardinality({k \in whole : Size(k) = length})
=============================================================================
