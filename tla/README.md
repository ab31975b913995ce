# UMASH in TLA+

UMASH is a 64-bit almost-universal hash function and a 128-bit fingerprint,
written in C (`umash.c`, `umash.h`, `umash_long.inc`), with a reference
implementation in Python (`umash_reference.py`) and a benchmarking tool that
compares two builds by exact statistical tests (`bench/`, `t/exact_test*.py`).
This directory holds models of the parts whose correctness depends on long
sequences of steps, on boundaries, or on the order in which threads run, the
TLC runs that check them, and machine-checked proofs for every value of the
constants.

Paths below are relative to `src/`.

    tlc -workers 2 -config MCUmashSink.cfg MCUmashSink    # a run
    tlapm UmashSinkProofs.tla                             # proofs

## 1. The system

| Component | Code | State it keeps | Operations | Status |
|---|---|---|---|---|
| Incremental hashing | `umash.c` 1077-1559, `umash.h` | `struct umash_sink`: polynomial states, 32-byte buffer, OH accumulators, counters | `umash_init`, `umash_fp_init`, `umash_sink_update`, `umash_digest`, `umash_fp_digest` | modelled, proved |
| One-shot hashing | `umash.c` 517-980, 1344-1397 | locals of a call | `umash_full`, `umash_fprint` | modelled, proved |
| Multiple-block kernels | `umash_long.inc` 210-1033 | locals of a call | generic and 256-bit loops over whole blocks | modelled, proved |
| Modular arithmetic, polynomial hash | `umash.c` 251-345, `umash_long.inc` 210-319 | accumulator; split accumulator | `add_mod_*`, `horner_double_update`, `split_accumulator_*`, `finalize` | modelled, proved |
| Dynamic dispatch | `umash_long.inc` 81-206 | two function pointers, shared by all threads | `umash_long_pick` and the initial functions | modelled, proved |
| Parameters | `umash.c` 982-1072 | `struct umash_params` | `umash_params_prepare`, `umash_params_derive` | modelled, proved |
| Salsa20 stream | `umash.c` 351-515 | none | `salsa20_stream` | not modelled |
| Reference | `umash_reference.py` | none | `umash`, OH, polynomial, short inputs, finalizer, `generate_key` | modelled, proved |
| Buffered iterator | `t/exact_test_sampler.py` 443-505 | bounded queue, event, threads | pull, get, `__exit__` | modelled, proved |
| Sampler | `t/exact_test_sampler.py` 199-439 | parameters of a call, pool of processes, futures | `simulate` | modelled, proved |
| Exact test driver | `t/exact_test.py` 140-325, `t/exact_test_sampler.py` 508-587 | results, trials, plans | `exact_test`, `resampled_data_results` | modelled, proved |
| Sampler client, server | `t/exact_test_sampler_client.py`, `..._server.py` | configuration files, running requests | `get_sampler_servers`, `status`, `simulate` | modelled |
| Shuffle, sort, statistics | `bench/exact_test.c`, `t/exact_test_sampler.py` 50-196 | array of observations | work units: grouping, shuffle, offsets, hybrid sort, probabilities, means, quantiles | modelled |
| Random generators | `bench/xoshiro.c` | global state and lock of each process | seed, get, jump | modelled, proved |
| Confidence sequences | `t/csm.py` | locals of a call | `sum_up`, `csm`, `csm_driver`, `beta_icdf`, `csm_power` | modelled |
| Benchmark runner | `t/umash_bench.py`, `t/umash_traces.py`, `t/bench_loader.py` | cached traces, shared by processes; buffers of lengths and timings | `umash_full_calls`, `compare_inputs`, `compare_short_inputs`, `compare_long_inputs` | modelled, proved |
| Example, string lists | `example.c`, `t/*_substrings.c` | none | straight-line programs | not modelled |

How they interact.  The incremental interface shares the short and medium
functions and the multiple-block kernels with one-shot hashing, and both must
agree with the reference on every input.  The kernels are reached through the
dispatched pointers, and leave their sums in the split accumulator.  All of them
read prepared parameters.  On the statistics side, the driver reads a generator
that evaluates a plan inline and takes batches from samplers, here or on
servers, through a `BufferedIterator`; a sampler is a generator with a thread
that applies requests, a callback for cancelled calls, and a pool of forked
workers, which seed `xoshiro` and call the C code that shuffles and sorts.  The
driver's verdicts are those of `csm`.  The data are the timings of two versions
of the library on the lengths of a cached trace.

What is hard.

* *Boundaries*: words, chunks, blocks and the 1024-byte batch; a last block of
  exactly 256 bytes; a redundant read of the last 16 bytes, which may start in
  an earlier update; a tag that wraps in a `uint8_t`; sums near 2^64 that random
  inputs never produce; roundings and errors of libm that must always be made up
  for in the same direction.
* *Sequences of calls*: any way of cutting a stream into updates, digests in the
  middle, storage that is set up again; parameters prepared twice, or again
  after a failure; buffers that still hold what an earlier call left.
* *Interleavings*: first calls of several threads with relaxed atomics; reader
  and producers of a bounded queue while one of them leaves; a request applied
  while work units are created; futures that complete while they are scanned;
  late batches computed with old plans; generators taken from a global state
  while it is seeded, or forked; a trace that is downloaded twice at once.
* *Ends and failures*: queues that are full when a thread ends, cancellations,
  time-outs, streams that end early or raise, servers that do not answer, a
  process that dies while it writes its cache.

What makes each of them correct is in sections 3 and 4; `PROJECT.json` lists
each hazard at its line with the properties that cover it.

## 2. Plan

Modules in the order they were written, which is the order of importance.

1. `UmashAlgebra`, `UmashReference`, `UmashStream`: values, the reference, and
   the promise of `umash.h`.
2. `UmashKernels`, `UmashSink`: the incremental interface, run `sink_scaled`.
3. `UmashKernelsProofs`, `UmashSinkProofs`: its inductive invariant, and that
   every digest is the reference's.
4. `UmashOneShot`, run `one_shot`; `UmashDispatch`, run `dispatch`.
5. `UmashModular`, `PolyAccumulator`, `UmashParams`, `UmashShort`, and
   `UmashKeys`, which composes them: run `keys`.
6. `BufferedIterator`, `ExactTestSampler`, and `ExactTestDriver` over
   `SamplerServers`: runs `buffered_*`, `sampler`, `driver`.
7. `ExactTestSort`, and `ExactTestWorker` over it; `Xoshiro`: runs `worker`,
   `xoshiro`.
8. `CsmFloats`, `CsmLogs` over it, then `CsmDriver` and `CsmBounds`, and `Csm`
   over both: run `csm`.
9. `UmashTraces`, and `UmashBench` over it: run `bench`.

10. Inductive invariants and proofs, most important results first:
   `UmashOneShotProofs` (with dispatch), `UmashKeysProofs`,
   `ExactTestDriverProofs` (with the buffered iterator and the loop of
   `csm_driver`),
   `ExactTestSamplerProofs`, `ExactTestWorkerProofs` (with the generators),
   `UmashBenchProofs`.

## 3. Hashing

### Values (`UmashAlgebra`)

Bytes are named by their position in the stream (-1 is a zero byte), and a chunk
is a function from offsets to bytes.  OH works in GF(2): an accumulator is the
set of the products xored into it, each with its number of left shifts, so `Xor`
is symmetric difference and `Shift` adds one to every count.  A product names
the index of its parameter pair, its chunk, and for ENH its tag.  Two digests
are equal in the model exactly when the code mixes the same bytes with the same
parameters, tags and shifts in the same order; what is left to the arithmetic of
the products is outside this model, and the arithmetic of the polynomial has a
module of its own.

The geometry is a parameter: `WordSize`, `ChunkSize`, `BlockChunks`,
`BlockBytes`, `ShortHashShift` under `GeometryAssumption` (8, 16, 16, 256 and 4
in the code).  The length tag is the size modulo the size of a block, as in
`(uint8_t)n_bytes`.

### Reference and promise (`UmashReference`, `UmashStream`)

`UmashReference` is `chunk_bytes` to `umash` of `umash_reference.py`, generators
turned into functions of an index.  `UmashStream` is the abstract specification:
a stream is set up, fed, and digested, and the digest is the reference's for the
bytes fed so far.  `UmashSink!ImplementsStream` is the refinement, with
`wanted <- sink.hash_wanted`.

### Incremental hashing (`UmashKernels`, `UmashSink`)

| Model | Code |
|---|---|
| `sink` | `struct umash_sink`, field by field |
| `left`, `consumed` | `n_bytes` of `umash_sink_update`, `n_bytes` done by `block_sink_update` |
| `pc` | where the call is: between calls, its loop, the loop of whole blocks, the copy back to `buf` |
| `fed`, `out` | history: bytes fed, last digest |
| `Init`, `Reinit` | `umash_init`, `umash_fp_init`, on new and on used storage |
| `UpdateBuffer`, `UpdateFill` | `umash_sink_update` up to its loop: the update that only fits in the buffer, or fills it |
| `ConsumeChunk` | an iteration that goes through `buf` (`sink_consume_buf`) |
| `EnterBlocks`, `NextBlock`, `SaveTail` | `block_sink_update`: multiple blocks, one block per iteration, then the tail copied to `buf` |
| `FinishUpdate` | the end of `umash_sink_update` |
| `Digest` | `umash_digest`, `umash_fp_digest`: on a copy, which is flushed |

A call is cut at its loop iterations so that the invariants also hold inside.
The fairness, `WF(Continue)`, says that a call that has started runs: nothing
else happens to its thread.  It is what `UpdateReturns` needs; the abstract stream
has none.  The loops of `oh_varblock` and
`oh_varblock_fprint` are folded into `UmashKernels`.

### One-shot hashing (`UmashOneShot`)

`call` is the entry point with its size, and whether 256-bit code runs.
`ShortInput`, `MediumInput` and `LongInput` dispatch on the size; a block is a loop of chunks (`MixChunk`, or
`MixWide` which reads two chunks into two lanes), the end of a block is that of
a batch, of a full block or of the last one.  `left` is kept as `n_bytes` is,
including for the 1024-byte batch, whose loop is a do-while on an unsigned
count.  256-bit code shifts even and odd chunks by different amounts and
catches up when lanes are merged (`MergeLanes`).

### Dispatch (`UmashDispatch`)

`impl` is the last value stored in each pointer and `seen` the pointers a thread
knows were stored.  As the atomics are relaxed, a load by a thread that does not
know of a store may return either value, and the two stores of one thread may be
seen in either order; a thread never goes back to an older value.  `cpu` is any
answer of CPUID and XGETBV.  Fairness: a thread in a call keeps running.

### Arithmetic, parameters, short inputs (`UmashKeys`)

`UmashKeys` is what a caller does with parameters: fill, derive or generate
them, prepare them until that succeeds, and hash with what is left there.  It
INSTANCEs two components and EXTENDS a third; once parameters are in use, the
struct is forgotten, so that the states of the components do not multiply.

* `UmashParams` is `umash_params_prepare` on any struct of good, zero,
  out-of-field and repeated words: by its caller, again on the result, again
  after a failure, or in the loop of `umash_params_derive`; and `generate_key` of
  the reference.  The stream cipher is a choice of structs.
* `UmashModular` and `PolyAccumulator` are the polynomial.  Words are integers
  modulo `W = 8 * Eighth`, and every operation that can wrap says so.  One
  action absorbs a block with a Horner update, three others are a batch with the
  split accumulator.  Next to the accumulator the model carries what
  `poly_reduce` of the reference computes (`exact`) and the value in the field
  (`field`).  `Square` reduces f^2 in the field of 2^61 - 1 elements, though the
  polynomial works modulo 2^64 - 8: `HashesInField` says this is harmless.
* `UmashShort` is inputs of 0 to 8 bytes, in C and in the reference, and the
  finalizer.  A word has 8 bytes of `ByteBits` bits; shifts, multipliers and
  rotations are parameters, and a word is made of a set of bits (`WordWith`):
  those that differ for an xor, those that were turned for `rotl` of the
  reference, while `rotl64` of the code is two shifts.
  `ShortCollisionIsChance` is what the reference claims of short inputs: those of
  one size never collide, and those of two sizes do for exactly one value of one
  word of the key (one input of each size stands for the others; the lemma
  `OneWordCollides` is about all of them); and the two hashes of an input differ.

## 4. Statistics

### `BufferedIterator`

One thread per iterator, with `pull`, `check`, `put`, `recheck`, then `done` and
the `None` at the end; the reader of `resampled_data_results`, and `__exit__`
with its drain and join, one action per operation of `queue.Queue` and
`threading.Event`.  `Uses` lists how buffers are made: number of iterators,
`inline_eval` (the reader never blocks), `block_on_exit`.  An iterator may raise.

Fairness: threads run, and a stream that was told to stop ends; a reader that
waits for a value takes it, and `__exit__` runs to its end.  The consumer may
never resume the generator.

### `ExactTestSampler`

One stream of requests to `simulate`: the thread in `_update_test_params`, lock
by lock; `mark_cancelled`; the generator with its wait for the first data, the
creation of work units, the scan of the futures, and each yield; the pool, which
completes units in any order.  A request may have parameters that cannot be
unpickled: the exception leaves its sample in place, next to older parameters,
and ends the requests (`LoadsRaises`).  Units created before the generator notices
have that pair, and `ArgsPublished` says that it is the only one that was never
announced.  Fairness: the update thread and the generator run
(requests end, and the consumer asks for values or closes the generator).  The
time-out need not fire, and the pool need not finish anything.

### `ExactTestDriver`, `SamplerServers`

`SamplerServers` is the client's configuration: the user's file, the
repository's when that names no server, the servers that answer a status
request, and the limit on what they run.  It gives every set of samplers with
which a test can start.

`ExactTestDriver` is the loop of `exact_test` (`Count`, and its `CountInline`
and `CountBatch` forms) and of `resampled_data_results`; samplers that read
requests and send batches computed with the plan they have, on streams that may
end or raise; and the threads of the `BufferedIterator` between the two, from
the stream of a sampler (`flight`) to the bounded queue that the generator reads
(`buf`), with the `None` that is dropped when that is full.  A plan is a set of
statistics, a value the set of those it has, and results the set of those that
have one.  Whether a confidence sequence is conclusive is a choice, so every
order in which statistics resolve happens; `Csm` is about that choice.

Fairness: threads are scheduled, and a sampler that has work computes values.
A stream may end or raise at any time, and `ValuesKeepComing` says exactly when a
driver is left waiting then: nothing is evaluated inline, `buf` is empty, and
every thread is gone without a word, after an exception or with its `None`
dropped.  A driver whose stream ends with a `None` returns no result (`result`,
section 7).

### `ExactTestWorker`, `ExactTestSort`

A work unit: `actual_data_results` computes the statistics of the data, and
`_resampled_data_results_1` those of shuffled data.  Statistics are grouped by
the class probability they shuffle with, then by the offsets they add, so that
those in one group share an array; the C functions work in place.
`ExactTestSort` is the C side: `exact_test_shuffle` (draws are choices), the
tagging of observations with their class, `hybrid_sort` with its sample, the
narrowing of the dense range, the counting sort and the merge of the outliers,
and the statistics of the sorted array.  qsort and the order in which outliers and
counts come are operators by rank (`Sorted`, `Nth`, `Splat`); the two phases that
write over the array, `Count` and `Merge`, are steps.
`StatisticsOfClasses` compares each result with its definition on the values of
each class, shuffled and offset for that statistic alone.

### `Xoshiro`

Threads of a process, and a worker forked at any point with a copy of the global
state and of its lock, seed the global generator word by word, take generators
(`xoshiro_get`, which snapshots and long-jumps under the lock) and jump.  A
state is a position on the sequence of a seed, so that sharing random bits
means being twice at one position.

### `Csm`

`CsmFloats` has the floats of `csm.py` as bits: `struct.unpack`, successors,
directed rounding, and the sum of two floats that `sum_update_up` carries.  The
widths are parameters.  `CsmLogs` is a libm, tables that give logarithms and
exponentials to about 2^-21 and then an error of up to 3 ULPs in either direction,
and the bounds that `csm.py` makes of it.  `CsmDriver` is `csm`, with an error at
each of its seven calls, and the loop of `csm_driver`; `CsmBounds` is `_incbeta`
and the bisection of `beta_icdf`, an action per term and per halving; `Csm` is the
calls from outside, `csm_power` included, which is a test whose stream is the
answers of tests.

`BoundsAreConservative` compares what is returned with the exact distribution, in
sums and products of digits (`I`), so that nothing is rounded on that side.  The
code computes each upper bound with a margin, and the property has the margin
that is left: with floats of 8 bits the bounds still hold for a threshold that
is 6 ULPs less, and not for one that is 8 less.  Hence a mistake of one ULP, such
as a product that is not rounded up, stays inside of the margins of the others and is
not seen, and the errors of libm are (`log_up_Nearest` breaks the property).

Log lines and the error estimate of `beta_icdf` are left out.  The constants are
scaled with the width: `BETA_ICDF_EPS` must exceed an ULP at 1 and the square of
it the least float, as it does in the code, or the bisection would not end.

`BisectionEnds` says that a bisection cannot have infinitely many steps without
ending; that it has the next one is the computation's running on.

### `UmashTraces`, `UmashBench`

Processes read a trace through a cache that the first of them downloads: the
file is written in place, piece by piece, and any process may die, lose its
connection, or start over.  A file that two processes write can have holes.
`UmashBench` adds `compare_inputs` on the lengths of that trace: passes over
shuffled lists, blocks in one reused buffer, versions called in random order.
A timing is the version and the length it measures.  `calls` holds the numbers
of the lines that a reader has found to be calls, and `Record` is one iteration
of `_update_results`, so that a block is half in the results at some points.

## 5. Runs

| Run | Checks | Shows | States |
|---|---|---|---|
| `sink_scaled` | `DigestIsReference`, `BlockSinkAsserts`, `WindowInv`, `SinkInv`, `TypeOK`, `ImplementsStream`, `UpdateReturns` | every way of cutting streams of up to 64 bytes | 9 thousand |
| `one_shot` | `ResultIsReference`, `ReadsInside` | results are the reference's and no load leaves the message | 65 thousand |
| `dispatch` | `RunsSupported`, `CallReturns` | racing first calls run what the CPU supports, pick at most once, and return | 9 thousand |
| `keys` | `SuccessIsUsable`, `Idempotent`, `WordsAreTheCallers`, `HashIsReference`, `HashesInField`, `ShortIsReference`, `ShortCollisionIsChance` | what is said to be prepared is, and hashes with it are exact | 33 thousand |
| `buffered_inline` | `NothingLost`, `WorkersFinish`, `ExitReturns` | no value lost, threads end, `__exit__` returns | 504 thousand |
| `buffered_blocking` | `ReaderWakesUp` (violated) | section 7 | 1 thousand |
| `sampler` | `ArgsComplete`, `ArgsPublished`, `UnitsOnce`, `EndsWithRequests` | work units get complete, consistent arguments, once, and the generator ends | 584 thousand |
| `driver` | `EveryUnresolvedIsSampled`, `TrialsAreSeen`, `ValuesKeepComing`, `SamplersReleased` | late batches never lack a value, trials are exact, when the driver is left waiting, and that no sampler is | 581 thousand |
| `worker` | `SortSorts`, `StatisticsOfClasses` | sort and statistics, whatever is drawn and shared | 1.3 million |
| `xoshiro` | `NoSharedStream` | no two users read the same random bits, or half a seed | 597 thousand |
| `csm` | `SumIsAbove`, `StopIsJustified`, `TrialsInBounds`, `BoundsAreConservative`, `BisectionEnds` | sums, verdicts and bounds err on the safe side, trials are as many as asked for, and the bisection ends | 260 thousand |
| `bench` | `ResultsArePaired`, `MeasuresTheTrace` | timings stand under what they measured, and lengths are those of the whole trace | 2.9 million |

Other modules than `UmashSink` state `TypeOK` for the reader: it says which
values the variables range over.

Bounds, and why they are enough.

* `sink_scaled` scales the geometry: 4-byte chunks, 3 chunks per block, a batch
  from 36 bytes on.  64 bytes are a batch and two blocks more, so that every
  path is entered with an empty buffer, a partial one and a full one, before and
  after each of the others.  All sizes of update are allowed, including 0.  The
  proofs remove the bound.
* `one_shot` has the constants of `umash.h`.  Sizes are all those around the
  thresholds; between two thresholds the code only iterates once more.
* `dispatch` has two threads: a third one sees what the second can see, as
  a thread only knows for each pointer whether it was stored.
* `keys` has 8-bit words: 2^64 - 8 becomes 248, and 2^61 - 1 the prime 31.
  Preparations leave every multiplier that is not 0, and OH gives words at 0, 1,
  the middle, and both sides of each threshold of the code.  The state is an
  accumulator and not a list of blocks, so sequences are unbounded.  A key has 13
  OH words, of which up to three are bad when two can be replaced; masking and
  both forms of zero happen.  All messages of up to 8 bytes of one bit are
  compared, with every multiplier of the finalizer scaled to 8 bits.
* `buffered_inline` has one or two iterators of four values and `BUFFER_SIZE` 1,
  a queue of 3 or 5 places: it fills up with several threads waiting.
  `buffered_blocking` has one iterator of five values.
* `sampler` has two requests, so that the second one changes arguments that are
  in use, one process, and three units: one runs while two wait.
* `driver` has two statistics, the local sampler and one server, every content of
  both files, and four values in batches of two, with two batches on their way.
  Statistics are tested after the third value, the first one of a batch: one of
  them, both or none is resolved while the rest of that batch, computed with the
  older plan, is still to be counted.  `buf`, whose `BUFFER_SIZE` of 4 becomes 0, has
  two places for each sampler: with one sampler it is full when its stream ends,
  the `None` is dropped, and the driver waits with both batches counted.  More
  judgements and batches are left to the proofs of the two invariants.
* `worker` has up to six observations on every split, with ties, and two plans:
  one whose statistics share the shuffled and the sorted array, one that shares
  nothing and includes a class probability of 0.  `SmallSize` and `DenseShare` are scaled so
  that dense ranges are empty, single, wide, and leave outliers above them.
* `xoshiro` has two threads in the first process and one in a forked one, three
  seeds, one generator between seedings, and two substreams of each.
* `csm` has 8 bits of fraction, so that most operations round.  Sums have three
  terms of 17 of every magnitude and sign.  Three of the epsilons are just next
  to a level, where a single missing correction stops too early; streams have up
  to 8 trials.
  Bounds are computed after up to 4 trials, at every fourth float between 0.025 and
  0.05 as thresholds, so that some are next to what the distribution is in a middle
  of the bisection.  The series is looked at in every third iteration, where the
  code waits for 128, and given up after 4 when it is close enough and 6 when it is
  not (1000, and 10000 and more, in the code): it goes on unlooked-at, stalls, and
  is given up in both ways.
* `bench` has two processes, a trace of five lines of two threads, one of which
  is not a call, and blocks of two lengths: the last one is short, and lists are
  passed over two or more times.

`CHECK_DEADLOCK FALSE` is set where the program ends, or where one of the
hazards says that it may stop.

Constants bound the models in the guards: `MaxBytes` (bytes of a stream),
`Items`, `MaxRequests`, `MaxUnits`, `MaxSeen`, `MaxFlight`, `MaxRunning`,
`MaxJumps`, `MaxGets`, `MaxTerms`, `Longest` (trials of a test), `BoundTrials`.

Fairness is stated where a liveness property needs it, and says only that a
thread, or a call that has started, runs on; the sections on the modules say
what may still never happen.

## 6. Proofs

Each theorem holds for every value of the constants that satisfies the
assumption of its module.

| Theorem | Says |
|---|---|
| `UmashSinkProofs!Inductive` | `IndInv` holds of every reachable state of `UmashSink` |
| `UmashSinkProofs!TypeCorrect`, `SinkCorrect`, `WindowCorrect` | `[]TypeOK`, `[]SinkInv`, `[]WindowInv` |
| `UmashSinkProofs!AssertionsHold` | `[]BlockSinkAsserts`: the assertions of the C code hold when they are reached |
| `UmashSinkProofs!DigestCorrect` | `[]DigestIsReference`: every digest is the reference's |
| `UmashSinkProofs!SinkImplementsStream` | `ImplementsStream`: the refinement to `UmashStream`, which states no fairness |
| `UmashOneShotProofs!OneShotIsReference` | `[]ResultIsReference`: one call returns the reference's hash or fingerprint |
| `UmashOneShotProofs!OneShotReadsInside` | `[]ReadsInside`: no load of a chunk leaves the message |
| `UmashKeysProofs!PreparedIsUsable`, `PreparationIsIdempotent`, `PreparationKeepsWords` | `[]SuccessIsUsable`, `[]Idempotent`, `[]WordsAreTheCallers` |
| `UmashKeysProofs!AccumulatorIsReference`, `ValueIsInField` | `[]Poly!AccumulatorIsExact`, `[]HashesInField` |
| `UmashKeysProofs!HashMatchesReference` | `[]HashIsReference`: the accumulator and the finalizer, which the inverse of the tests undoes |
| `UmashKeysProofs!ShortHashIsReference`, `ShortCollisionsAreChance` | `[]ShortIsReference`, `[]ShortCollisionIsChance` |
| `UmashOneShotProofs!SupportedKernelsRun` | `[]RunsSupported` |
| `ExactTestDriverProofs!UnresolvedAreSampled`, `TrialsCountValues` | `[]EveryUnresolvedIsSampled`, `[]TrialsAreSeen` |
| `ExactTestDriverProofs!BufferLosesNothing` | `[]NothingLost` of `BufferedIterator` |
| `ExactTestDriverProofs!TrialsAreInBounds` | `[]TrialsInBounds` of `Csm`, for streams of any length |
| `ExactTestSamplerProofs!UnitsHaveArguments`, `UnitsHavePublishedArguments`, `UnitsAreSomewhereOnce` | `[]ArgsComplete`, `[]ArgsPublished`, `[]UnitsOnce` |
| `ExactTestWorkerProofs!SortIsCorrect` | `[]SortSorts`: the hybrid sort sorts, whatever it samples and counts |
| `ExactTestWorkerProofs!DealIsExact` | `[]DealtAnew`: a shuffle deals out the data, in pairs with the higher in A when the probability is 0 |
| `ExactTestWorkerProofs!EveryStatisticIsComputed` | `[]AllComputed`: no statistic is without a result in the end, however they were grouped |
| `ExactTestWorkerProofs!SubstreamsAreReadOnce` | `[]NoSharedStream` of `Xoshiro` |
| `UmashBenchProofs!MeasuresTheWholeTrace`, `VersionsArePaired` | `[]MeasuresTheTrace`, `[]ResultsArePaired` |

In each proof module `IndInv` is the inductive invariant, and a theorem says
`Spec => []IndInv` (`OneShotInvariant`, `KeysInvariant`, `DriverInvariant`,
`SamplerInvariant`, `XoshiroInvariant`, `BenchInvariant`); that of dispatch is
`DispatchInv` (`DispatchInvariant`), that of the buffer `BufferInv`, that of work
units `Inv` (`WorkerInvariant`), that of confidence sequences `CsmInv`
(`CsmInvariant`).  There is a lemma per action; properties of states follow from
these alone.  TLC checked the new
invariants on the instances of section 5 before they were proved.

### What is assumed

* Geometry (`GeometryAssumption`): a chunk is two words, a block is at least two
  chunks; a batch is at least a block (`SinkAssumption`, `OneShotAssumption`);
  for one-shot hashing a block has an even number of chunks, as 256-bit code
  takes two at a time.  The real constants are one instance.
* Arithmetic (`KeysAssumption`): a word is eight times `Eighth`, which is at
  least 4, so that the modulus is `8 * Eighth - 8` and the field has
  `Eighth - 1` elements.  Nothing needs the field's size to be prime.
* Words (`ShortAssumption`): the number of bits of a word is a power of two,
  which the inverse of the finalizer needs; shifts are at least 1 and rotations
  at least 0, and neither is longer than a word; multipliers are odd.  It also
  says that powers of two are natural numbers, each twice the one before, and
  that `Range64` is the range of words: provers know nothing of powers, and TLC
  evaluates it.
* Sizes of pools, bounds on requests, units, values and jumps are natural
  numbers, and sets of threads, processes, samplers and statistics are any sets.
* The arguments of `csm_driver` (`CsmDriverAssumption`) satisfy its assertions;
  `min_count` and `max_count` are any integers, or not given.

### Why each invariant is needed

*Incremental hashing.*  `DigestIsReference` says nothing of the sink between
digests.  The strengthening is
`IndInv == TypeOK /\ PositionInv /\ WindowInv /\ Coherent(sink)`:

* `PositionInv` relates the bytes in the sink, `fed`, `left` and `consumed`;
* `WindowInv` says that `buf` holds the bytes before the buffered ones that the
  redundant read of the last chunk needs;
* `Coherent` says that polynomials, OH accumulators and counters are the
  functions of the number of consumed bytes that the reference prescribes.  The
  twisted accumulator is the delicate part: the code defers one product
  (`prev`), so its value is the reference's shifted sum up to the previous
  chunk.

`UmashKernelsProofs` has the facts about blocks: the loop over words in
`oh_varblock` produces the products of the reference's chunks, with their
shifts, for full, partial and medium blocks.  `UmashSinkProofs` describes each
operation on the struct by its effect on the fields, proves that the effect
keeps `Coherent`, has one lemma per action, and then follows the flush of a
digest, by the cases of its size, to the reference's value.

*One-shot hashing.*  The result is only there at the end, so the invariant says
what each loop has done: `PositionInv` how many blocks are behind `data` and how
many bytes the batch, the full blocks and the last one leave; `PolyInv` that the
polynomials hold the reference's values of those blocks; `ChunksInv` and
`LanesInv` that the accumulators hold the products of the chunks so far.  In
256-bit code a lane takes every other chunk, whose product is shifted once, by
a count that depends on its place and is the same in both lanes: `LaneTwist`
says with which shift each product is in its lane, and `LaneShifts` that the
shifts made when lanes are merged (two for lane 0, one for lane 1) bring each to
what 128-bit code and the reference have.  The
redundant load of the last chunk is inside the message because a message of more
than one chunk has a whole one before (`PositionInv`, `PairsOfBlock`).

*Parameters.*  `Progress` says that what is behind the index of the loop is
usable, `AgainInv` that a second preparation has changed nothing so far, and
`WordsInv` accounts for each changed word by one that was drawn.  The last needs
a count: the words changed, the candidate included, are never more than
`buf_idx`; it is kept with the library's theorems on cardinality.

*Polynomial.*  `PolyInv` says that the accumulator, or `base + 8 * fixup` when
it is split, is exactly the reference's, and has the residue of `field` modulo
`Eighth - 1`.  Lemmas on residues (`Same`) take `add_mod_fast`, `add_mod_slow`,
`mul_mod_fast` and the split accumulator through their wrapping sums.  This is
where the bounds of the code come from: a hash leaves room below the modulus for
a fixup of at most 3 times 8, so the sum that follows wraps once at most.

*Short inputs and finalizer.*  `VecIsReference` compares the overlapping loads,
size by size.  For collisions `ShortInv` says that the words of a key in use
are distinct, which its preparation has made so.  The rest are facts about words:
two words with the same bits are equal (`SameBits`), and the bits of what
`WordWith` makes are those it was given (`WordWithIs`), both by induction on the
number of bits.  An xor with a shift can be undone from the highest bit down
(`XorShiftIsOneToOne`), a multiplication by an odd number from the lowest up
(`OddFactor`), and the two loads of an input hold all of its bytes
(`VecIsOneToOne`), so that each step of the hash is one-to-one and so is the
hash.  As to the finalizer, a rotation by shifts moves the bits as the
reference's loop does (`Rotl64Is`), and xoring two rotations twice is rotating
twice as far, as the mixed terms cancel (`XorRot2Twice`); after as many
doublings as the width has, rotations are by multiples of it, and what is left
is the accumulator (`InverseIs`).

*Dispatch.*  Threads may read old pointers, so `StoredOnce` says that only the
initial value and the choice are ever in a pointer, and that a thread that knows
of a store finds the choice; `Carried` that what a thread is about to store or
run is the choice; and `Picks` that who has picked knows both stores by the time
it reloads, hence cannot find the initial function again.

*Driver.*  The plan of a batch may be older than several judgements.  `PlansInv`
says that every plan, in the queue of the driver, on its way to a sampler, in
use there, or in a batch or value that comes back, has all statistics that are
*now* unresolved: as they only become fewer (`Wider`), what was good enough
stays so.  `BatchesInv` says that a batch in `flight` or `buf` has the same number of
values of each of its statistics, so that the dicts made of it all have them.

*Buffer.*  `NothingLost` is inductive once the types of the queue are known and
marks of the end are seen to be of no iterator.

*Sampler.*  `DataInv` says what the event `ready` means at each place of the
generator, `PublishedInv` that what can be read outside of the lock was
published, or is half of a request that raised, after which no other is read,
`ArgsInv` that arguments of units are complete and never newer than
those in force, and `UnitsInv` that the four places of units partition them.

*Generators.*  `Ready` and `Source` are the processes whose global state is
taken from next; `SourcesInv` that no two of them have the same seed, which is
what a fork without a new seed would break; `Taken` that every generator in use,
and every substream read, is behind the state it came from; `CursorsInv` and
`DrawsInv` that generators in use are on different parts of a sequence and ahead
of what was read.  `LockInv` and `RetInv` are what the snapshot of
`xoshiro_long_jump` needs.

*Sort and shuffle.*  `SortSorts` is about the array at the end.  On the way
`StageInv` says that it is the shuffled copy, then that copy tagged with
classes, until some values are counted; then `CountInv` says that it starts with
the others, as many under each number as there were, and that the counts are
those of the tagged copy.  That the two parts join is shown by ranks: x has rank
k when fewer than k values are under x, and k at least are under x + 1
(`AtRank`).  What qsort returns has the rank of its place (`SortedIs`); ranks of
the whole are those of the outliers under the dense range, the same shifted by
what was counted above it, and in between the values whose counts add up to the
place (`RanksOfParts`, `CountedIs`); and an array that has the ranks of another
is the same bag in ascending order (`RanksSort`).  The dense range may be any,
empty included: nothing depends on the sample that led to it.  `DealInv` says
that what is being shuffled is the data, as a swap keeps the bag
(`SwapKeepsBag`), which pairs have been flipped, and that the shuffled copy
keeps the pairs for as long as its group lasts; `TodoInv` that the group at work
is one of the plan's.  `ResultsInv` adds that each statistic has a result or is
in a group that is left, which `done` takes as the answer: groups are a partition
of the plan (`GroupedIsAll`), and one is dropped only with results for all of it.

*Confidence sequences.*  `Driven` is what a `csm_driver` is between two trials:
it has made as many as its arguments allow, and while its loop runs, they ask for
another.  `CsmInv` says so of the
test, and of the test on tests of `csm_power`, which starts the inner one again
for each trial of the outer.

*Benchmark.*  `TraceInv` says that a reader of a compressed trace has every line
before its place, though the file is truncated and rewritten under it: it raises
on a piece that is missing, and never passes it.  `MeasureInv` then follows from
what `full_call_sizes` returns, which needs that a finite set with a strict
total order has an increasing enumeration (`Enumeration`), and is kept because a
shuffle is a bijection (`TimesOfShuffled`).  For the results, `TallyInv` gives
their number at every point of the three loops: those of the blocks before
(`DoneBefore`, a function of `passes` and `block`) and what is `Done` of the
block for each version.  The two versions differ by exactly what is not done of
the block, so that they agree when it ends, whatever the lists were shuffled to.
The sum of the results is a fold; its lemmas (`SumsExist` to `TotalOfOneMore`)
are proved by induction over sets of natural numbers (`SetOfNaturals`, from the
library's `WFMin`), as the induction theorems with an operator are out of reach.

### What is only model-checked

* Liveness (`UpdateReturns`, `CallReturns`, `WorkersFinish`, `ExitReturns`,
  `EndsWithRequests`, `ValuesKeepComing`, `SamplersReleased`, `BisectionEnds`): out
  of the prover's reach.
* `StatisticsOfClasses`, but for its first two parts, `DealtAnew` and
  `AllComputed`: the values of statistics are folds over sequences and a
  recursive function, defined by induction over data.
* `SumIsAbove`, `StopIsJustified`, `BoundsAreConservative`: roundings of numbers
  with exponents, sums of any length, binomial coefficients that the library
  computes by recursion.

## 7. Findings and divergences

One is shown by a run, `buffered_blocking`: `_pull_from_iterator` says "Make sure
the reader wakes up.  If the queue is full, the reader should soon grab an item
and notice that the queue is done."  It does not look at `done`: a `None` that does
not fit is dropped, and a reader that blocks (`inline_eval` false) empties the
queue and waits forever.

Met while modelling, and stated by no property that fails:

* A request whose parameters cannot be unpickled replaces the sample first and
  raises then (`t/exact_test_sampler.py:379-385`): work units created before `done`
  is set pair its sample with older parameters.  `ArgsPublished` has the case as
  its exception.
* The docstring of `exact_test` says "Returns a dict of results."
  (`t/exact_test.py:219`); when the stream of a sampler ends before every statistic
  has converged, the generator returns (`t/exact_test_sampler.py:573-574`), the loop
  over its values ends, and `exact_test` returns `None`.
* The docstring of `csm_driver` says "Perform at least min-count iterations and at
  most max-count" (`t/csm.py:726-727`); the loop goes on while `n <= min_count`
  before it looks at `max_count` (`t/csm.py:778-783`), and makes `min_count + 1` of
  them when `min_count >= max_count`.  `TrialsInBounds` states the upper bound for
  the other arguments only; `TestExperiments` has both kinds.
* `csm_driver` makes one trial when `max_count` is 0 (nothing asserts that it is
  not), and an empty stream divides by zero.
* `is_acceptable_multiplier` of the reference rejects 1, and its docstring does
  not; `umash_params_prepare` accepts it.
* `sampler_servers.ini.dist:16-18` says to set `local_parallelism` to use one
  process only, but a user's file that names no server is ignored as a whole
  (`t/exact_test_sampler_client.py:88-90`).
* `find_dense_range` stores the minimum twice in its sample, so that the first
  gap is always 0 and the low end of the range never moves: outliers are only
  found above.
* The docstring of quantiles says `0 <= q <= 1`; the C code returns NaN for 1.
* `compare_inputs` returns a dict with one entry when both versions have the
  same suffix, as two builds of one commit do.  The count it records leaves the
  first block out, and can be below `min_count`.
* A trace that was cut short stays in the cache and is never replaced.  A
  compressed one raises from then on (`MeasuresTheTrace`); one that is not is
  taken for the whole trace.
* With `block_on_exit` and several iterators, one thread may take both places
  freed by a drain and `__exit__` waits for another one forever (the repository
  only uses several iterators with `block_on_exit=False`); an iterator that
  raises ends its thread without marking the end; a worker forked while the lock
  of the generator is held waits for it forever.

## 8. Not modelled

* `salsa20_stream`: a fixed sequence of additions, rotations and xors; test
  vectors decide it.
* Carry-less and ENH multiplications: products are symbols.
* `bench/runner.c`: calls that return a timing.  The set-up of gRPC and
  serialisation: a remote stream ends or fails like any other.
* Divisions by the number of values in a class, which are in floating point;
  log lines of `csm.py`; prefetching and the inline assembly of the same
  additions; batch sizes and delays of the sampler, which only change its
  timing.
* The rest of `umash_reference.py` is prose, and `gfmul`, which is a symbol here.
* `example.c` and the lists of substrings.
