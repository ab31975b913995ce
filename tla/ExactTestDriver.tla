---------------------------- MODULE ExactTestDriver ----------------------------
(***************************************************************************)
(* exact_test of t/exact_test.py with the generator it reads,              *)
(* resampled_data_results of t/exact_test_sampler.py: the driver counts    *)
(* values, judges statistics and queues a new plan when some are resolved; *)
(* the generator evaluates a plan inline, sends it to every sampler, and   *)
(* hands over their batches, which may have been computed with older plans *)
(* and come in any order.  A thread per sampler pulls its batches into the *)
(* bounded queue of a BufferedIterator, the buf the generator reads.       *)
(*                                                                         *)
(* A plan is the set of statistics it computes, a value the set of those   *)
(* it has, a batch (a ResultSet) has for each statistic the number of its  *)
(* values, and results are the set of statistics that have one.  Whether   *)
(* a test of csm is conclusive is a choice.                                *)
(***************************************************************************)
EXTENDS SamplerServers, Sequences, FiniteSetsExt, Functions

CONSTANTS
    Statistics,
    first_test_every,  \* 250
    GrowthAfter,       \* 40
    Growth,            \* 10
    BatchSizes,        \* values in a batch
    MaxSeen,           \* bound on the values of a run
    BufferSize,        \* BUFFER_SIZE of BufferedIterator, 4
    MaxFlight          \* bound on the batches that are sent and not yet taken

ASSUME DriverAssumption ==
    /\ Statistics # {} /\ first_test_every \in Nat \ {0}
    /\ GrowthAfter \in Nat \ {0} /\ Growth \in Nat \ {0}
    /\ BatchSizes \subseteq Nat \ {0}
    /\ MaxSeen \in Nat /\ BufferSize \in Nat /\ MaxFlight \in Nat

Samplers == Servers \cup {Local}

VARIABLES
    ret, trials, seen, test_every, grouped_stats_queue,  \* exact_test
    result,                  \* and what it returned
    pc, cached_stats,        \* resampled_data_results
    samplers, inline_eval,   \* what get_sampler_servers returned
    values,                  \* values still to be yielded, the first one first
    request_queues,
    reading,   \* the samplers that wait for requests,
    sample,    \* have the data,
    plan,      \* and the parameters;
    stream,    \* whether the stream of batches is "open" or has "ended",
    flight,    \* and the batches sent on it that are not in buf yet;
    thread,    \* where the thread that pulls it is: in _pull_from_iterator, after
               \* its None went into buf ("told") or was dropped ("silent"), or
               \* after an exception ("raised")
    buf, buf_done  \* the queue and the event of the BufferedIterator

test_vars == <<ret, trials, seen, test_every, grouped_stats_queue, result>>
config_vars == <<samplers, inline_eval>>
sampler_vars == <<reading, sample, plan, stream>>
thread_vars == <<thread, buf_done>>
vars == <<test_vars, pc, cached_stats, config_vars, values, request_queues, sampler_vars,
          thread_vars, flight, buf>>

Nothing == {}  \* no plan yet
-----------------------------------------------------------------------------
Unresolved == Statistics \ ret

\* Mistake: the plan has the statistics that are resolved.
Plan_Resolved(known) == known

\* [stat for stat in statistics if stat.name not in ret]
Plan(known) == Statistics \ known

Data == [kind |-> "data"]
Parameters(stats) == [kind |-> "parameters", parameters |-> stats]
EndOfRequests == [kind |-> "end"]

\* Mistake: only one sampler gets the new plan.
Receivers_One(queues) == {CHOOSE s \in queues : TRUE}

\* for reqqueue in request_queues
Receivers(queues) == queues

Put(queues, request) ==
    [s \in Samplers |-> IF s \in samplers /\ s \in Receivers(queues)
                        THEN Append(request_queues[s], request) ELSE request_queues[s]]

\* grouped_statistics_fn: one plan is taken from the queue, if there is one, and
\* sent to the samplers.
TakePlan ==
    IF grouped_stats_queue = <<>>
    THEN UNCHANGED <<grouped_stats_queue, cached_stats, request_queues>>
    ELSE /\ cached_stats' = Head(grouped_stats_queue)
         /\ grouped_stats_queue' = Tail(grouped_stats_queue)
         /\ request_queues' = Put(samplers, Parameters(cached_stats'))

\* Statistics that are NaN on the actual data are resolved at once.
Init ==
    /\ \E nans \in SUBSET Statistics :
        /\ ret = nans
        /\ IF nans = Statistics
           THEN pc = "returned" /\ result = "dict" /\ grouped_stats_queue = <<>>
           ELSE /\ pc = "configure" /\ result = "none"
                /\ grouped_stats_queue = <<Statistics \ nans>>
    /\ trials = [n \in Statistics |-> 0] /\ seen = 0 /\ test_every = first_test_every
    /\ cached_stats = Nothing /\ values = <<>>
    /\ samplers = {} /\ inline_eval = TRUE
    /\ request_queues = [s \in Samplers |-> <<>>]
    /\ reading = {} /\ sample = {} /\ plan = [s \in Samplers |-> Nothing]
    /\ stream = [s \in Samplers |-> "open"] /\ flight = [s \in Samplers |-> <<>>]
    /\ thread = [s \in Samplers |-> "pull"] /\ buf = <<>> /\ buf_done = FALSE
-----------------------------------------------------------------------------
(* The generator: resampled_data_results. *)

Configure ==
    /\ pc = "configure"
    /\ \E setting \in Settings :
          samplers' = setting.samplers /\ inline_eval' = setting.inline_eval
    /\ request_queues' = [s \in Samplers |-> IF s \in samplers' THEN <<Data>> ELSE <<>>]
    /\ pc' = "open"
    /\ UNCHANGED <<test_vars, cached_stats, values, sampler_vars, thread_vars, flight, buf>>

\* The first plan is waited for; then the streams are opened.
Open ==
    /\ pc = "open" /\ grouped_stats_queue # <<>>
    /\ TakePlan
    /\ reading' = samplers
    /\ pc' = IF inline_eval THEN "inline" ELSE "get"
    /\ UNCHANGED <<ret, trials, seen, test_every, result, config_vars, values,
                   sample, plan, stream, thread_vars, flight, buf>>

\* serial_generator computes one value, with the last plan it took.
Inline ==
    /\ pc = "inline"
    /\ TakePlan
    /\ values' = <<cached_stats'>>
    /\ pc' = "yieldInline"
    /\ UNCHANGED <<ret, trials, seen, test_every, result, config_vars, sampler_vars,
                   thread_vars, flight, buf>>

\* Mistake: the last dict misses values.
DictsOf_Short(batch) ==
    [i \in 1 .. Max({batch[n] : n \in DOMAIN batch}) |-> {n \in DOMAIN batch : i < batch[n]}]

\* The values of a batch: lists of values become a list of dicts.
DictsOf(batch) ==
    [i \in 1 .. Max({batch[n] : n \in DOMAIN batch}) |-> {n \in DOMAIN batch : i <= batch[n]}]

\* None, in buf: a batch without results.
EndMark == [n \in {} |-> 0]

\* buf.get(block=not inline_eval)
GetBatch ==
    /\ pc = "get" /\ buf # <<>> /\ Head(buf) # EndMark
    /\ values' = DictsOf(Head(buf))
    /\ buf' = Tail(buf)
    /\ pc' = "yieldBatch"
    /\ UNCHANGED <<test_vars, cached_stats, config_vars, request_queues, sampler_vars,
                   thread_vars, flight>>

\* queue.Empty
GetEmpty ==
    /\ pc = "get" /\ buf = <<>> /\ inline_eval
    /\ pc' = "inline"
    /\ UNCHANGED <<test_vars, cached_stats, config_vars, values, request_queues, sampler_vars,
                   thread_vars, flight, buf>>

\* None: the generator returns, and so does exact_test, without a result.
GetNone ==
    /\ pc = "get" /\ buf # <<>> /\ Head(buf) = EndMark
    /\ buf' = Tail(buf)
    /\ pc' = "close"
    /\ UNCHANGED <<test_vars, cached_stats, config_vars, values, request_queues, sampler_vars,
                   thread_vars, flight>>

\* Mistake: the requests of a closed generator do not end.
Closed_Open(queue) == queue

\* Both finally clauses put None.
Closed(queue) == queue \o <<EndOfRequests, EndOfRequests>>

\* self.BUFFER_SIZE + 2 * len(self.iterators)
BufferFull == Len(buf) >= BufferSize + 2 * Cardinality(samplers)

\* put_nowait(None)
PutMark == IF BufferFull THEN buf ELSE Append(buf, EndMark)

\* for worker in self.workers: for _ in self.workers: self.queue.get_nowait()
Drained(queue) == SubSeq(queue, Cardinality(samplers) * Cardinality(samplers) + 1, Len(queue))

\* The generator ends by itself or is closed when exact_test returns: it tells the
\* samplers, and leaves the BufferedIterator without waiting for its threads
\* (BufferedIterator has the steps of its __exit__).
Close ==
    /\ pc = "close"
    /\ request_queues' = [s \in Samplers |-> IF s \in samplers THEN Closed(request_queues[s])
                                             ELSE request_queues[s]]
    /\ buf_done' = TRUE
    /\ buf' = Drained(PutMark)
    /\ pc' = "returned"
    /\ UNCHANGED <<test_vars, cached_stats, config_vars, values, sampler_vars, thread, flight>>

-----------------------------------------------------------------------------
(* The loop of exact_test. *)

\* The tests of lte_actual and gte_actual of some of the statistics are conclusive:
\* _significance_test adds their results.
Conclusive(statistics) == SUBSET statistics

\* len(ret) == len(actual_stats)
Converged(known) == known = Statistics

\* One value is counted; now and then, the statistics are tested, and what is
\* left of them is the next plan.  `after` is where the generator resumes.
Count(after) ==
    /\ seen < MaxSeen
    /\ trials' = [n \in Statistics |-> trials[n] + (IF n \in Head(values) THEN 1 ELSE 0)]
    /\ seen' = seen + 1
    /\ values' = Tail(values)
    /\ IF seen' % test_every # 0
       THEN /\ pc' = after
            /\ UNCHANGED <<ret, test_every, grouped_stats_queue, result>>
       ELSE \E new \in Conclusive(Unresolved) :
            /\ test_every' = IF seen' >= GrowthAfter * test_every
                             THEN Growth * test_every ELSE test_every
            /\ ret' = ret \cup new
            /\ grouped_stats_queue' = IF new = {} THEN grouped_stats_queue
                                      ELSE Append(grouped_stats_queue, Plan(ret'))
            /\ IF Converged(ret')
               THEN pc' = "close" /\ result' = "dict"
               ELSE pc' = after /\ UNCHANGED result
    /\ UNCHANGED <<cached_stats, config_vars, request_queues, sampler_vars, thread_vars,
                   flight, buf>>

CountInline == pc = "yieldInline" /\ Count("get")

\* After the last value of a batch, a new plan is looked for.
CountBatch ==
    /\ pc = "yieldBatch"
    /\ Count(IF Len(values) > 1 THEN "yieldBatch" ELSE "update")

UpdatePlan ==
    /\ pc = "update"
    /\ TakePlan
    /\ pc' = "get"
    /\ UNCHANGED <<ret, trials, seen, test_every, result, config_vars, values, sampler_vars,
                   thread_vars, flight, buf>>

-----------------------------------------------------------------------------
(* The samplers: see ExactTestSampler. *)

SamplerReads(s) ==
    /\ s \in reading /\ request_queues[s] # <<>>
    /\ LET request == Head(request_queues[s])
       IN  /\ sample' = IF request.kind = "data" THEN sample \cup {s} ELSE sample
           /\ plan' = IF request.kind = "parameters"
                      THEN [plan EXCEPT ![s] = request.parameters] ELSE plan
           /\ reading' = IF request.kind = "end" THEN reading \ {s} ELSE reading
           /\ stream' = IF request.kind = "end" THEN [stream EXCEPT ![s] = "ended"] ELSE stream
    /\ request_queues' = [request_queues EXCEPT ![s] = Tail(request_queues[s])]
    /\ UNCHANGED <<test_vars, pc, cached_stats, config_vars, values, thread_vars, flight, buf>>

\* _generate_in_parallel_worker: every value has every statistic of the plan.
ResultSet(stats, size) == [n \in stats |-> size]

\* The thread is in the loop of _pull_from_iterator.
Pulling(s) == thread[s] \in {"pull", "put", "recheck"}

SamplerSends(s) ==
    /\ s \in sample /\ plan[s] # Nothing /\ stream[s] = "open" /\ Pulling(s)
    /\ Len(buf) + Cardinality(UNION {{r} \X DOMAIN flight[r] : r \in Samplers}) < MaxFlight
    /\ \E size \in BatchSizes :
          flight' = [flight EXCEPT ![s] = Append(@, ResultSet(plan[s], size))]
    /\ UNCHANGED <<test_vars, pc, cached_stats, config_vars, values, request_queues,
                   sampler_vars, thread_vars, buf>>

\* A sampler waits too long for its data, or is shut down.
StreamEnds(s) ==
    /\ s \in samplers /\ pc \notin {"configure", "open"} /\ stream[s] = "open"
    /\ stream' = [stream EXCEPT ![s] = "ended"]
    /\ UNCHANGED <<test_vars, pc, cached_stats, config_vars, values, request_queues,
                   reading, sample, plan, thread_vars, flight, buf>>

-----------------------------------------------------------------------------
(* The threads of the BufferedIterator: _pull_from_iterator. *)

\* The loop ends, and with it the streams of the other threads; what is still to
\* come on this one is lost.
Leave(s) ==
    /\ thread' = [thread EXCEPT ![s] = "sentinel"]
    /\ buf_done' = TRUE
    /\ flight' = [flight EXCEPT ![s] = <<>>]

\* for value in iterator: if self.done.is_set(): break
ThreadPulls(s) ==
    /\ thread[s] = "pull"
    /\ flight[s] # <<>> \/ stream[s] = "ended"
    /\ IF flight[s] = <<>> \/ buf_done THEN Leave(s)
       ELSE /\ thread' = [thread EXCEPT ![s] = "put"]
            /\ UNCHANGED <<buf_done, flight>>
    /\ UNCHANGED buf

\* self.queue.put(value) waits for a place.
ThreadPuts(s) ==
    /\ thread[s] = "put" /\ ~BufferFull
    /\ buf' = Append(buf, Head(flight[s]))
    /\ flight' = [flight EXCEPT ![s] = Tail(@)]
    /\ thread' = [thread EXCEPT ![s] = "recheck"]
    /\ UNCHANGED buf_done

ThreadChecks(s) ==
    /\ thread[s] = "recheck"
    /\ IF buf_done THEN Leave(s)
       ELSE /\ thread' = [thread EXCEPT ![s] = "pull"]
            /\ UNCHANGED <<buf_done, flight>>
    /\ UNCHANGED buf

\* The None of a thread is dropped when there is no place for it.
ThreadTells(s) ==
    /\ thread[s] = "sentinel"
    /\ thread' = [thread EXCEPT ![s] = IF BufferFull THEN "silent" ELSE "told"]
    /\ buf' = PutMark
    /\ UNCHANGED <<buf_done, flight>>

Thread(s) ==
    /\ ThreadPulls(s) \/ ThreadPuts(s) \/ ThreadChecks(s) \/ ThreadTells(s)
    /\ UNCHANGED <<test_vars, pc, cached_stats, config_vars, values, request_queues,
                   sampler_vars>>

\* A sampler cannot be reached any more: the stream raises an exception in the
\* thread that pulls it.
StreamRaises(s) ==
    /\ s \in samplers /\ pc \notin {"configure", "open"} /\ thread[s] = "pull"
    /\ thread' = [thread EXCEPT ![s] = "raised"]
    /\ flight' = [flight EXCEPT ![s] = <<>>]
    /\ UNCHANGED <<test_vars, pc, cached_stats, config_vars, values, request_queues,
                   sampler_vars, buf_done, buf>>

Driver ==
    \/ Configure \/ Open \/ Inline \/ GetBatch \/ GetEmpty \/ GetNone \/ Close
    \/ CountInline \/ CountBatch \/ UpdatePlan

Next ==
    \/ Driver
    \/ \E s \in Samplers : \/ SamplerReads(s) \/ SamplerSends(s) \/ Thread(s)
                           \/ StreamEnds(s) \/ StreamRaises(s)

\* Threads are scheduled, and a sampler that has work computes values.
Spec ==
    /\ Init /\ [][Next]_vars
    /\ WF_vars(Driver)
    /\ \A s \in Samplers :
          WF_vars(SamplerReads(s)) /\ WF_vars(SamplerSends(s)) /\ WF_vars(Thread(s))
-----------------------------------------------------------------------------
(* Properties. *)

\* Every plan that is queued, kept, on its way or in use, and every value that
\* is still to be counted, while exact_test needs any.
Plans ==
    Range(grouped_stats_queue) \cup Range(values)
        \cup {DOMAIN batch : batch \in
                 (Range(buf) \cup UNION {Range(flight[s]) : s \in Samplers}) \ {EndMark}}
        \cup {request.parameters : request \in
                 {r \in UNION {Range(request_queues[s]) : s \in Samplers} : r.kind = "parameters"}}
        \cup (({cached_stats} \cup {plan[s] : s \in Samplers}) \ {Nothing})

\* However late a batch comes and whatever plan it was computed with, it has a
\* value for every statistic that is not resolved: exact_test takes it for
\* granted (sample[name], t/exact_test.py:312).
EveryUnresolvedIsSampled == \A p \in Plans : Unresolved \subseteq p

\* So an unresolved statistic has one trial per value seen; csm divides by that
\* number and assumes that no value was left out or counted twice
\* (t/exact_test.py:280, 163).
TrialsAreSeen ==
    /\ \A n \in Unresolved : trials[n] = seen
    /\ \A n \in Statistics : trials[n] <= seen

\* A driver that waits for a batch gets one, or the end of a stream, as long as
\* one sampler has not failed, since that one has the data and a plan.  It is left
\* waiting exactly when it does not evaluate anything inline, buf is empty, and
\* every thread is gone without a word: its stream raised an exception, or ended
\* (its own, or after another one) while buf was full, so that its None was dropped
\* (t/exact_test_sampler.py:478-481, 561, 572).
ValuesKeepComing ==
    pc = "get" ~> \/ pc # "get"
                  \/ ~inline_eval /\ buf = <<>> /\ \A s \in samplers : thread[s] \in {"raised", "silent"}

\* When exact_test has returned, for whichever reason, no sampler still waits for
\* a request: a thread, or a request of a server, would be lost with every test
\* (t/exact_test_sampler.py:581-587).
SamplersReleased == pc = "returned" ~> \A s \in samplers : s \notin reading

=============================================================================
