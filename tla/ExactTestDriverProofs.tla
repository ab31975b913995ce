------------------------- MODULE ExactTestDriverProofs -------------------------
(***************************************************************************)
(* Whatever the samplers, the plans they are late with and the order of    *)
(* their batches, exact_test counts a value of every unresolved statistic  *)
(* at each step.  The buffer between a sampler and the driver loses        *)
(* nothing, and the confidence sequence behind a verdict reads as many     *)
(* trials as it is asked for.                                              *)
(***************************************************************************)
EXTENDS ExactTestDriver, BufferedIterator, Csm, SequenceTheorems, FiniteSetTheorems, TLAPS

\* Plans that have all of `unresolved`, the requests that carry them, and the
\* batches that are computed with them.
Having(unresolved) == {p \in SUBSET Statistics : unresolved \subseteq p}
Requests(unresolved) == {Data, EndOfRequests} \cup {Parameters(p) : p \in Having(unresolved)}
Batches(unresolved) ==
    {ResultSet(p, size) : p \in Having(unresolved) \ {Nothing}, size \in BatchSizes}

\* Where exact_test may still count.
Counting == {"inline", "get", "yieldInline", "yieldBatch", "update"}

ThreadStates == {"pull", "put", "recheck", "sentinel", "told", "silent", "raised"}

\* Batches on the way, and where a thread has one in its hands.
BatchesInv ==
    /\ flight \in [Samplers -> Seq(Batches(Unresolved))]
    /\ buf \in Seq(Batches(Unresolved) \cup {EndMark})
    /\ thread \in [Samplers -> ThreadStates]
    /\ \A s \in Samplers : thread[s] = "put" => flight[s] # <<>>
    /\ samplers \subseteq Samplers

\* The statistics of plans are never fewer than those unresolved, on all the way
\* from the queue of exact_test to the samplers and back.
PlansInv ==
    /\ grouped_stats_queue \in Seq(Having(Unresolved))
    /\ cached_stats \in Having(Unresolved) \cup {Nothing}
    /\ pc \in Counting => cached_stats \in Having(Unresolved)
    /\ request_queues \in [Samplers -> Seq(Requests(Unresolved))]
    /\ plan \in [Samplers -> Having(Unresolved) \cup {Nothing}]
    /\ BatchesInv
    /\ values \in Seq(Having(Unresolved))

CountsInv ==
    /\ trials \in [Statistics -> Nat] /\ seen \in Nat
    /\ pc \in {"yieldInline", "yieldBatch"} => values # <<>>
    /\ TrialsAreSeen

IndInv == PlansInv /\ CountsInv

-----------------------------------------------------------------------------
(* Plans, requests and batches. *)

\* As statistics are resolved, what was good enough still is.
LEMMA Wider ==
    ASSUME NEW u, NEW v, v \subseteq u
    PROVE  /\ Having(u) \subseteq Having(v) /\ Requests(u) \subseteq Requests(v)
           /\ Batches(u) \subseteq Batches(v)
  <1>1. Having(u) \subseteq Having(v)
    BY DEF Having
  <1>2. Requests(u) \subseteq Requests(v)
    BY <1>1 DEF Requests
  <1>3. Batches(u) \subseteq Batches(v)
    BY <1>1 DEF Batches
  <1> QED BY <1>1, <1>2, <1>3

\* Only a test resolves statistics.
LEMMA SameUnresolved == ASSUME UNCHANGED ret PROVE Unresolved' = Unresolved
  BY DEF Unresolved

\* A plan that is taken, and sent, is one of the queue's.
LEMMA TakeKeeps ==
    ASSUME PlansInv, TakePlan
    PROVE  /\ grouped_stats_queue' \in Seq(Having(Unresolved))
           /\ cached_stats' \in Having(Unresolved) \cup {Nothing}
           /\ pc \in Counting \/ grouped_stats_queue # <<>> => cached_stats' \in Having(Unresolved)
           /\ request_queues' \in [Samplers -> Seq(Requests(Unresolved))]
  <1>1. PICK u : u = Unresolved
    OBVIOUS
  <1>2. CASE grouped_stats_queue = <<>>
    BY <1>2 DEF TakePlan, PlansInv
  <1>3. CASE grouped_stats_queue # <<>>
    <2>1. /\ cached_stats' = Head(grouped_stats_queue)
          /\ grouped_stats_queue' = Tail(grouped_stats_queue)
          /\ request_queues' = Put(samplers, Parameters(cached_stats'))
      BY <1>3 DEF TakePlan
    <2>2. grouped_stats_queue \in Seq(Having(u))
      BY <1>1 DEF PlansInv
    <2>3. cached_stats' \in Having(u) /\ grouped_stats_queue' \in Seq(Having(u))
      BY <1>3, <2>1, <2>2, HeadTailProperties
    <2>4. PICK request : request = Parameters(cached_stats')
      OBVIOUS
    <2>5. request \in Requests(u)
      BY <2>3, <2>4 DEF Requests
    <2>6. \A s \in Samplers : request_queues[s] \in Seq(Requests(u))
      BY <1>1 DEF PlansInv
    <2>7. \A s \in Samplers : Append(request_queues[s], request) \in Seq(Requests(u))
      BY <2>5, <2>6
    <2>8. request_queues' \in [Samplers -> Seq(Requests(u))]
      BY <2>1, <2>4, <2>6, <2>7 DEF Put
    <2> QED BY <1>1, <2>3, <2>8
  <1> QED BY <1>2, <1>3

\* A batch gives at least one value, and each has the statistics of its plan.
LEMMA Dicts ==
    ASSUME NEW u, NEW batch \in Batches(u)
    PROVE  DictsOf(batch) \in Seq(Having(u)) /\ DictsOf(batch) # <<>>
  <1>1. PICK p \in Having(u) \ {Nothing}, size \in BatchSizes : batch = ResultSet(p, size)
    BY DEF Batches
  <1>2. size \in Nat \ {0}
    BY DriverAssumption DEF DriverAssumption
  <1>3. DOMAIN batch = p /\ {batch[n] : n \in DOMAIN batch} = {size}
    BY <1>1 DEF ResultSet, Nothing
  <1>4. Max({size}) = size
    BY <1>2 DEF Max
  <1>5. DictsOf(batch) = [j \in 1 .. size |-> p]
    <2>1. \A j \in 1 .. size : {n \in DOMAIN batch : j <= batch[n]} = p
      BY <1>1, <1>3 DEF ResultSet
    <2> QED BY <1>3, <1>4, <2>1 DEF DictsOf
  <1>6. [j \in 1 .. size |-> p] \in Seq(Having(u)) /\ Len([j \in 1 .. size |-> p]) = size
    BY <1>1, <1>2
  <1> QED BY <1>2, <1>5, <1>6, EmptySeq

-----------------------------------------------------------------------------
(* Steps. *)

\* At first every statistic that is not resolved is to be planned.
LEMMA InitHolds == Init => IndInv
  <1> SUFFICES ASSUME Init PROVE IndInv
    OBVIOUS
  <1>1. PICK nans \in SUBSET Statistics :
            /\ ret = nans
            /\ \/ nans = Statistics /\ pc = "returned" /\ grouped_stats_queue = <<>>
               \/ pc = "configure" /\ grouped_stats_queue = <<Statistics \ nans>>
    BY DEF Init
  <1>2. Unresolved = Statistics \ nans
    BY <1>1 DEF Unresolved
  <1>3. /\ trials = [n \in Statistics |-> 0] /\ seen = 0 /\ cached_stats = Nothing /\ values = <<>>
        /\ request_queues = [s \in Samplers |-> <<>>] /\ plan = [s \in Samplers |-> Nothing]
        /\ flight = [s \in Samplers |-> <<>>] /\ thread = [s \in Samplers |-> "pull"] /\ buf = <<>>
    BY DEF Init
  <1>4. grouped_stats_queue \in Seq(Having(Unresolved))
    <2>1. Unresolved \in Having(Unresolved)
      BY <1>2 DEF Having
    <2>2. PICK u, plans : u = Unresolved /\ plans = Having(u)
      OBVIOUS
    <2>3. <<>> \in Seq(plans) /\ <<u>> \in Seq(plans)
      BY <2>1, <2>2
    <2>4. grouped_stats_queue = <<>> \/ grouped_stats_queue = <<u>>
      BY <1>1, <1>2, <2>2
    <2> QED BY <2>2, <2>3, <2>4
  <1>5. BatchesInv
    <2>1. PICK all, S : all = Batches(Unresolved) /\ S = Samplers
      OBVIOUS
    <2>2. <<>> \in Seq(all) /\ <<>> \in Seq(all \cup {EndMark})
      OBVIOUS
    <2>3. flight = [s \in S |-> <<>>] /\ thread = [s \in S |-> "pull"] /\ "pull" \in ThreadStates
      BY <1>3, <2>1 DEF ThreadStates
    <2>4. flight \in [S -> Seq(all)] /\ thread \in [S -> ThreadStates] /\ \A s \in S : thread[s] # "put"
      BY <2>2, <2>3
    <2>5. samplers \subseteq Samplers
      BY DEF Init
    <2> QED BY <1>3, <2>1, <2>2, <2>4, <2>5 DEF BatchesInv
  <1>6. PlansInv
    BY <1>1, <1>3, <1>4, <1>5 DEF PlansInv, Counting
  <1>7. CountsInv
    BY <1>1, <1>2, <1>3 DEF CountsInv, TrialsAreSeen
  <1> QED BY <1>6, <1>7 DEF IndInv

\* Steps of the generator count nothing.
LEMMA CountsKept ==
    ASSUME IndInv, UNCHANGED <<ret, trials, seen>>,
           pc' \in {"yieldInline", "yieldBatch"} => values' # <<>>
    PROVE  CountsInv'
  BY SameUnresolved DEF IndInv, CountsInv, TrialsAreSeen

\* Samplers are found and the data is sent to them.
LEMMA ConfigureKeeps == ASSUME IndInv, Configure PROVE IndInv'
  <1>1. /\ pc' = "open" /\ UNCHANGED <<test_vars, cached_stats, values, plan, flight, buf, thread>>
        /\ request_queues' = [s \in Samplers |-> IF s \in samplers' THEN <<Data>> ELSE <<>>]
    BY DEF Configure, sampler_vars, thread_vars
  <1>5. samplers' \subseteq Samplers
    BY DEF Configure, Settings, get_sampler_servers, Answering, Samplers
  <1>2. Unresolved' = Unresolved /\ UNCHANGED <<ret, trials, seen, grouped_stats_queue>>
    BY <1>1, SameUnresolved DEF test_vars
  <1>3. request_queues' \in [Samplers -> Seq(Requests(Unresolved))]
    <2>1. PICK requests : requests = Requests(Unresolved)
      OBVIOUS
    <2>2. <<>> \in Seq(requests) /\ <<Data>> \in Seq(requests)
      BY <2>1 DEF Requests
    <2> QED BY <1>1, <2>1, <2>2
  <1>4. PlansInv'
    BY <1>1, <1>2, <1>3, <1>5 DEF IndInv, PlansInv, BatchesInv, Counting
  <1> QED BY <1>1, <1>2, <1>4, CountsKept DEF IndInv

\* The first plan, and any later one, is taken.
LEMMA OpenKeeps == ASSUME IndInv, Open PROVE IndInv'
  <1>1. /\ TakePlan /\ grouped_stats_queue # <<>> /\ pc' \in {"inline", "get"}
        /\ UNCHANGED <<ret, trials, seen, values, plan, flight, buf, thread, samplers>>
    BY DEF Open, thread_vars, config_vars
  <1>2. PlansInv'
    BY <1>1, TakeKeeps, SameUnresolved DEF IndInv, PlansInv, BatchesInv
  <1> QED BY <1>1, <1>2, CountsKept DEF IndInv

\* A value is computed with it,
LEMMA InlineKeeps == ASSUME IndInv, Inline PROVE IndInv'
  <1>1. /\ TakePlan /\ pc = "inline" /\ pc' = "yieldInline" /\ values' = <<cached_stats'>>
        /\ UNCHANGED <<ret, trials, seen, plan, flight, buf, thread, samplers>>
    BY DEF Inline, sampler_vars, thread_vars, config_vars
  <1>2. cached_stats' \in Having(Unresolved) /\ values' \in Seq(Having(Unresolved))
    BY <1>1, TakeKeeps DEF IndInv, Counting
  <1>3. PlansInv'
    BY <1>1, <1>2, TakeKeeps, SameUnresolved DEF IndInv, PlansInv, BatchesInv
  <1> QED BY <1>1, <1>3, CountsKept DEF IndInv

\* and it is looked for again after each batch.
LEMMA UpdatePlanKeeps == ASSUME IndInv, UpdatePlan PROVE IndInv'
  <1>1. /\ TakePlan /\ pc = "update" /\ pc' = "get"
        /\ UNCHANGED <<ret, trials, seen, values, plan, flight, buf, thread, samplers>>
    BY DEF UpdatePlan, sampler_vars, thread_vars, config_vars
  <1>2. PlansInv'
    BY <1>1, TakeKeeps, SameUnresolved DEF IndInv, PlansInv, BatchesInv, Counting
  <1> QED BY <1>1, <1>2, CountsKept DEF IndInv

\* A batch is taken from buf.
LEMMA GetBatchKeeps == ASSUME IndInv, GetBatch PROVE IndInv'
  <1>1. /\ buf # <<>> /\ Head(buf) # EndMark
        /\ values' = DictsOf(Head(buf)) /\ buf' = Tail(buf)
        /\ pc = "get" /\ pc' = "yieldBatch"
        /\ UNCHANGED <<test_vars, cached_stats, request_queues, plan, thread, flight, samplers>>
    BY DEF GetBatch, sampler_vars, thread_vars, config_vars
  <1>2. Unresolved' = Unresolved /\ UNCHANGED <<ret, trials, seen, grouped_stats_queue>>
    BY <1>1, SameUnresolved DEF test_vars
  <1>3. PICK u, all : u = Unresolved /\ all = Batches(u) \cup {EndMark}
    OBVIOUS
  <1>4. buf \in Seq(all)
    BY <1>3 DEF IndInv, PlansInv, BatchesInv
  <1>5. PICK batch \in all : batch = Head(buf)
    BY <1>1, <1>4, HeadTailProperties
  <1>6. buf' \in Seq(all)
    BY <1>1, <1>4, HeadTailProperties
  <1>7. values' \in Seq(Having(u)) /\ values' # <<>>
    BY <1>1, <1>3, <1>5, Dicts
  <1>8. PlansInv'
    BY <1>1, <1>2, <1>3, <1>6, <1>7 DEF IndInv, PlansInv, BatchesInv, Counting
  <1> QED BY <1>2, <1>7, <1>8, CountsKept DEF IndInv

\* A None that is put in buf, a place that is freed and the drain keep batches.
LEMMA BufferKept ==
    ASSUME NEW all, buf \in Seq(all \cup {EndMark}), samplers \subseteq Samplers
    PROVE  /\ PutMark \in Seq(all \cup {EndMark}) /\ Drained(PutMark) \in Seq(all \cup {EndMark})
           /\ buf # <<>> => Tail(buf) \in Seq(all \cup {EndMark})
  <1>1. PICK left \in Seq(all \cup {EndMark}) : left = PutMark
    <2>1. PICK queued \in Seq(all \cup {EndMark}), mark \in all \cup {EndMark} : queued = buf /\ mark = EndMark
      OBVIOUS
    <2>2. Append(queued, mark) \in Seq(all \cup {EndMark})
      BY AppendProperties
    <2> QED BY <2>1, <2>2 DEF PutMark
  <1>2. buf # <<>> => Tail(buf) \in Seq(all \cup {EndMark})
    BY HeadTailProperties
  <1>3. Cardinality(samplers) * Cardinality(samplers) + 1 \in Nat \ {0}
    <2>1. IsFiniteSet(Servers)
      BY ServersAssumption DEF ServersAssumption
    <2>2. IsFiniteSet(Servers \cup {Local})
      BY <2>1, FS_AddElement
    <2>3. IsFiniteSet(samplers)
      BY <2>2, FS_Subset DEF Samplers
    <2> QED BY <2>3, FS_CardinalityType
  <1>4. \A m \in Nat \ {0} : SubSeq(left, m, Len(left)) \in Seq(all \cup {EndMark})
    BY SubSeqProperties
  <1> QED BY <1>1, <1>2, <1>3, <1>4 DEF Drained

\* The reader finds nothing, or the end of a stream; the generator is closed.
LEMMA GetNothingKeeps == ASSUME IndInv, GetEmpty \/ GetNone \/ Close PROVE IndInv'
  <1>1. /\ UNCHANGED <<test_vars, cached_stats, values, plan, flight, thread, samplers>>
        /\ buf' = buf \/ (buf # <<>> /\ buf' = Tail(buf)) \/ buf' = Drained(PutMark)
        /\ pc' \in {"inline", "close", "returned"} /\ (pc' = "inline" => pc = "get")
        /\ \/ UNCHANGED request_queues
           \/ request_queues' = [s \in Samplers |-> IF s \in samplers THEN Closed(request_queues[s])
                                                    ELSE request_queues[s]]
    BY DEF GetEmpty, GetNone, Close, sampler_vars, thread_vars, config_vars
  <1>2. Unresolved' = Unresolved /\ UNCHANGED <<ret, trials, seen, grouped_stats_queue>>
    BY <1>1, SameUnresolved DEF test_vars
  <1>3. request_queues' \in [Samplers -> Seq(Requests(Unresolved))]
    <2>1. request_queues \in [Samplers -> Seq(Requests(Unresolved))]
      BY DEF IndInv, PlansInv
    <2>2. \A list \in Seq(Requests(Unresolved)) : Closed(list) \in Seq(Requests(Unresolved))
      <3>1. <<EndOfRequests, EndOfRequests>> \in Seq(Requests(Unresolved))
        BY DEF Requests
      <3> QED BY <3>1, ConcatProperties DEF Closed
    <2> QED BY <1>1, <2>1, <2>2
  <1>4. buf' \in Seq(Batches(Unresolved) \cup {EndMark})
    BY <1>1, BufferKept DEF IndInv, PlansInv, BatchesInv
  <1>5. PlansInv'
    BY <1>1, <1>2, <1>3, <1>4 DEF IndInv, PlansInv, BatchesInv, Counting
  <1> QED BY <1>1, <1>2, <1>5, CountsKept DEF IndInv

\* A statistic that is judged leaves the plans, and the others are in every value.
LEMMA CountKeeps ==
    ASSUME IndInv, NEW after \in Counting, Count(after), pc \in {"yieldInline", "yieldBatch"},
           after = "yieldBatch" => Len(values) > 1, after # "yieldInline"
    PROVE  IndInv'
  <1>1. /\ trials' = [n \in Statistics |-> trials[n] + (IF n \in Head(values) THEN 1 ELSE 0)]
        /\ seen' = seen + 1 /\ values' = Tail(values)
        /\ UNCHANGED <<cached_stats, request_queues, plan, flight, buf, thread, samplers>>
    BY DEF Count, sampler_vars, thread_vars, config_vars
  <1>2. /\ pc' = after \/ pc' = "close"
        /\ \/ UNCHANGED <<ret, grouped_stats_queue>>
           \/ \E new \in SUBSET Unresolved :
                  /\ ret' = ret \cup new
                  /\ grouped_stats_queue' = IF new = {} THEN grouped_stats_queue
                                            ELSE Append(grouped_stats_queue, Plan(ret'))
    BY DEF Count, Conclusive
  <1>3. PICK u, v : u = Unresolved /\ v = Unresolved'
    OBVIOUS
  <1>4. v \subseteq u
    BY <1>2, <1>3 DEF Unresolved
  <1>5. /\ Having(u) \subseteq Having(v) /\ Requests(u) \subseteq Requests(v)
        /\ Batches(u) \subseteq Batches(v)
    BY <1>4, Wider
  <1>6. /\ grouped_stats_queue \in Seq(Having(v)) /\ values \in Seq(Having(u))
        /\ Tail(values) \in Seq(Having(v)) /\ values # <<>> /\ Head(values) \in Having(u)
        /\ Len(Tail(values)) = Len(values) - 1
    <2>1. grouped_stats_queue \in Seq(Having(u)) /\ values \in Seq(Having(u)) /\ values # <<>>
      BY <1>3 DEF IndInv, PlansInv, CountsInv
    <2>2. grouped_stats_queue \in Seq(Having(v))
      BY <1>5, <2>1, SeqMonotonic
    <2>3. Tail(values) \in Seq(Having(u)) /\ Head(values) \in Having(u)
          /\ Len(Tail(values)) = Len(values) - 1
      BY <2>1, HeadTailProperties
    <2>4. Tail(values) \in Seq(Having(v))
      BY <1>5, <2>3, SeqMonotonic
    <2> QED BY <2>1, <2>2, <2>3, <2>4
  <1>7. grouped_stats_queue' \in Seq(Having(v))
    <2>1. Plan(ret') = v /\ v \in Having(v)
      BY <1>3 DEF Plan, Unresolved, Having
    <2>2. PICK newest : newest = Plan(ret')
      OBVIOUS
    <2>3. Append(grouped_stats_queue, newest) \in Seq(Having(v))
      BY <1>6, <2>1, <2>2
    <2>4. grouped_stats_queue' \in {grouped_stats_queue, Append(grouped_stats_queue, newest)}
      BY <1>2, <2>2
    <2> QED BY <1>6, <2>3, <2>4
  <1>8. PlansInv'
    <2>1. request_queues \in [Samplers -> Seq(Requests(v))]
      <3>1. request_queues \in [Samplers -> Seq(Requests(u))]
        BY <1>3 DEF IndInv, PlansInv
      <3>2. Seq(Requests(u)) \subseteq Seq(Requests(v))
        BY <1>5, SeqMonotonic
      <3> QED BY <3>1, <3>2
    <2>2. plan \in [Samplers -> Having(v) \cup {Nothing}]
      BY <1>3, <1>5 DEF IndInv, PlansInv
    <2>3. cached_stats \in Having(v)
      BY <1>3, <1>5 DEF IndInv, PlansInv, Counting
    <2>4. /\ Seq(Batches(u)) \subseteq Seq(Batches(v))
          /\ Seq(Batches(u) \cup {EndMark}) \subseteq Seq(Batches(v) \cup {EndMark})
      BY <1>5, SeqMonotonic
    <2>5. BatchesInv'
      BY <1>1, <1>3, <2>4 DEF IndInv, PlansInv, BatchesInv
    <2> QED BY <1>1, <1>3, <1>6, <1>7, <2>1, <2>2, <2>3, <2>5 DEF PlansInv
  <1>9. TrialsAreSeen'
    <2>1. /\ trials \in [Statistics -> Nat] /\ seen \in Nat
          /\ \A n \in u : trials[n] = seen
          /\ \A n \in Statistics : trials[n] <= seen
      BY <1>3 DEF IndInv, CountsInv, TrialsAreSeen
    <2>2. u \subseteq Statistics /\ u \subseteq Head(values)
      BY <1>3, <1>6 DEF Unresolved, Having
    <2>3. \A n \in v : trials'[n] = seen'
      BY <1>1, <1>4, <2>1, <2>2
    <2>4. \A n \in Statistics : trials'[n] <= seen'
      BY <1>1, <2>1
    <2> QED BY <1>3, <2>3, <2>4 DEF TrialsAreSeen
  <1>10. CountsInv'
    <2>1. trials' \in [Statistics -> Nat] /\ seen' \in Nat
      BY <1>1 DEF IndInv, CountsInv
    <2>2. pc' \in {"yieldInline", "yieldBatch"} => values' # <<>>
      <3>1. pc' \in {"yieldInline", "yieldBatch"} => Len(values) > 1
        BY <1>2
      <3>2. PICK left \in Seq(Having(v)) : left = Tail(values)
        BY <1>6
      <3>3. Len(left) = Len(values) - 1 /\ Len(values) \in Nat
        BY <1>6, <3>2, LenProperties
      <3>4. left = <<>> => Len(left) = 0
        OBVIOUS
      <3>5. Len(values) > 1 => left # <<>>
        BY <3>3, <3>4
      <3> QED BY <1>1, <3>1, <3>2, <3>5
    <2> QED BY <1>9, <2>1, <2>2 DEF CountsInv
  <1> QED BY <1>8, <1>10 DEF IndInv

\* A sampler reads a request, sends a batch, or ends.
LEMMA SamplerReadsKeeps ==
    ASSUME IndInv, NEW s \in Samplers, SamplerReads(s)
    PROVE  IndInv'
  <1>1. /\ request_queues[s] # <<>>
        /\ UNCHANGED <<test_vars, pc, cached_stats, values, flight, buf, thread, samplers>>
        /\ request_queues' = [request_queues EXCEPT ![s] = Tail(request_queues[s])]
        /\ plan' = IF Head(request_queues[s]).kind = "parameters"
                   THEN [plan EXCEPT ![s] = Head(request_queues[s]).parameters] ELSE plan
    BY DEF SamplerReads, thread_vars, config_vars
  <1>2. Unresolved' = Unresolved /\ UNCHANGED <<ret, trials, seen, grouped_stats_queue>>
    BY <1>1, SameUnresolved DEF test_vars
  <1>3. PICK u : u = Unresolved
    OBVIOUS
  <1>4. request_queues \in [Samplers -> Seq(Requests(u))] /\ plan \in [Samplers -> Having(u) \cup {Nothing}]
    BY <1>3 DEF IndInv, PlansInv
  <1>5. PICK sent \in Seq(Requests(u)) : sent = request_queues[s] /\ sent # <<>>
    BY <1>1, <1>4
  <1>6. Tail(sent) \in Seq(Requests(u)) /\ Head(sent) \in Requests(u)
    BY <1>5, HeadTailProperties
  <1>7. request_queues' \in [Samplers -> Seq(Requests(u))]
    BY <1>1, <1>4, <1>5, <1>6
  <1>8. plan' \in [Samplers -> Having(u) \cup {Nothing}]
    <2>1. PICK request \in Requests(u) : request = Head(sent)
      BY <1>6
    <2>2. request.kind = "parameters" => request.parameters \in Having(u)
      BY DEF Requests, Data, EndOfRequests, Parameters
    <2> QED BY <1>1, <1>4, <1>5, <2>1, <2>2
  <1>9. PlansInv'
    BY <1>1, <1>2, <1>3, <1>7, <1>8 DEF IndInv, PlansInv, BatchesInv
  <1>10. CountsInv'
    BY <1>1, <1>2, CountsKept DEF IndInv, CountsInv
  <1> QED BY <1>9, <1>10 DEF IndInv

\* Batches that move on change nothing for exact_test.
LEMMA FlightMoves ==
    ASSUME IndInv, UNCHANGED <<test_vars, pc, cached_stats, values, request_queues, plan, samplers>>,
           flight' \in [Samplers -> Seq(Batches(Unresolved))],
           buf' \in Seq(Batches(Unresolved) \cup {EndMark}), thread' \in [Samplers -> ThreadStates],
           \A s \in Samplers : thread'[s] = "put" => flight'[s] # <<>>
    PROVE  IndInv'
  <1>1. Unresolved' = Unresolved /\ UNCHANGED <<ret, trials, seen, grouped_stats_queue>>
    BY SameUnresolved DEF test_vars
  <1>2. PlansInv'
    BY <1>1 DEF IndInv, PlansInv, BatchesInv
  <1>3. CountsInv'
    BY <1>1, CountsKept DEF IndInv, CountsInv
  <1> QED BY <1>2, <1>3 DEF IndInv

\* So does a thread that moves on, with what is left for it.
LEMMA ThreadMoves ==
    ASSUME IndInv, UNCHANGED <<test_vars, pc, cached_stats, values, request_queues, plan, samplers>>,
           NEW s \in Samplers, NEW state \in ThreadStates, NEW left \in Seq(Batches(Unresolved)),
           state = "put" => left # <<>>,
           thread' = [thread EXCEPT ![s] = state], flight' = [flight EXCEPT ![s] = left],
           buf' \in Seq(Batches(Unresolved) \cup {EndMark})
    PROVE  IndInv'
  <1>1. PICK lists, all : lists = Seq(Batches(Unresolved)) /\ all = Samplers
    OBVIOUS
  <1>2. /\ flight \in [all -> lists] /\ thread \in [all -> ThreadStates] /\ s \in all /\ left \in lists
        /\ \A r \in all : thread[r] = "put" => flight[r] # <<>>
    BY <1>1 DEF IndInv, PlansInv, BatchesInv
  <1>3. /\ flight' \in [all -> lists] /\ thread' \in [all -> ThreadStates]
        /\ \A r \in all : thread'[r] = "put" => flight'[r] # <<>>
    BY <1>2
  <1> QED BY <1>1, <1>3, FlightMoves

\* Its batch has what its plan has.
LEMMA SamplerSendsKeeps ==
    ASSUME IndInv, NEW s \in Samplers, SamplerSends(s)
    PROVE  IndInv'
  <1>1. /\ UNCHANGED <<test_vars, pc, cached_stats, values, request_queues, plan, buf, thread, samplers>>
        /\ plan[s] # Nothing
        /\ \E size \in BatchSizes :
              flight' = [flight EXCEPT ![s] = Append(flight[s], ResultSet(plan[s], size))]
    BY DEF SamplerSends, sampler_vars, thread_vars, config_vars
  <1>2. PICK u : u = Unresolved
    OBVIOUS
  <1>3. plan[s] \in Having(u) \ {Nothing}
    BY <1>1, <1>2 DEF IndInv, PlansInv
  <1>4. PICK batch \in Batches(u) : flight' = [flight EXCEPT ![s] = Append(flight[s], batch)]
    <2>1. PICK size \in BatchSizes : flight' = [flight EXCEPT ![s] = Append(flight[s], ResultSet(plan[s], size))]
      BY <1>1
    <2>2. ResultSet(plan[s], size) \in Batches(u)
      BY <1>3 DEF Batches
    <2> QED BY <2>1, <2>2
  <1>5. flight \in [Samplers -> Seq(Batches(u))]
    BY <1>2 DEF IndInv, PlansInv, BatchesInv
  <1>6. PICK queued \in Seq(Batches(u)) : queued = flight[s]
    BY <1>5
  <1>7. Append(queued, batch) \in Seq(Batches(u)) /\ Append(queued, batch) # <<>>
    BY <1>6, AppendProperties
  <1>8. flight' \in [Samplers -> Seq(Batches(u))] /\ \A r \in Samplers : flight[r] # <<>> => flight'[r] # <<>>
    BY <1>4, <1>5, <1>6, <1>7
  <1>9. /\ buf' \in Seq(Batches(u) \cup {EndMark}) /\ thread' \in [Samplers -> ThreadStates]
        /\ \A r \in Samplers : thread'[r] = "put" => flight'[r] # <<>>
    BY <1>1, <1>2, <1>8 DEF IndInv, PlansInv, BatchesInv
  <1> QED BY <1>1, <1>2, <1>8, <1>9, FlightMoves

\* A stream ends or raises, and a thread brings a batch to buf, or leaves.
LEMMA ThreadKeeps ==
    ASSUME IndInv, NEW s \in Samplers, Thread(s) \/ StreamEnds(s) \/ StreamRaises(s)
    PROVE  IndInv'
  <1>1. UNCHANGED <<test_vars, pc, cached_stats, values, request_queues, plan, samplers>>
    BY DEF Thread, StreamEnds, StreamRaises, sampler_vars, config_vars
  <1>2. PICK u : u = Unresolved
    OBVIOUS
  <1>3. /\ flight \in [Samplers -> Seq(Batches(u))] /\ buf \in Seq(Batches(u) \cup {EndMark})
        /\ thread \in [Samplers -> ThreadStates] /\ \A r \in Samplers : thread[r] = "put" => flight[r] # <<>>
        /\ samplers \subseteq Samplers
    BY <1>2 DEF IndInv, PlansInv, BatchesInv
  <1>4. PICK queued \in Seq(Batches(u)) : queued = flight[s]
    BY <1>3
  <1>5. PICK all : all = Batches(u) \cup {EndMark}
    OBVIOUS
  <1>6. <<>> \in Seq(Batches(u)) /\ buf \in Seq(all)
    BY <1>3, <1>5
  <1>7. CASE Leave(s) /\ UNCHANGED <<buf, samplers>>
    BY <1>1, <1>2, <1>5, <1>6, <1>7, ThreadMoves DEF Leave, ThreadStates
  <1>8. CASE StreamRaises(s)
    BY <1>1, <1>2, <1>5, <1>6, <1>8, ThreadMoves DEF StreamRaises, ThreadStates
  <1>9. CASE StreamEnds(s)
    BY <1>1, <1>2, <1>3, <1>9, FlightMoves DEF StreamEnds, thread_vars
  <1>10. CASE ThreadPulls(s)
    <2>1. CASE flight[s] = <<>> \/ buf_done
      BY <1>1, <1>7, <1>10, <2>1 DEF ThreadPulls
    <2>2. CASE flight[s] # <<>> /\ ~buf_done
      <3>1. /\ thread' = [thread EXCEPT ![s] = "put"] /\ UNCHANGED <<buf, flight>> /\ queued # <<>>
        BY <1>4, <1>10, <2>2 DEF ThreadPulls
      <3>2. flight' = [flight EXCEPT ![s] = queued]
        BY <1>3, <1>4, <3>1
      <3> QED BY <1>1, <1>2, <1>5, <1>6, <3>1, <3>2, ThreadMoves DEF ThreadStates
    <2> QED BY <2>1, <2>2
  <1>11. CASE ThreadPuts(s)
    <2>1. /\ queued # <<>> /\ buf' = Append(buf, Head(queued))
          /\ flight' = [flight EXCEPT ![s] = Tail(queued)] /\ thread' = [thread EXCEPT ![s] = "recheck"]
      BY <1>3, <1>4, <1>11 DEF ThreadPuts
    <2>2. PICK batch \in Batches(u), left \in Seq(Batches(u)) : batch = Head(queued) /\ left = Tail(queued)
      BY <1>4, <2>1, HeadTailProperties
    <2>3. buf' \in Seq(all)
      BY <1>5, <1>6, <2>1, <2>2, AppendProperties
    <2>4. flight' = [flight EXCEPT ![s] = left] /\ thread' = [thread EXCEPT ![s] = "recheck"]
      BY <2>1, <2>2
    <2> QED BY <1>1, <1>2, <1>5, <2>3, <2>4, ThreadMoves DEF ThreadStates
  <1>12. CASE ThreadChecks(s)
    <2>1. CASE buf_done
      BY <1>1, <1>7, <1>12, <2>1 DEF ThreadChecks
    <2>2. CASE ~buf_done
      <3>1. thread' = [thread EXCEPT ![s] = "pull"] /\ UNCHANGED <<buf, flight>>
        BY <1>12, <2>2 DEF ThreadChecks
      <3>2. flight' = [flight EXCEPT ![s] = queued]
        BY <1>3, <1>4, <3>1
      <3> QED BY <1>1, <1>2, <1>5, <1>6, <3>1, <3>2, ThreadMoves DEF ThreadStates
    <2> QED BY <2>1, <2>2
  <1>13. CASE ThreadTells(s)
    <2>1. /\ UNCHANGED flight /\ buf' = PutMark
          /\ \E last \in {"silent", "told"} : thread' = [thread EXCEPT ![s] = last]
      BY <1>13 DEF ThreadTells
    <2>2. PutMark \in Seq(all)
      BY <1>3, <1>5, BufferKept
    <2>3. flight' = [flight EXCEPT ![s] = queued]
      BY <1>3, <1>4, <2>1
    <2> QED BY <1>1, <1>2, <1>5, <2>1, <2>2, <2>3, ThreadMoves DEF ThreadStates
  <1> QED BY <1>8, <1>9, <1>10, <1>11, <1>12, <1>13 DEF Thread

-----------------------------------------------------------------------------
(* The theorems. *)

\* Every step keeps it.
LEMMA NextKeeps == IndInv /\ [Next]_vars => IndInv'
  <1> SUFFICES ASSUME IndInv, [Next]_vars PROVE IndInv'
    OBVIOUS
  <1>1. CASE CountInline
    BY <1>1, CountKeeps DEF CountInline, Counting
  <1>2. CASE CountBatch
    <2>1. PICK after : after = IF Len(values) > 1 THEN "yieldBatch" ELSE "update"
      OBVIOUS
    <2>2. Count(after) /\ pc = "yieldBatch"
      BY <1>2, <2>1 DEF CountBatch
    <2>3. after \in Counting /\ after # "yieldInline" /\ (after = "yieldBatch" => Len(values) > 1)
      BY <2>1 DEF Counting
    <2> QED BY <2>2, <2>3, CountKeeps
  <1>3. CASE Driver
    BY <1>1, <1>2, <1>3, ConfigureKeeps, OpenKeeps, InlineKeeps, GetBatchKeeps, GetNothingKeeps,
       UpdatePlanKeeps DEF Driver
  <1>4. CASE \E s \in Samplers : \/ SamplerReads(s) \/ SamplerSends(s) \/ Thread(s)
                                 \/ StreamEnds(s) \/ StreamRaises(s)
    BY <1>4, SamplerReadsKeeps, SamplerSendsKeeps, ThreadKeeps
  <1>5. CASE UNCHANGED vars
    <2>1. /\ UNCHANGED <<ret, trials, seen, grouped_stats_queue, pc, cached_stats, values>>
          /\ UNCHANGED <<request_queues, plan, flight, buf, thread, samplers>>
      BY <1>5 DEF vars, test_vars, sampler_vars, thread_vars, config_vars
    <2>2. PlansInv'
      BY <2>1, SameUnresolved DEF IndInv, PlansInv, BatchesInv
    <2> QED BY <2>1, <2>2, CountsKept DEF IndInv, CountsInv
  <1> QED BY <1>3, <1>4, <1>5 DEF Next

\* No plan on its way lacks an unresolved statistic, and trials are counted alike.
THEOREM DriverInvariant == Spec => []IndInv
  BY InitHolds, NextKeeps, PTL DEF Spec

\* However late a batch comes and whatever plan it was computed with, it has a
\* value for every statistic that is not resolved (t/exact_test.py:312).
THEOREM UnresolvedAreSampled == Spec => []EveryUnresolvedIsSampled
  <1>1. IndInv => EveryUnresolvedIsSampled
    <2> SUFFICES ASSUME IndInv, NEW p \in Plans PROVE p \in Having(Unresolved)
      BY DEF EveryUnresolvedIsSampled, Having
    <2>1. PICK u : u = Unresolved
      OBVIOUS
    <2>2. PlansInv
      BY DEF IndInv
    <2>3. CASE p \in Range(grouped_stats_queue) \/ p \in Range(values)
      BY <2>2, <2>3, LenProperties DEF PlansInv, Range
    <2>4. CASE p \in {DOMAIN batch : batch \in
                  (Range(buf) \cup UNION {Range(flight[s]) : s \in Samplers}) \ {EndMark}}
      <3>1. PICK batch : p = DOMAIN batch /\ batch # EndMark
                         /\ (batch \in Range(buf) \/ \E s \in Samplers : batch \in Range(flight[s]))
        BY <2>4
      <3>2. batch \in Batches(u)
        BY <2>1, <2>2, <3>1, LenProperties DEF PlansInv, BatchesInv, Range
      <3> QED BY <2>1, <3>1, <3>2 DEF Batches, ResultSet
    <2>5. CASE p \in {request.parameters : request \in
                  {r \in UNION {Range(request_queues[s]) : s \in Samplers} : r.kind = "parameters"}}
      <3>1. PICK s, r : /\ s \in Samplers /\ r \in Range(request_queues[s])
                       /\ r.kind = "parameters" /\ p = r.parameters
        BY <2>5
      <3>2. request_queues[s] \in Seq(Requests(u))
        BY <2>1, <2>2, <3>1 DEF PlansInv
      <3>3. r \in Requests(u)
        BY <3>1, <3>2, LenProperties DEF Range
      <3> QED BY <2>1, <3>1, <3>3 DEF Requests, Data, EndOfRequests, Parameters
    <2>6. CASE p \in ({cached_stats} \cup {plan[s] : s \in Samplers}) \ {Nothing}
      BY <2>2, <2>6 DEF PlansInv
    <2> QED BY <2>3, <2>4, <2>5, <2>6 DEF Plans
  <1> QED BY <1>1, DriverInvariant, PTL

\* An unresolved statistic has one trial per value seen (t/exact_test.py:280, 163).
THEOREM TrialsCountValues == Spec => []TrialsAreSeen
  <1>1. IndInv => TrialsAreSeen
    BY DEF IndInv, CountsInv
  <1> QED BY <1>1, DriverInvariant, PTL

-----------------------------------------------------------------------------
(* The buffer it reads, on its own: any number of threads, any capacity.   *)

Entries == Nat \X Nat

\* A value that is put comes last.
LEMMA PutRanks ==
    ASSUME NEW q \in Seq(Entries), NEW v \in Entries, NEW w,
           NEW before \in Nat, NEW last \in Nat, before <= last,
           Ranks(q, w) = before + 1 .. last, InOrder(q, w),
           v[1] = w => v[2] = last + 1
    PROVE  /\ Ranks(Append(q, v), w) = IF v[1] = w THEN before + 1 .. last + 1 ELSE before + 1 .. last
           /\ InOrder(Append(q, v), w)
  <1>1. PICK long \in Seq(Entries) : long = Append(q, v)
    BY AppendProperties
  <1>2. PICK n \in Nat : n = Len(q) /\ Len(long) = n + 1
    BY <1>1, AppendProperties, LenProperties
  <1>3. long[n + 1] = v /\ \A p \in 1 .. n : long[p] = q[p]
    BY <1>1, <1>2, AppendProperties
  <1>4. \A p \in 1 .. n : q[p][1] = w => q[p][2] \in before + 1 .. last
    BY <1>2 DEF Ranks
  <1>5. InOrder(long, w)
    <2> SUFFICES ASSUME NEW j \in 1 .. n + 1, NEW y \in 1 .. n + 1,
                        long[j][1] = w, long[y][1] = w, j < y
                 PROVE  long[j][2] < long[y][2]
      BY <1>2 DEF InOrder
    <2>1. j \in 1 .. n
      BY <1>2
    <2>2. CASE y = n + 1
      BY <1>3, <1>4, <2>1, <2>2
    <2>3. CASE y \in 1 .. n
      BY <1>2, <1>3, <2>1, <2>3 DEF InOrder
    <2> QED BY <1>2, <2>2, <2>3
  <1>6. Ranks(long, w) = Ranks(q, w) \cup (IF v[1] = w THEN {v[2]} ELSE {})
    <2>1. \A r : r \in Ranks(long, w) <=> \E j \in 1 .. n + 1 : long[j][1] = w /\ r = long[j][2]
      BY <1>2 DEF Ranks
    <2>2. \A r : r \in Ranks(q, w) <=> \E j \in 1 .. n : q[j][1] = w /\ r = q[j][2]
      BY <1>2 DEF Ranks
    <2>3. 1 .. n + 1 = (1 .. n) \cup {n + 1}
      BY <1>2
    <2>4. \A r : r \in Ranks(long, w) <=> r \in Ranks(q, w) \/ (v[1] = w /\ r = v[2])
      BY <1>3, <2>1, <2>2, <2>3
    <2> QED BY <2>4, Zenon
  <1>7. Ranks(long, w) = IF v[1] = w THEN before + 1 .. last + 1 ELSE before + 1 .. last
    BY <1>6
  <1> QED BY <1>1, <1>5, <1>7

\* The first value of an iterator is the next one to be got.
LEMMA GetRanks ==
    ASSUME NEW q \in Seq(Entries), q # <<>>, NEW w,
           NEW before \in Nat, NEW last \in Nat, before <= last,
           Ranks(q, w) = before + 1 .. last, InOrder(q, w)
    PROVE  /\ Head(q)[1] = w => before < last
           /\ Ranks(Tail(q), w) = (IF Head(q)[1] = w THEN before + 2 ELSE before + 1) .. last
           /\ InOrder(Tail(q), w)
  <1>1. PICK rest \in Seq(Entries) : rest = Tail(q)
    BY HeadTailProperties
  <1>2. PICK n \in Nat : n = Len(rest) /\ Len(q) = n + 1
    BY <1>1, HeadTailProperties, LenProperties
  <1>3. PICK h \in Entries : h = Head(q) /\ h = q[1]
    BY HeadTailProperties
  <1>4. \A p \in 1 .. n : rest[p] = q[p + 1]
    BY <1>1, <1>2, HeadTailProperties
  <1>5. \A r : r \in Ranks(q, w) <=> \E j \in 1 .. n + 1 : q[j][1] = w /\ r = q[j][2]
    BY <1>2 DEF Ranks
  <1>6. \A r : r \in Ranks(rest, w) <=> \E j \in 1 .. n : rest[j][1] = w /\ r = rest[j][2]
    BY <1>2 DEF Ranks
  <1>7. \A r : r \in Ranks(q, w) <=> (h[1] = w /\ r = h[2]) \/ r \in Ranks(rest, w)
    <2>1. \A j \in 1 .. n + 1 : j = 1 \/ (j - 1 \in 1 .. n /\ q[j] = rest[j - 1])
      BY <1>2, <1>4
    <2>2. \A j \in 1 .. n : j + 1 \in 1 .. n + 1 /\ rest[j] = q[j + 1]
      BY <1>2, <1>4
    <2>3. 1 \in 1 .. n + 1
      BY <1>2
    <2>4. ASSUME NEW r \in Ranks(q, w)
          PROVE  (h[1] = w /\ r = h[2]) \/ r \in Ranks(rest, w)
      <3>1. PICK j \in 1 .. n + 1 : q[j][1] = w /\ r = q[j][2]
        BY <1>5
      <3> QED BY <1>3, <1>6, <2>1, <3>1
    <2>5. ASSUME NEW r \in Ranks(rest, w)
          PROVE  r \in Ranks(q, w)
      <3>1. PICK j \in 1 .. n : rest[j][1] = w /\ r = rest[j][2]
        BY <1>6
      <3> QED BY <1>5, <2>2, <3>1
    <2>6. h[1] = w => h[2] \in Ranks(q, w)
      BY <1>3, <1>5, <2>3
    <2> QED BY <2>4, <2>5, <2>6
  <1>8. InOrder(rest, w)
    <2> SUFFICES ASSUME NEW j \in 1 .. n, NEW y \in 1 .. n,
                        rest[j][1] = w, rest[y][1] = w, j < y
                 PROVE  rest[j][2] < rest[y][2]
      BY <1>2 DEF InOrder
    <2>1. j + 1 \in 1 .. n + 1 /\ y + 1 \in 1 .. n + 1 /\ j + 1 < y + 1
      BY <1>2
    <2> QED BY <1>2, <1>4, <2>1 DEF InOrder
  <1>9. CASE h[1] = w
    <2>1. \A r \in Ranks(rest, w) : h[2] < r
      <3> SUFFICES ASSUME NEW j \in 1 .. n, rest[j][1] = w PROVE h[2] < rest[j][2]
        BY <1>6
      <3>1. 1 \in 1 .. n + 1 /\ j + 1 \in 1 .. n + 1 /\ 1 < j + 1
        BY <1>2
      <3> QED BY <1>2, <1>3, <1>4, <1>9, <3>1 DEF InOrder
    <2>2. h[2] \in before + 1 .. last
      BY <1>7, <1>9
    <2>3. h[2] = before + 1
      <3>1. before + 1 \in Ranks(q, w)
        BY <2>2
      <3>2. before + 1 = h[2] \/ before + 1 \in Ranks(rest, w)
        BY <1>7, <3>1
      <3> QED BY <2>1, <2>2, <3>2
    <2>4. \A r : r \in Ranks(rest, w) <=> r \in before + 2 .. last
      BY <1>7, <1>9, <2>1, <2>3
    <2>5. Ranks(rest, w) = before + 2 .. last
      BY <2>4
    <2>6. before < last
      BY <2>2
    <2> QED BY <1>1, <1>3, <1>8, <1>9, <2>5, <2>6
  <1>10. CASE h[1] # w
    <2>1. \A r : r \in Ranks(rest, w) <=> r \in Ranks(q, w)
      BY <1>7, <1>10
    <2> QED BY <1>1, <1>3, <1>8, <1>10, <2>1
  <1> QED BY <1>9, <1>10

\* What is inductive: the queue has values and marks of the end, which are of no
\* iterator.
BufferInv ==
    /\ Workers \subseteq Nat \ {0}
    /\ queue \in Seq(Entries)
    /\ puts \in [Workers -> Nat] /\ got \in [Workers -> Nat]
    /\ NothingLost

\* Every step keeps it.
LEMMA BufferKeeps == BufferInv /\ [BufferNext]_bufferVars => BufferInv'
  <1> SUFFICES ASSUME BufferInv, [BufferNext]_bufferVars PROVE BufferInv'
    OBVIOUS
  <1>0. PICK W \in SUBSET (Nat \ {0}) : W = Workers
    BY DEF BufferInv
  <1>1. Workers' = W
    BY <1>0 DEF BufferNext, bufferVars, Work, Pull, Check, PutValue, Recheck,
       MarkDone, PutSentinel, Get, GetNothing, Resume, Exit,
       ExitDone, ExitPut, Drain, Join, ReaderOnly, WorkerOnly,
       Workers
  <1>2. PICK q \in Seq(Entries), pu \in [W -> Nat], g \in [W -> Nat] :
            q = queue /\ pu = puts /\ g = got
    BY <1>0 DEF BufferInv
  <1>3. ASSUME reader \in {"get", "yield"}, NEW w \in W
        PROVE  g[w] <= pu[w] /\ Ranks(q, w) = g[w] + 1 .. pu[w] /\ InOrder(q, w)
    BY <1>0, <1>2, <1>3 DEF BufferInv, NothingLost
  <1>4. ASSUME queue' \in Seq(Entries), puts' \in [W -> Nat], got' \in [W -> Nat],
               ASSUME reader' \in {"get", "yield"}, NEW w \in W
               PROVE  got'[w] <= puts'[w] /\ Ranks(queue', w) = got'[w] + 1 .. puts'[w]
                      /\ InOrder(queue', w)
        PROVE  BufferInv'
    BY <1>0, <1>1, <1>4 DEF BufferInv, NothingLost
  <1>5. NoValue \in Entries
    BY DEF NoValue, Entries
  <1>6. ASSUME PutNone, UNCHANGED <<puts, got>>, reader' \in {"get", "yield"} => reader \in {"get", "yield"}
        PROVE  BufferInv'
    <2>1. queue' = q \/ queue' = Append(q, NoValue)
      BY <1>2, <1>6 DEF PutNone
    <2>2. CASE queue' = q
      BY <1>2, <1>3, <1>4, <1>6, <2>2
    <2>3. CASE queue' = Append(q, NoValue)
      <3>1. queue' \in Seq(Entries)
        BY <1>5, <2>3, AppendProperties
      <3>2. ASSUME reader' \in {"get", "yield"}, NEW w \in W
            PROVE  Ranks(queue', w) = g[w] + 1 .. pu[w] /\ InOrder(queue', w)
        <4>1. NoValue[1] # w
          BY DEF NoValue
        <4>2. g[w] \in Nat /\ pu[w] \in Nat
          OBVIOUS
        <4>3. g[w] <= pu[w] /\ Ranks(q, w) = g[w] + 1 .. pu[w] /\ InOrder(q, w)
          BY <1>3, <1>6, <3>2
        <4> QED BY <1>5, <2>3, <4>1, <4>2, <4>3, PutRanks
      <3> QED BY <1>2, <1>3, <1>4, <1>6, <3>1, <3>2
    <2> QED BY <2>1, <2>2, <2>3
  <1>7. ASSUME UNCHANGED <<queue, puts, got>>, reader' \in {"get", "yield"} => reader \in {"get", "yield"}
        PROVE  BufferInv'
    BY <1>2, <1>3, <1>4, <1>7
  <1>8. ASSUME NEW t \in W, PutValue(t)
        PROVE  BufferInv'
    <2>1. /\ queue' = Append(q, <<t, pu[t] + 1>>) /\ puts' = [pu EXCEPT ![t] = pu[t] + 1]
          /\ got' = g /\ reader' = reader
      BY <1>2, <1>8 DEF PutValue, WorkerOnly
    <2>2. PICK v \in Entries : v = <<t, pu[t] + 1>> /\ v[1] = t /\ v[2] = pu[t] + 1
      <3>1. PICK k \in Nat : k = pu[t] + 1
        OBVIOUS
      <3>2. <<t, k>> \in Entries /\ <<t, k>>[1] = t /\ <<t, k>>[2] = k
        BY DEF Entries
      <3> QED BY <3>1, <3>2
    <2>3. queue' \in Seq(Entries) /\ puts' \in [W -> Nat]
      BY <2>1, <2>2, AppendProperties
    <2>4. ASSUME reader' \in {"get", "yield"}, NEW w \in W
          PROVE  got'[w] <= puts'[w] /\ Ranks(queue', w) = got'[w] + 1 .. puts'[w]
                 /\ InOrder(queue', w)
      <3>1. g[w] \in Nat /\ pu[w] \in Nat /\ g[w] <= pu[w]
            /\ Ranks(q, w) = g[w] + 1 .. pu[w] /\ InOrder(q, w)
        BY <1>3, <2>1, <2>4
      <3>2. v[1] = w => v[2] = pu[w] + 1
        BY <2>2
      <3>3. /\ Ranks(Append(q, v), w) = IF v[1] = w THEN g[w] + 1 .. pu[w] + 1 ELSE g[w] + 1 .. pu[w]
            /\ InOrder(Append(q, v), w)
        BY <3>1, <3>2, PutRanks
      <3>4. puts'[w] = IF v[1] = w THEN pu[w] + 1 ELSE pu[w]
        BY <2>1, <2>2
      <3> QED BY <2>1, <2>2, <3>1, <3>3, <3>4
    <2> QED BY <1>4, <2>1, <2>3, <2>4
  <1>9. CASE \E t \in Workers : Work(t)
    <2>1. PICK t \in W : Work(t)
      BY <1>0, <1>9
    <2>2. CASE PutValue(t)
      BY <1>8, <2>2
    <2>3. CASE PutSentinel(t)
      BY <1>6, <2>3 DEF PutSentinel, WorkerOnly
    <2>4. CASE Pull(t) \/ Check(t) \/ Recheck(t) \/ MarkDone(t)
      BY <1>7, <2>4 DEF Pull, Check, Recheck, MarkDone, WorkerOnly
    <2> QED BY <2>1, <2>2, <2>3, <2>4 DEF Work
  <1>10. CASE Get
    <2>1. PICK h \in Entries : h = Head(q) /\ q # <<>>
      BY <1>2, <1>10, HeadTailProperties DEF Get
    <2>2. /\ queue' = Tail(q) /\ puts' = pu /\ reader = "get"
          /\ IF h = NoValue THEN reader' = "exit" /\ got' = g
             ELSE got' = [g EXCEPT ![h[1]] = g[h[1]] + 1]
      BY <1>2, <1>10, <2>1 DEF Get, ReaderOnly
    <2>3. queue' \in Seq(Entries) /\ got' \in [W -> Nat]
      BY <2>1, <2>2, HeadTailProperties
    <2>4. ASSUME reader' \in {"get", "yield"}, NEW w \in W
          PROVE  got'[w] <= puts'[w] /\ Ranks(queue', w) = got'[w] + 1 .. puts'[w]
                 /\ InOrder(queue', w)
      <3>1. g[w] \in Nat /\ pu[w] \in Nat /\ g[w] <= pu[w]
            /\ Ranks(q, w) = g[w] + 1 .. pu[w] /\ InOrder(q, w)
        BY <1>3, <2>2
      <3>2. /\ h[1] = w => g[w] < pu[w]
            /\ Ranks(Tail(q), w) = (IF h[1] = w THEN g[w] + 2 ELSE g[w] + 1) .. pu[w]
            /\ InOrder(Tail(q), w)
        BY <2>1, <3>1, GetRanks
      <3>3. got'[w] = IF h[1] = w THEN g[w] + 1 ELSE g[w]
        BY <2>2, <2>4
      <3>4. (g[w] + 1) + 1 = g[w] + 2
        BY <3>1
      <3>5. g[w] < pu[w] => g[w] + 1 <= pu[w]
        BY <3>1
      <3> QED BY <2>2, <3>1, <3>2, <3>3, <3>4, <3>5
    <2> QED BY <1>4, <2>2, <2>3, <2>4
  <1>11. CASE GetNothing \/ Resume \/ ExitDone
    BY <1>7, <1>11 DEF GetNothing, Resume, ExitDone, ReaderOnly
  <1>12. CASE ExitPut
    BY <1>6, <1>12 DEF ExitPut, ReaderOnly
  <1>13. CASE Drain \/ Join
    <2>1. /\ puts' = pu /\ got' = g /\ reader' \notin {"get", "yield"}
          /\ queue' = q \/ (q # <<>> /\ queue' = Tail(q))
      BY <1>2, <1>13 DEF Drain, Join, ReaderOnly
    <2>2. q # <<>> => Tail(q) \in Seq(Entries)
      BY HeadTailProperties
    <2> QED BY <1>4, <2>1, <2>2
  <1>14. CASE UNCHANGED bufferVars
    BY <1>7, <1>14 DEF bufferVars
  <1> QED BY <1>9, <1>10, <1>11, <1>12, <1>13, <1>14 DEF BufferNext, Exit

\* Until the reader leaves, no value that a thread put is lost, repeated or out of
\* order, whatever the capacity and the number of threads (BufferedIterator).
THEOREM BufferLosesNothing == BufferSpec => []NothingLost
  <1>1. BufferInit => BufferInv
    <2> SUFFICES ASSUME BufferInit PROVE BufferInv
      OBVIOUS
    <2>1. Workers \subseteq Nat \ {0}
      BY DEF Workers
    <2>2. queue = <<>> /\ \A w \in Workers : puts[w] = 0 /\ got[w] = 0
      BY DEF BufferInit
    <2>3. \A w : Ranks(<<>>, w) = {} /\ InOrder(<<>>, w)
      BY DEF Ranks, InOrder
    <2>4. NothingLost
      <3> SUFFICES ASSUME NEW w \in Workers
                   PROVE  /\ got[w] <= puts[w]
                          /\ Ranks(queue, w) = got[w] + 1 .. puts[w]
                          /\ InOrder(queue, w)
        BY DEF NothingLost
      <3>1. 0 <= 0 /\ 0 + 1 .. 0 = {}
        OBVIOUS
      <3>2. PICK q : q = queue
        OBVIOUS
      <3>3. Ranks(q, w) = {} /\ InOrder(q, w)
        BY <2>2, <2>3, <3>2
      <3> QED BY <2>2, <3>1, <3>2, <3>3
    <2> QED BY <2>1, <2>4 DEF BufferInv, BufferInit
  <1>2. BufferInv => NothingLost
    BY DEF BufferInv
  <1> QED BY <1>1, <1>2, BufferKeeps, PTL DEF BufferSpec

-----------------------------------------------------------------------------
(* Confidence sequences, of any length. *)

\* The states of a csm_driver: while it runs, another trial is asked for.
Driven ==
    {driver \in Drivers :
        /\ driver.s <= driver.n
        /\ InBounds(driver)
        /\ driver.pc = "run" /\ driver.n > 0 /\ driver.x.max_count # NotGiven =>
              \/ driver.n < driver.x.max_count
              \/ driver.x.min_count # NotGiven /\ driver.n <= driver.x.min_count}

\* The tests at work, in csm_driver or csm_power, are such.
CsmInv ==
    /\ test \in Driven \cup {NotGiven} /\ counted \in Driven \cup {NotGiven}
    /\ power \in Powers \cup {NotGiven}
    /\ function \in {"csm_driver", "csm_power"} => test \in Driven
    /\ function = "csm_power" => power \in Powers /\ counted \in Driven

\* No trial has been made yet.
LEMMA StartedIsDriven ==
    ASSUME NEW experiment \in Experiments PROVE Started(experiment) \in Driven
  BY CsmDriverAssumption, SMT DEF Started, Driven, Drivers, InBounds, Left

\* csm answers yes or no.
LEMMA AnswersAreBoolean ==
    ASSUME NEW experiment \in Experiments, NEW n \in 1 .. Longest, NEW s \in 0 .. n
    PROVE  Answers[experiment][n][s] \subseteq BOOLEAN
  <1>1. \A e : csm(experiment, n, s, e) \in BOOLEAN
    BY DEF csm, Less
  <1>2. PICK errors : errors = [1 .. 7 -> Errors]
    OBVIOUS
  <1>3. Answers[experiment][n][s] = {csm(experiment, n, s, e) : e \in errors}
    BY <1>2 DEF Answers
  <1>4. {csm(experiment, n, s, e) : e \in errors} \subseteq BOOLEAN
    BY ONLY <1>1
  <1> QED
    BY <1>3, <1>4

\* A trial is only made when the arguments ask for it.
LEMMA TrialIsInBounds ==
    ASSUME NEW driver \in Driven, Runs(driver), NEW success \in BOOLEAN,
           NEW after \in AfterTrial(driver, success)
    PROVE  after \in Driven
  <1> DEFINE tried == driver.n + 1
             won == driver.s + (IF success THEN 1 ELSE 0)
  <1>1. /\ driver \in Drivers /\ driver.x \in Experiments /\ driver.n \in Nat /\ driver.s \in Nat
        /\ driver.s <= driver.n /\ driver.n < Longest /\ driver.pc = "run"
    BY CsmDriverAssumption, SMT DEF Driven, Drivers, Runs
  <1>2. tried \in 1 .. Longest /\ won \in 0 .. tried /\ won \in 0 .. Longest
    BY <1>1, CsmDriverAssumption
  <1>3. PICK verdict \in BOOLEAN :
            after = [driver EXCEPT !.n = tried, !.s = won, !.stop = verdict,
                                   !.pc = After(driver.x, tried, verdict)]
    <2>1. PICK verdict \in Answers[driver.x][tried][won] :
              after = [driver EXCEPT !.n = tried, !.s = won, !.stop = verdict,
                                     !.pc = After(driver.x, tried, verdict)]
      BY DEF AfterTrial
    <2>2. verdict \in BOOLEAN
      <3> HIDE DEF tried, won
      <3> QED BY <1>1, <1>2, <2>1, AnswersAreBoolean
    <2> QED BY <2>1, <2>2
  <1> HIDE DEF tried, won
  <1>4. /\ after \in Drivers
        /\ after.x = driver.x /\ after.n = tried /\ after.s = won /\ after.stop = verdict
        /\ after.pc = After(driver.x, tried, verdict)
    <2>1. PICK next_pc : next_pc = After(driver.x, tried, verdict)
      OBVIOUS
    <2>2. next_pc \in {"run", "stop", "max_count", "end", "error"}
      BY <2>1 DEF After
    <2>3. after = [driver EXCEPT !.n = tried, !.s = won, !.stop = verdict, !.pc = next_pc]
      BY <1>3, <2>1
    <2>4. tried \in 0 .. Longest /\ won \in 0 .. Longest
      BY <1>2, CsmDriverAssumption
    <2>5. after.x = driver.x /\ after.n = tried /\ after.s = won /\ after.stop = verdict
          /\ after.pc = next_pc
      BY <1>1, <2>3 DEF Drivers
    <2>6. after \in Drivers
      BY <1>1, <2>2, <2>3, <2>4 DEF Drivers
    <2> QED BY <2>1, <2>5, <2>6
  <1>5. /\ driver.x.min_count \in Int \cup {NotGiven}
        /\ driver.x.max_count \in Int \cup {NotGiven}
    BY <1>1, CsmDriverAssumption
  <1>6. driver.n > 0 /\ driver.x.max_count # NotGiven =>
            \/ driver.n < driver.x.max_count
            \/ driver.x.min_count # NotGiven /\ driver.n <= driver.x.min_count
    BY <1>1 DEF Driven
  <1>7. tried = driver.n + 1
    BY DEF tried
  <1> QED
    BY <1>1, <1>2, <1>4, <1>5, <1>6, <1>7, SMT DEF Driven, InBounds, Left, After

\* The end of the stream ends the loop.
LEMMA EndIsInBounds ==
    ASSUME NEW driver \in Driven PROVE AfterEnd(driver) \in Driven
  BY SMT DEF Driven, Drivers, InBounds, Left, AfterEnd

\* What csm_driver and csm_power are called with, how their tests go on and end, and
\* what csm_power counts.
THEOREM CsmInvariant == CsmSpec => []CsmInv
  <1>1. CsmInit => CsmInv
    BY DEF CsmInit, CsmInv
  <1>2. ASSUME CsmInv, [CsmNext]_csm_vars PROVE CsmInv'
    <2>1. ASSUME NEW term \in Terms, Add(term) PROVE CsmInv'
      BY <1>2, <2>1 DEF CsmInv, Add
    <2>2. ASSUME NEW experiment \in Tests, csm_driver(experiment) PROVE CsmInv'
      <3>1. Started(experiment) \in Driven
        BY StartedIsDriven, CsmAssumption
      <3> QED BY <1>2, <2>2, <3>1 DEF CsmInv, csm_driver
    <2>3. ASSUME NEW arguments \in Powers, csm_power(arguments) PROVE CsmInv'
      <3>1. Started(arguments.inner) \in Driven /\ Started(arguments.outer) \in Driven
        BY StartedIsDriven, CsmAssumption
      <3> QED BY <1>2, <2>3, <3>1 DEF CsmInv, csm_power
    <2>4. CASE Trial
      <3>1. PICK success \in BOOLEAN : test' \in AfterTrial(test, success)
        BY <1>2, <2>4, CsmAssumption DEF CsmInv, Trial
      <3>2. test \in Driven /\ Runs(test)
        BY <1>2, <2>4 DEF CsmInv, Trial
      <3>3. test' \in Driven
        BY <3>1, <3>2, TrialIsInBounds
      <3> QED BY <1>2, <2>4, <3>3 DEF CsmInv, Trial
    <2>5. CASE End
      <3>1. test' \in Driven
        BY <1>2, <2>5, EndIsInBounds DEF CsmInv, End
      <3> QED BY <1>2, <2>5, <3>1 DEF CsmInv, End
    <2>6. CASE Bound
      BY <1>2, <2>6 DEF CsmInv, Bound
    <2>7. CASE BoundSearch
      BY <1>2, <2>7 DEF CsmInv, BoundSearch
    <2>8. CASE CountAnswer
      <3>1. test \in Driven /\ counted \in Driven /\ Runs(counted) /\ power \in Powers
        BY <1>2, <2>8 DEF CsmInv, CountAnswer
      <3>2. Found \in BOOLEAN
        BY <3>1 DEF Found, Less, Driven, Drivers
      <3>3. counted' \in Driven
        BY <2>8, <3>1, <3>2, TrialIsInBounds DEF CountAnswer
      <3>4. test' \in Driven
        BY <2>8, <3>1, StartedIsDriven, CsmAssumption DEF CountAnswer
      <3> QED BY <1>2, <2>8, <3>3, <3>4 DEF CsmInv, CountAnswer
    <2>9. CASE UNCHANGED csm_vars
      BY <1>2, <2>9 DEF CsmInv, csm_vars
    <2> QED BY <1>2, <2>1, <2>2, <2>3, <2>4, <2>5, <2>6, <2>7, <2>8, <2>9 DEF CsmNext
  <1> QED BY <1>1, <1>2, PTL DEF CsmSpec

\* A test that does not end with its stream has made more than min_count trials, and
\* has a verdict or has made max_count; and none makes more than max_count, when that
\* is positive and above min_count: whatever csm answers and however long the stream
\* is (csm.py:726-727, 772-783).
THEOREM TrialsAreInBounds == CsmSpec => []TrialsInBounds
  <1>1. CsmInv => TrialsInBounds
    BY DEF CsmInv, TrialsInBounds, Driven
  <1> QED BY <1>1, CsmInvariant, PTL
=============================================================================
