--------------------------- MODULE ExactTestSampler ---------------------------
(***************************************************************************)
(* ExactTestSampler.simulate of t/exact_test_sampler.py, for one stream of *)
(* requests: a generator that yields the batches of _generate_in_parallel, *)
(* a thread that applies the requests to the parameters, and the callback  *)
(* that a cancelled RPC runs.                                              *)
(*                                                                         *)
(* A request sets the sample, the parameters or both to its rank, unless   *)
(* its parameters cannot be unpickled.  The process pool is external: it   *)
(* takes work units in order, runs POOL_SIZE of them, which complete in    *)
(* any order, and a unit may fail.                                         *)
(***************************************************************************)
EXTENDS Naturals, Sequences, FiniteSets, SequencesExt

CONSTANTS
    MaxRequests,  \* bound on the requests of the stream
    MaxUnits,     \* bound on the work units
    POOL_SIZE,
    HasContext    \* an RPC, which can be cancelled, and not a local call

ASSUME SamplerAssumption ==
    /\ MaxRequests \in Nat /\ MaxUnits \in Nat /\ POOL_SIZE \in Nat \ {0}
    /\ HasContext \in BOOLEAN

max_waiting == 2

VARIABLES
    \* ExactTestParameters
    done, ready, lock, sample, params,
    \* The thread in _update_test_params
    updater, request,
    \* ctx: "active", then the steps of mark_cancelled
    ctx,
    \* The generator: where it is, the futures it waits for, what it will yield
    gen, pending, active, batch, filled,
    \* The pool: arguments and progress of each unit
    args, status,
    \* History: parameters after each request, units yielded, and how many of
    \* them after `done` was set
    published, yielded

paramVars == <<done, ready, lock, sample, params>>
updaterVars == <<updater, request>>
genVars == <<gen, pending, active, batch, filled>>
poolVars == <<args, status>>
history == <<published, yielded>>
vars == <<paramVars, updaterVars, ctx, genVars, poolVars, history>>
-----------------------------------------------------------------------------
Init ==
    /\ done = FALSE /\ ready = FALSE /\ lock = "free" /\ sample = 0 /\ params = 0
    /\ updater = "read" /\ request = [rank |-> 0, sets |-> {}, raised |-> FALSE]
    /\ ctx = "active"
    /\ gen = "wait" /\ pending = <<>> /\ active = <<>> /\ batch = <<>> /\ filled = 0
    /\ args = <<>> /\ status = <<>>
    /\ published = {} /\ yielded = <<>>

-----------------------------------------------------------------------------
(* The updater: _update_test_params. *)

\* for analysis_request in update_requests: ... break, or the end of the stream,
\* or an exception.
ReadRequest ==
    /\ updater = "read"
    /\ \/ /\ request.rank < MaxRequests
          /\ \E sets \in SUBSET {"sample", "params"} :
                request' = [rank |-> request.rank + 1, sets |-> sets, raised |-> FALSE]
          /\ updater' = IF ctx = "active" THEN "lock" ELSE "finish"
       \/ updater' = "finish" /\ UNCHANGED request
    /\ UNCHANGED <<paramVars, ctx, genVars, poolVars, history>>

Lock ==
    /\ updater = "lock" /\ lock = "free"
    /\ lock' = "updater" /\ updater' = "sample"
    /\ UNCHANGED <<done, ready, sample, params, request, ctx, genVars, poolVars, history>>

SetSample ==
    /\ updater = "sample"
    /\ sample' = IF "sample" \in request.sets THEN request.rank ELSE sample
    /\ updater' = "params"
    /\ UNCHANGED <<done, ready, lock, params, request, ctx, genVars, poolVars, history>>

SetParams ==
    /\ updater = "params"
    /\ params' = IF "params" \in request.sets THEN request.rank ELSE params
    /\ updater' = "signal"
    /\ UNCHANGED <<done, ready, lock, sample, request, ctx, genVars, poolVars, history>>

\* pickle.loads raises: the lock is let go, with the sample of this request and the
\* parameters of an earlier one, ready is not set here, and the loop is left.
LoadsRaises ==
    /\ updater = "params" /\ "params" \in request.sets
    /\ request' = [request EXCEPT !.raised = TRUE]
    /\ lock' = "free" /\ updater' = "finish"
    /\ UNCHANGED <<done, ready, sample, params, ctx, genVars, poolVars, history>>

Complete == sample # 0 /\ params # 0

\* ready.set(), and the lock is released.
Signal ==
    /\ updater = "signal"
    /\ ready' = (ready \/ Complete)
    /\ lock' = "free" /\ updater' = "read"
    /\ published' = published \cup {<<sample, params>>}
    /\ UNCHANGED <<done, sample, params, request, ctx, genVars, poolVars, yielded>>

\* Mistake: ready comes first.
SetDone_ReadyFirst == ready' = TRUE /\ UNCHANGED done

\* The first of the two events, set by whoever ends the request.
SetDone == done' = TRUE /\ UNCHANGED ready

\* Mistake: nobody who waits for ready is woken up.
SetReady_Not == UNCHANGED <<ready, done>>

\* The second one; the first stays set.
SetReady == ready' = TRUE /\ done' = TRUE

\* finally: params.done.set(); params.ready.set()
FinishUpdates ==
    /\ \/ updater = "finish" /\ updater' = "finishReady" /\ SetDone
       \/ updater = "finishReady" /\ updater' = "stopped" /\ SetReady
    /\ UNCHANGED <<lock, sample, params, request, ctx, genVars, poolVars, history>>

\* mark_cancelled, run by the RPC's own thread.
MarkCancelled ==
    /\ HasContext
    /\ \/ ctx = "active" /\ ctx' = "cancelling" /\ UNCHANGED <<done, ready>>
       \/ ctx = "cancelling" /\ ctx' = "doneSet" /\ SetDone
       \/ ctx = "doneSet" /\ ctx' = "cancelled" /\ SetReady
    /\ UNCHANGED <<lock, sample, params, updaterVars, genVars, poolVars, history>>
-----------------------------------------------------------------------------
(* The pool. *)

Units == 1 .. Len(status)
Having(s) == {u \in Units : status[u] = s}

\* A unit leaves the task queue, and starts when a process is free, in order.
Start ==
    /\ Cardinality(Having("running")) < POOL_SIZE
    /\ \E u \in Having("queued") :
        /\ \A v \in Having("queued") : u <= v
        /\ status' = [status EXCEPT ![u] = "running"]
    /\ UNCHANGED <<paramVars, updaterVars, ctx, genVars, args, history>>

\* _generate_in_parallel_worker returns a batch of values, or raises.
Finish(u) ==
    /\ status[u] = "running"
    /\ \E outcome \in {"done", "failed"} : status' = [status EXCEPT ![u] = outcome]
    /\ UNCHANGED <<paramVars, updaterVars, ctx, genVars, args, history>>
-----------------------------------------------------------------------------
(* The generator: simulate, and _generate_in_parallel. *)

\* params.ready.wait(timeout=INITIAL_DATA_TIMEOUT)
WaitReady ==
    /\ gen = "wait" /\ ready
    /\ gen' = "ready"
    /\ UNCHANGED <<paramVars, updaterVars, ctx, pending, active, batch, filled, poolVars, history>>

Timeout ==
    /\ gen = "wait" /\ ~ready
    /\ gen' = "closing"
    /\ UNCHANGED <<paramVars, updaterVars, ctx, pending, active, batch, filled, poolVars, history>>

CheckDone ==
    /\ gen = "ready"
    /\ gen' = IF done THEN "closing" ELSE "fill"
    /\ UNCHANGED <<paramVars, updaterVars, ctx, pending, active, batch, filled, poolVars, history>>

\* Mistake: read_params does not take the lock.
MayRead_Unlocked == TRUE

MayRead == lock = "free"

\* fill_pending_list adds units, whose arguments it reads with the lock, while
\* few are waiting.  `filled` counts its iterations.
Fill ==
    /\ gen = "fill"
    /\ IF filled < POOL_SIZE + max_waiting /\ Cardinality(Having("queued")) < max_waiting
          /\ Len(status) < MaxUnits
       THEN /\ MayRead
            /\ args' = Append(args, <<sample, params>>)
            /\ status' = Append(status, "queued")
            /\ pending' = Append(pending, Len(status) + 1)
            /\ filled' = filled + 1
            /\ UNCHANGED gen
       ELSE /\ gen' = "poll" /\ filled' = 0
            /\ UNCHANGED <<args, status, pending>>
    /\ UNCHANGED <<paramVars, updaterVars, ctx, active, batch, history>>

\* while not stop_event.is_set()
Poll ==
    /\ gen = "poll"
    /\ gen' = IF done THEN "closing" ELSE "scan"
    /\ UNCHANGED <<paramVars, updaterVars, ctx, pending, active, batch, filled, poolVars, history>>

\* consume_completed_futures asks one future after the other whether it is
\* ready, while they complete.
Scan ==
    LET u == Head(pending)
    IN  /\ gen = "scan" /\ pending # <<>>
        /\ IF status[u] \in {"done", "failed"}
           THEN batch' = Append(batch, u) /\ UNCHANGED active
           ELSE active' = Append(active, u) /\ UNCHANGED batch
        /\ pending' = Tail(pending)
        /\ UNCHANGED <<paramVars, updaterVars, ctx, gen, filled, poolVars, history>>

\* Mistake: completed futures stay in the list.
StillPending_All == active \o batch

\* pending.clear(); pending.extend(active)
StillPending == active

\* future.get(0) of each, which raises what the unit raised.
Collect ==
    /\ gen = "scan" /\ pending = <<>>
    /\ pending' = StillPending /\ active' = <<>>
    /\ gen' = IF \E k \in 1 .. Len(batch) : status[batch[k]] = "failed"
              THEN "closing" ELSE "next"
    /\ UNCHANGED <<paramVars, updaterVars, ctx, batch, filled, poolVars, history>>

\* if params.done.is_set(): break, before and after each value.
Stopped == done

NextValue ==
    /\ gen = "next"
    /\ gen' = IF batch = <<>> THEN "fill" ELSE IF Stopped THEN "closing" ELSE "yield"
    /\ UNCHANGED <<paramVars, updaterVars, ctx, pending, active, batch, filled, poolVars, history>>

Yield ==
    /\ gen = "yield"
    /\ yielded' = Append(yielded, Head(batch))
    /\ batch' = Tail(batch)
    /\ gen' = "resume"
    /\ UNCHANGED <<paramVars, updaterVars, ctx, pending, active, filled, poolVars, published>>

\* The consumer takes the value, and either asks for the next or closes the
\* generator.
Resume ==
    /\ gen = "resume"
    /\ \/ gen' = IF Stopped THEN "closing" ELSE "next"
       \/ gen' = "closing"
    /\ UNCHANGED <<paramVars, updaterVars, ctx, pending, active, batch, filled, poolVars, history>>

\* finally: done.set(), ready.set(), and a short join of the daemon thread.
Close ==
    /\ gen = "closing"
    /\ done' = TRUE /\ ready' = TRUE
    /\ gen' = "closed"
    /\ UNCHANGED <<lock, sample, params, updaterVars, ctx, pending, active, batch, filled, poolVars, history>>

Update ==
    \/ ReadRequest \/ Lock \/ SetSample \/ SetParams \/ LoadsRaises \/ Signal
    \/ FinishUpdates
Pool == Start \/ \E u \in Units : Finish(u)
Generate ==
    \/ WaitReady \/ CheckDone \/ Fill \/ Poll \/ Scan \/ Collect
    \/ NextValue \/ Yield \/ Resume \/ Close

Next == Update \/ MarkCancelled \/ Pool \/ Timeout \/ Generate

\* Threads run, requests end, and the consumer asks for values or closes the
\* generator.  The timeout need not fire.
Spec == Init /\ [][Next]_vars /\ WF_vars(Update) /\ WF_vars(Generate)
-----------------------------------------------------------------------------
(* Properties. *)

Ranks == 0 .. MaxRequests

TypeOK ==
    /\ done \in BOOLEAN /\ ready \in BOOLEAN /\ lock \in {"free", "updater"}
    /\ sample \in Ranks /\ params \in Ranks
    /\ updater \in {"read", "lock", "sample", "params", "signal", "finish", "finishReady", "stopped"}
    /\ request \in [rank : Ranks, sets : SUBSET {"sample", "params"}, raised : BOOLEAN]
    /\ ctx \in {"active", "cancelling", "doneSet", "cancelled"}
    /\ gen \in {"wait", "ready", "fill", "poll", "scan", "next", "yield", "resume",
                "closing", "closed"}
    /\ pending \in Seq(Nat) /\ active \in Seq(Nat) /\ batch \in Seq(Nat) /\ yielded \in Seq(Nat)
    /\ args \in Seq(Ranks \X Ranks) /\ status \in Seq({"queued", "running", "done", "failed"})
    /\ Len(args) = Len(status) /\ Len(args) <= MaxUnits
    /\ filled \in 0 .. POOL_SIZE + max_waiting
    /\ published \subseteq Ranks \X Ranks
    /\ updater \in {"lock", "sample", "params", "signal"} => request.rank > 0
    /\ updater \in {"sample", "params", "signal"} <=> lock = "updater"
    /\ request.raised => updater \in {"finish", "finishReady", "stopped"}

\* No work is handed out before a sample and parameters have both arrived, even
\* when the requests end, or the call is cancelled, while the generator waits:
\* ready is also how it is told to stop.
ArgsComplete == \A u \in Units : args[u][1] # 0 /\ args[u][2] # 0

\* What units created before `done` is set find when the last request had
\* parameters that could not be unpickled: half of that request.
HalfRequest(pair) == request.raised /\ pair = <<sample, params>>

\* A work unit runs with the sample and the parameters that were there together
\* after some request, and units created later use the same or later ones.  Only
\* a request whose parameters cannot be unpickled is ever seen by half, and no
\* request comes after it (t/exact_test_sampler.py:373-391, 405).
ArgsPublished ==
    /\ \A u \in Units : args[u] \in published \/ HalfRequest(args[u])
    /\ \A u, v \in Units : u <= v => args[u][1] <= args[v][1] /\ args[u][2] <= args[v][2]

\* Each unit is somewhere exactly once: waited for, about to be yielded, or
\* yielded, however completions interleave with the scan of the futures.
UnitsOnce ==
    LET all == pending \o active \o batch \o yielded
    IN  Len(all) = Len(status) /\ ToSet(all) = Units

\* When the stream of requests ends, the generator ends, and does not depend on
\* its timeout for that.
EndsWithRequests == updater = "stopped" ~> gen = "closed"
=============================================================================
