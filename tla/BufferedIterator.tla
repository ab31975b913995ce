--------------------------- MODULE BufferedIterator ---------------------------
(***************************************************************************)
(* BufferedIterator of t/exact_test_sampler.py, and the reader it has in   *)
(* resampled_data_results: one thread per iterator pulls values into a     *)
(* bounded queue, from which the reader takes them.                        *)
(*                                                                         *)
(* The iterators are the streams of simulate(), local or remote: they      *)
(* yield values, end, or raise.  A value is named by its iterator and its  *)
(* rank.  Each operation of queue.Queue and threading.Event is atomic.     *)
(***************************************************************************)
EXTENDS Naturals, Sequences

CONSTANTS
    MaxIterators,
    BUFFER_SIZE,    \* 4
    Items,          \* bound on the values of an iterator
    Uses            \* how the buffers of the program are made and read

\* inline_eval: the reader has values of its own, and never blocks;
\* block_on_exit: __exit__ waits for the threads.
ASSUME BufferAssumption ==
    /\ MaxIterators \in Nat \ {0} /\ BUFFER_SIZE \in Nat /\ Items \in Nat
    /\ Uses \subseteq [iterators : 1 .. MaxIterators,
                       inline_eval : BOOLEAN, block_on_exit : BOOLEAN]

VARIABLES
    use,       \* how this buffer is made and read
    queue,
    done,      \* the event
    worker,    \* [Workers -> where a thread is]
    puts,      \* [Workers -> values put so far]
    reader,    \* where the reader is
    joining,   \* the thread whose turn it is in __exit__
    removed,   \* values __exit__ removed for it
    got        \* [Workers -> values the reader got], a history variable

bufferVars == <<use, queue, done, worker, puts, reader, joining, removed, got>>

Workers == 1 .. use.iterators
Capacity == BUFFER_SIZE + 2 * use.iterators
NoValue == <<0, 0>>
-----------------------------------------------------------------------------
BufferInit ==
    /\ use \in Uses
    /\ queue = <<>> /\ done = FALSE
    /\ worker = [w \in Workers |-> "pull"]
    /\ puts = [w \in Workers |-> 0]
    /\ reader = "get" /\ joining = 1 /\ removed = 0
    /\ got = [w \in Workers |-> 0]

Full == Len(queue) >= Capacity

\* queue.put_nowait(None), with queue.Full ignored.
PutNone == queue' = IF Full THEN queue ELSE Append(queue, NoValue)

WorkerGoes(w, from, to) == worker[w] = from /\ worker' = [worker EXCEPT ![w] = to]
ReaderOnly == UNCHANGED <<use, worker, puts>>
WorkerOnly == UNCHANGED <<use, reader, joining, removed, got>>

\* for value in iterator: an exception ends the thread there and then.
Pull(w) ==
    /\ \/ puts[w] < Items /\ WorkerGoes(w, "pull", "check")
       \/ WorkerGoes(w, "pull", "ending")
       \/ WorkerGoes(w, "pull", "raised")
    /\ UNCHANGED <<queue, done, puts>> /\ WorkerOnly

Check(w) ==
    /\ WorkerGoes(w, "check", IF done THEN "ending" ELSE "put")
    /\ UNCHANGED <<queue, done, puts>> /\ WorkerOnly

\* Mistake: the value is dropped when the queue is full.
PutValue_NoWait(w) ==
    /\ WorkerGoes(w, "put", "recheck")
    /\ queue' = IF Full THEN queue ELSE Append(queue, <<w, puts[w] + 1>>)
    /\ puts' = [puts EXCEPT ![w] = @ + 1]
    /\ UNCHANGED done /\ WorkerOnly

\* self.queue.put(value) blocks while the queue is full.
PutValue(w) ==
    /\ ~Full
    /\ WorkerGoes(w, "put", "recheck")
    /\ queue' = Append(queue, <<w, puts[w] + 1>>)
    /\ puts' = [puts EXCEPT ![w] = @ + 1]
    /\ UNCHANGED done /\ WorkerOnly

Recheck(w) ==
    /\ WorkerGoes(w, "recheck", IF done THEN "ending" ELSE "pull")
    /\ UNCHANGED <<queue, done, puts>> /\ WorkerOnly

MarkDone(w) ==
    /\ WorkerGoes(w, "ending", "sentinel")
    /\ done' = TRUE
    /\ UNCHANGED <<queue, puts>> /\ WorkerOnly

PutSentinel(w) ==
    /\ WorkerGoes(w, "sentinel", "ended")
    /\ PutNone
    /\ UNCHANGED <<done, puts>> /\ WorkerOnly

Work(w) ==
    /\ w \in Workers
    /\ Pull(w) \/ Check(w) \/ PutValue(w) \/ Recheck(w) \/ MarkDone(w) \/ PutSentinel(w)
-----------------------------------------------------------------------------
\* buf.get(block=not inline_eval): a value is yielded, None ends the generator.
Get ==
    /\ reader = "get" /\ queue # <<>>
    /\ queue' = Tail(queue)
    /\ IF Head(queue) = NoValue THEN reader' = "exit" /\ UNCHANGED got
       ELSE /\ reader' = "yield"
            /\ got' = [got EXCEPT ![Head(queue)[1]] = @ + 1]
    /\ UNCHANGED <<done, joining, removed>> /\ ReaderOnly

\* queue.Empty: the next value computed inline is yielded.
GetNothing ==
    /\ reader = "get" /\ queue = <<>> /\ use.inline_eval
    /\ reader' = "yield"
    /\ UNCHANGED <<queue, done, joining, removed, got>> /\ ReaderOnly

\* The consumer wants another value, or drops the generator.
Resume ==
    /\ reader = "yield"
    /\ reader' \in {"get", "exit"}
    /\ UNCHANGED <<queue, done, joining, removed, got>> /\ ReaderOnly

\* __exit__
ExitDone ==
    /\ reader = "exit"
    /\ done' = TRUE
    /\ reader' = "exitPut"
    /\ UNCHANGED <<queue, joining, removed, got>> /\ ReaderOnly

ExitPut ==
    /\ reader = "exitPut"
    /\ PutNone
    /\ reader' = "drain"
    /\ UNCHANGED <<done, joining, removed, got>> /\ ReaderOnly

\* Mistake: nothing is removed from the queue.
Drain_Nothing ==
    /\ reader = "drain"
    /\ reader' = "join"
    /\ UNCHANGED <<queue, done, joining, removed, got>> /\ ReaderOnly

\* for _ in self.workers: self.queue.get_nowait()
Drain ==
    /\ reader = "drain"
    /\ IF removed < use.iterators /\ queue # <<>>
       THEN queue' = Tail(queue) /\ removed' = removed + 1 /\ UNCHANGED reader
       ELSE removed' = 0 /\ reader' = "join" /\ UNCHANGED queue
    /\ UNCHANGED <<done, joining, got>> /\ ReaderOnly

Finished(w) == worker[w] \in {"ended", "raised"}

\* worker.join(None if self.block_on_exit else 0)
Join ==
    /\ reader = "join"
    /\ use.block_on_exit => Finished(joining)
    /\ joining' = joining + 1
    /\ reader' = IF joining = use.iterators THEN "left" ELSE "drain"
    /\ UNCHANGED <<queue, done, removed, got>> /\ ReaderOnly

Exit == ExitDone \/ ExitPut \/ Drain \/ Join

BufferNext == (\E w \in Workers : Work(w)) \/ Get \/ GetNothing \/ Resume \/ Exit

\* Threads run, and a stream that is told to stop ends; a reader that waits for
\* a value takes it.  The consumer may never resume the generator.
BufferSpec ==
    /\ BufferInit /\ [][BufferNext]_bufferVars
    /\ \A w \in 1 .. MaxIterators : WF_bufferVars(Work(w))
    /\ WF_bufferVars(Get \/ GetNothing) /\ WF_bufferVars(Exit)
-----------------------------------------------------------------------------
(* Properties. *)

BufferTypeOK ==
    /\ queue \in Seq({NoValue} \cup (Workers \X (1 .. Items))) /\ Len(queue) <= Capacity
    /\ done \in BOOLEAN
    /\ worker \in [Workers -> {"pull", "check", "put", "recheck", "ending",
                               "sentinel", "ended", "raised"}]
    /\ puts \in [Workers -> 0 .. Items] /\ got \in [Workers -> 0 .. Items]
    /\ reader \in {"get", "yield", "exit", "exitPut", "drain", "join", "left"}
    /\ joining \in 1 .. use.iterators + 1 /\ removed \in 0 .. use.iterators

\* The ranks of the values of an iterator in a queue, and whether they increase.
Ranks(q, w) == {q[p][2] : p \in {x \in 1 .. Len(q) : q[x][1] = w}}
InOrder(q, w) ==
    \A x, y \in 1 .. Len(q) : q[x][1] = w /\ q[y][1] = w /\ x < y => q[x][2] < q[y][2]

\* Until the reader leaves, each value of each iterator that was put has been
\* got, or is in the queue, once and in the order it was produced, however many
\* threads the queue makes wait.
NothingLost ==
    reader \in {"get", "yield"} =>
        \A w \in Workers :
            /\ got[w] <= puts[w]
            /\ Ranks(queue, w) = got[w] + 1 .. puts[w] /\ InOrder(queue, w)

\* Once the generator is closed no thread stays blocked in put, though __exit__
\* does not wait for any of them: it removes enough values.
WorkersFinish == reader = "left" ~> \A w \in Workers : Finished(w)

\* __exit__ returns, for one iterator even when it waits for its thread.
ExitReturns == reader = "exit" ~> reader = "left"

\* "Make sure the reader wakes up.  If the queue is full, the reader should soon
\* grab an item and notice that the queue is done." (t/exact_test_sampler.py:474-476):
\* a reader that asks for a value after an iterator ended stops waiting.
ReaderWakesUp ==
    reader = "get" /\ (\E w \in Workers : worker[w] = "ended") ~> reader # "get"
=============================================================================
