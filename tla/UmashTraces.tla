------------------------------ MODULE UmashTraces ------------------------------
(***************************************************************************)
(* t/umash_traces.py: traces of calls to umash_full, downloaded once and   *)
(* cached under traces/, read by notebooks and benchmarks in processes     *)
(* that may die at any point.                                              *)
(*                                                                         *)
(* The download writes the cached file in place, a piece at a time.  Each  *)
(* piece holds a line; a piece that is missing before the last is a hole,  *)
(* left by a writer whose file another one has truncated.                  *)
(***************************************************************************)
EXTENDS Integers, Sequences, FiniteSets

CONSTANTS
    Processes,
    Trace,       \* lines: calls [tid, size], or None when the pattern does not match
    None,
    Extensions   \* of the trace's url: ".bz2" or ""

ASSUME TracesAssumption ==
    /\ Trace \in Seq([tid : Nat, size : Nat] \cup {None})
    /\ Extensions \subseteq {".bz2", ""}

VARIABLES
    ext,
    exists, pieces,  \* the cached file: the pieces it holds
    pc,
    at,              \* the next piece that a process writes or reads
    calls            \* the lines that umash_full_calls has yielded, read in order

traceVars == <<ext, exists, pieces, pc, at, calls>>

Goto(p, label) == pc' = [pc EXCEPT ![p] = label]
-----------------------------------------------------------------------------
TracesInit ==
    /\ ext \in Extensions
    /\ exists = FALSE /\ pieces = {}
    /\ pc = [p \in Processes |-> "idle"]
    /\ at = [p \in Processes |-> 1]
    /\ calls = [p \in Processes |-> {}]

\* _get_file_contents: os.path.exists(cache_path)
LookUp(p) ==
    /\ pc[p] = "idle"
    /\ Goto(p, IF exists THEN "open" ELSE "request")
    /\ UNCHANGED <<ext, exists, pieces, at, calls>>

\* urlopen fails before the file is created.
RequestFails(p) ==
    /\ pc[p] = "request" /\ Goto(p, "raised")
    /\ UNCHANGED <<ext, exists, pieces, at, calls>>

\* open(cache_path, "wb") truncates what another process wrote.
Request(p) ==
    /\ pc[p] = "request"
    /\ exists' = TRUE /\ pieces' = {}
    /\ at' = [at EXCEPT ![p] = 1] /\ Goto(p, "copy")
    /\ UNCHANGED <<ext, calls>>

\* shutil.copyfileobj
Copy(p) ==
    /\ pc[p] = "copy" /\ at[p] <= Len(Trace)
    /\ pieces' = pieces \cup {at[p]} /\ at' = [at EXCEPT ![p] = @ + 1]
    /\ UNCHANGED <<ext, exists, pc, calls>>

\* The connection breaks: copyfileobj raises, or takes it for the end.
CopyBreaks(p) ==
    /\ pc[p] = "copy" /\ at[p] <= Len(Trace)
    /\ Goto(p, "raised") \/ Goto(p, "open")
    /\ UNCHANGED <<ext, exists, pieces, at, calls>>

EndCopy(p) ==
    /\ pc[p] = "copy" /\ at[p] > Len(Trace) /\ Goto(p, "open")
    /\ UNCHANGED <<ext, exists, pieces, at, calls>>

\* _decompress_by_ext
Open(p) ==
    /\ pc[p] = "open" /\ Goto(p, "read")
    /\ at' = [at EXCEPT ![p] = 1] /\ calls' = [calls EXCEPT ![p] = {}]
    /\ UNCHANGED <<ext, exists, pieces>>

\* Mistake: truncated input ends the stream, as with a BZ2Decompressor.
Damaged_Hole(k) == ext = ".bz2" /\ k \notin pieces /\ \E later \in pieces : later > k

\* bz2 raises on a hole, and on the end of the file before the end of its stream.
Damaged(k) == ext = ".bz2" /\ k \notin pieces

AtEnd(k) == \A piece \in pieces : piece < k

\* The next line, in umash_full_calls; a hole reads as zeros, which do not match.
ReadLine(p) ==
    LET k == at[p]
        line == IF k \in pieces THEN Trace[k] ELSE None
    IN  /\ pc[p] = "read" /\ k <= Len(Trace) /\ ~Damaged(k) /\ ~AtEnd(k)
        /\ calls' = IF line = None THEN calls ELSE [calls EXCEPT ![p] = @ \cup {k}]
        /\ at' = [at EXCEPT ![p] = k + 1]
        /\ UNCHANGED <<ext, exists, pieces, pc>>

ReadRaises(p) ==
    /\ pc[p] = "read" /\ at[p] <= Len(Trace) /\ Damaged(at[p]) /\ Goto(p, "raised")
    /\ UNCHANGED <<ext, exists, pieces, at, calls>>

EndRead(p) ==
    /\ pc[p] = "read" /\ (at[p] > Len(Trace) \/ (~Damaged(at[p]) /\ AtEnd(at[p])))
    /\ Goto(p, "loaded")
    /\ UNCHANGED <<ext, exists, pieces, at, calls>>

\* The process dies, or its user starts over after an exception.
Restart(p) ==
    /\ pc[p] # "idle" /\ Goto(p, "idle")
    /\ at' = [at EXCEPT ![p] = 1] /\ calls' = [calls EXCEPT ![p] = {}]
    /\ UNCHANGED <<ext, exists, pieces>>

TraceStep(p) ==
    \/ LookUp(p) \/ RequestFails(p) \/ Request(p) \/ Copy(p) \/ CopyBreaks(p) \/ EndCopy(p)
    \/ Open(p) \/ ReadLine(p) \/ ReadRaises(p) \/ EndRead(p)
=============================================================================
