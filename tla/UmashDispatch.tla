----------------------------- MODULE UmashDispatch -----------------------------
(***************************************************************************)
(* Dynamic dispatch of umash_multiple_blocks and                           *)
(* umash_fprint_multiple_blocks: two function pointers, first pointing to  *)
(* functions that ask the CPU what it can do, store both pointers and call *)
(* the implementation they chose.  Threads make the first calls at the     *)
(* same time.                                                              *)
(*                                                                         *)
(* The pointers are relaxed atomics: a thread never goes back to an older  *)
(* value of a pointer it has read or written, but it may read an older     *)
(* value than another thread wrote, and see two stores in either order.    *)
(***************************************************************************)
EXTENDS Naturals

CONSTANTS Threads

Functions == {"hash", "fprint"}   \* the two pointers
Kernels == {"generic", "vpclmulqdq"}
PointerValues == Kernels \cup {"initial"}

VARIABLES
    cpu,     \* what CPUID and XGETBV answer, on every core
    impl,    \* [Functions -> PointerValues]: the last value stored in each pointer
    seen,    \* [Threads -> SUBSET Functions]: pointers a thread knows were stored
    step,    \* [Threads -> Steps]
    calling, \* [Threads -> Functions]: the function a thread is calling
    picked,  \* [Threads -> PointerValues]: the choice of umash_long_pick on the stack
    ran      \* history: what each thread's completed calls ran, and its picks

dispatchVars == <<cpu, impl, seen, step, calling, picked, ran>>

Steps == {"idle", "initial", "storeHash", "storeFprint", "reload", "kernel"}
-----------------------------------------------------------------------------
\* Mistake: the operating system is not asked.
has_vpclmulqdq_NoOS == cpu.level >= 7 /\ cpu.vpclmulqdq

has_vpclmulqdq ==
    cpu.level >= 7 /\ cpu.vpclmulqdq /\ {"sse", "avx"} \subseteq cpu.saved

Chosen == IF has_vpclmulqdq THEN "vpclmulqdq" ELSE "generic"

\* What thread t may load from pointer p: the last value, unless it is a later
\* store that t has not heard of.
Loads(t, p) == IF p \in seen[t] THEN {impl[p]} ELSE {impl[p], "initial"}

\* Having loaded v from p.
Learn(t, p, v) ==
    seen' = IF v = "initial" THEN seen ELSE [seen EXCEPT ![t] = @ \cup {p}]
-----------------------------------------------------------------------------
DispatchInit ==
    /\ cpu \in [level : {6, 7}, vpclmulqdq : BOOLEAN, saved : SUBSET {"sse", "avx"}]
    /\ impl = [p \in Functions |-> "initial"]
    /\ seen = [t \in Threads |-> {}]
    /\ step = [t \in Threads |-> "idle"]
    /\ calling = [t \in Threads |-> "hash"]
    /\ picked = [t \in Threads |-> "initial"]
    /\ ran = [t \in Threads |-> [kernels |-> {}, picks |-> 0]]

Enter(t, v) == step' = [step EXCEPT ![t] = IF v = "initial" THEN "initial" ELSE "kernel"]

\* umash_multiple_blocks or umash_fprint_multiple_blocks: load and call.
Call(t) ==
    /\ step[t] = "idle"
    /\ \E p \in Functions : \E v \in Loads(t, p) :
        /\ calling' = [calling EXCEPT ![t] = p]
        /\ Learn(t, p, v)
        /\ Enter(t, v)
        /\ picked' = [picked EXCEPT ![t] = v]
    /\ UNCHANGED <<cpu, impl, ran>>

\* MaxPicks bounds the history only.
MaxPicks == 3

\* umash_long_pick up to its stores.
Pick(t) ==
    /\ step[t] = "initial"
    /\ picked' = [picked EXCEPT ![t] = Chosen]
    /\ step' = [step EXCEPT ![t] = "storeHash"]
    /\ ran' = [ran EXCEPT ![t].picks = IF @ < MaxPicks THEN @ + 1 ELSE @]
    /\ UNCHANGED <<cpu, impl, seen, calling>>

Store(t, p) ==
    /\ impl' = [impl EXCEPT ![p] = picked[t]]
    /\ seen' = [seen EXCEPT ![t] = @ \cup {p}]

StoreHash(t) ==
    /\ step[t] = "storeHash"
    /\ Store(t, "hash")
    /\ step' = [step EXCEPT ![t] = "storeFprint"]
    /\ UNCHANGED <<cpu, calling, picked, ran>>

\* Mistake: the second store is lost.
StoreFprint_Lost(t) ==
    /\ step[t] = "storeFprint"
    /\ step' = [step EXCEPT ![t] = "reload"]
    /\ UNCHANGED <<cpu, impl, seen, calling, picked, ran>>

StoreFprint(t) ==
    /\ step[t] = "storeFprint"
    /\ Store(t, "fprint")
    /\ step' = [step EXCEPT ![t] = "reload"]
    /\ UNCHANGED <<cpu, calling, picked, ran>>

\* The initial function loads the pointer it was called through, and calls it.
Reload(t) ==
    /\ step[t] = "reload"
    /\ \E v \in Loads(t, calling[t]) :
        /\ Learn(t, calling[t], v)
        /\ Enter(t, v)
        /\ picked' = [picked EXCEPT ![t] = v]
    /\ UNCHANGED <<cpu, impl, calling, ran>>

\* The implementation runs and returns.
Kernel(t) ==
    /\ step[t] = "kernel"
    /\ step' = [step EXCEPT ![t] = "idle"]
    /\ ran' = [ran EXCEPT ![t].kernels = @ \cup {picked[t]}]
    /\ UNCHANGED <<cpu, impl, seen, calling, picked>>

InCall(t) == Pick(t) \/ StoreHash(t) \/ StoreFprint(t) \/ Reload(t) \/ Kernel(t)

DispatchNext == \E t \in Threads : Call(t) \/ InCall(t)

\* A thread that is in a call keeps running; nobody has to call.
DispatchSpec ==
    DispatchInit /\ [][DispatchNext]_dispatchVars /\ \A t \in Threads : WF_dispatchVars(InCall(t))
-----------------------------------------------------------------------------
(* Properties. *)

DispatchTypeOK ==
    /\ impl \in [Functions -> PointerValues]
    /\ seen \in [Threads -> SUBSET Functions]
    /\ step \in [Threads -> Steps]
    /\ calling \in [Threads -> Functions]
    /\ picked \in [Threads -> PointerValues]
    /\ \A t \in Threads :
          step[t] \in Steps \ {"idle", "initial", "reload"} => picked[t] \in Kernels
    /\ ran \in [Threads -> [kernels : SUBSET PointerValues, picks : 0 .. MaxPicks]]

\* Whatever the threads' first calls overlap with, a call runs an
\* implementation whose instructions the CPU and the operating system support,
\* and hashes and fingerprints run the same one.  After one pick a thread finds
\* both pointers set, though no store is ordered after another.
RunsSupported ==
    \A t \in Threads :
        /\ ran[t].picks <= 1
        /\ ran[t].kernels \subseteq {Chosen}
        /\ ran[t].kernels = {"vpclmulqdq"} =>
              cpu.level >= 7 /\ cpu.vpclmulqdq /\ {"sse", "avx"} \subseteq cpu.saved

\* The function that picks never ends up calling itself: every call returns.
CallReturns == \A t \in Threads : step[t] # "idle" ~> step[t] = "idle"
=============================================================================
