-------------------------------- MODULE Xoshiro --------------------------------
(***************************************************************************)
(* bench/xoshiro.c: the global generator of a process, and the generators  *)
(* that t/exact_test_sampler.py takes from it, in threads of one process   *)
(* and in the processes of the pool.                                       *)
(*                                                                         *)
(* A state of xoshiro256+ is a position on the sequence of a seed: `long`  *)
(* counts jumps of 2^192 draws and `jump` jumps of 2^128, so that two      *)
(* different positions are the starts of disjoint substreams.  Seeds are   *)
(* taken to be distinct: secrets.randbits(64).                             *)
(***************************************************************************)
EXTENDS Naturals, FiniteSets

CONSTANTS
    Processes, Main,  \* processes, the first of which forks the others
    Threads,          \* threads that use the generator
    ProcessOf,        \* their processes
    Seeds, FirstSeed, \* seeds, and the state the program is compiled with
    MaxJumps,         \* bound: substreams drawn from one generator
    MaxGets           \* bound: generators taken from one seed, before seeding again

ASSUME XoshiroAssumption ==
    /\ Main \in Processes /\ FirstSeed \in Seeds
    /\ ProcessOf \in [Threads -> Processes] /\ MaxJumps \in Nat /\ MaxGets \in Nat

VARIABLES
    alive,  \* processes that run
    global, \* xoshiro_global_state.state of each
    lock,   \* and its lock: the thread that holds it, if one does
    place,     \* of each thread
    ret,    \* snapshot taken by xoshiro_long_jump
    cursor, \* the generator of each thread
    seeded, \* seeds drawn
    draws   \* how many times each substream was read

xoshiro_vars == <<alive, global, lock, place, ret, cursor, seeded, draws>>

\* A state some words of which are those of another seed.
Torn == [seed |-> FirstSeed, long |-> 0, jump |-> 0, torn |-> TRUE]
SeedState(seed) == [seed |-> seed, long |-> 0, jump |-> 0, torn |-> FALSE]
Unset == SeedState(FirstSeed)
Free == {}
HeldBy(t) == {t}

Position == [seed : Seeds, long : Nat, jump : Nat, torn : BOOLEAN]

XoshiroInit ==
    /\ alive = {Main}
    /\ global = [p \in Processes |-> SeedState(FirstSeed)]
    /\ lock = [p \in Processes |-> Free]
    /\ place = [t \in Threads |-> "idle"]
    /\ ret = [t \in Threads |-> Unset] /\ cursor = ret
    /\ seeded = {FirstSeed}
    /\ draws = [x \in {} |-> 0]

\* os.fork, whenever the pool needs a worker: memory is copied, the lock too.
Fork(p) ==
    /\ p \notin alive
    /\ alive' = alive \cup {p}
    /\ global' = [global EXCEPT ![p] = global[Main]]
    /\ lock' = [lock EXCEPT ![p] = lock[Main]]
    /\ UNCHANGED <<place, ret, cursor, seeded, draws>>

At(t, where) == place[t] = where /\ ProcessOf[t] \in alive
Goto(t, where) == place' = [place EXCEPT ![t] = where]

Lock(p, t) == lock[p] = Free /\ lock' = [lock EXCEPT ![p] = HeldBy(t)]

Unlock(p) == lock' = [lock EXCEPT ![p] = Free]

\* Mistake: a worker of the pool keeps the state it was forked with.
Begin_NoReseed(t) ==
    /\ At(t, "idle")
    /\ Goto(t, "get") /\ UNCHANGED <<alive, global, lock, ret, cursor, seeded, draws>>

\* _resampled_data_results_1 seeds first; actual_data_results, in the main
\* process, does not.
Begin(t) ==
    /\ At(t, "idle")
    /\ \/ Goto(t, "seed")
       \/ ProcessOf[t] = Main /\ global[Main].long < MaxGets /\ Goto(t, "get")
    /\ UNCHANGED <<alive, global, lock, ret, cursor, seeded, draws>>

-----------------------------------------------------------------------------
(* xoshiro_seed_global_state *)

SeedLock(t) ==
    /\ At(t, "seed")
    /\ Lock(ProcessOf[t], t)
    /\ Goto(t, "seeding")
    /\ UNCHANGED <<alive, global, ret, cursor, seeded, draws>>

\* The first words are written.
SeedFirst(t) ==
    /\ At(t, "seeding")
    /\ global' = [global EXCEPT ![ProcessOf[t]] = Torn]
    /\ Goto(t, "seed_last")
    /\ UNCHANGED <<alive, lock, ret, cursor, seeded, draws>>

SeedLast(t) ==
    /\ At(t, "seed_last")
    /\ \E seed \in Seeds \ seeded :
        /\ seeded' = seeded \cup {seed}
        /\ global' = [global EXCEPT ![ProcessOf[t]] = SeedState(seed)]
    /\ Unlock(ProcessOf[t])
    /\ Goto(t, "get")
    /\ UNCHANGED <<alive, ret, cursor, draws>>

-----------------------------------------------------------------------------
(* xoshiro_get *)

GetLock(t) ==
    /\ At(t, "get")
    /\ Lock(ProcessOf[t], t)
    /\ Goto(t, "long_jump")
    /\ UNCHANGED <<alive, global, ret, cursor, seeded, draws>>

\* xoshiro_long_jump reads the cursor,
LongJumpRead(t) ==
    /\ At(t, "long_jump")
    /\ ret' = [ret EXCEPT ![t] = global[ProcessOf[t]]]
    /\ Goto(t, "long_jump_write")
    /\ UNCHANGED <<alive, global, lock, cursor, seeded, draws>>

\* and advances it.
LongJumpWrite(t) ==
    /\ At(t, "long_jump_write")
    /\ global' = [global EXCEPT ![ProcessOf[t]] = [ret[t] EXCEPT !.long = @ + 1]]
    /\ cursor' = [cursor EXCEPT ![t] = ret[t]]
    /\ ret' = [ret EXCEPT ![t] = Unset]
    /\ Unlock(ProcessOf[t])
    /\ Goto(t, "use")
    /\ UNCHANGED <<alive, seeded, draws>>

-----------------------------------------------------------------------------
Advanced(x) == [x EXCEPT !.jump = @ + 1]

Read(x) == IF x \in DOMAIN draws THEN draws[x] + 1 ELSE 1

\* xoshiro_jump in exact_test_shuffle or find_dense_range, and the draws that
\* follow it, from the snapshot.
Jump(t) ==
    /\ At(t, "use") /\ cursor[t].jump < MaxJumps
    /\ cursor' = [cursor EXCEPT ![t] = Advanced(cursor[t])]
    /\ draws' = [x \in DOMAIN draws \cup {cursor[t]} |->
                   IF x = cursor[t] THEN Read(x) ELSE draws[x]]
    /\ UNCHANGED <<alive, global, lock, place, ret, seeded>>

\* exact_test_prng_destroy
Destroy(t) ==
    /\ At(t, "use") /\ Goto(t, "idle")
    /\ cursor' = [cursor EXCEPT ![t] = Unset]
    /\ UNCHANGED <<alive, global, lock, ret, seeded, draws>>

XoshiroNext ==
    \/ \E p \in Processes : Fork(p)
    \/ \E t \in Threads :
        \/ Begin(t)
        \/ SeedLock(t) \/ SeedFirst(t) \/ SeedLast(t)
        \/ GetLock(t) \/ LongJumpRead(t) \/ LongJumpWrite(t)
        \/ Jump(t) \/ Destroy(t)

XoshiroSpec == XoshiroInit /\ [][XoshiroNext]_xoshiro_vars
-----------------------------------------------------------------------------
(* Properties. *)

TypeOK ==
    /\ Main \in alive /\ alive \subseteq Processes /\ seeded \subseteq Seeds
    /\ global \in [Processes -> Position] /\ lock \in [Processes -> SUBSET Threads]
    /\ place \in [Threads -> {"idle", "seed", "seeding", "seed_last", "get", "long_jump",
                           "long_jump_write", "use"}]
    /\ \A t \in Threads : lock[ProcessOf[t]] = HeldBy(t) =>
        place[t] \in {"seeding", "seed_last", "long_jump", "long_jump_write"}
    /\ ret \in [Threads -> Position] /\ cursor \in [Threads -> Position]
    /\ \A t \in Threads : cursor[t].jump <= MaxJumps

\* "Reseed to avoid exploring the same random sequence multiple times when
\* multiprocessing" (t/exact_test_sampler.py:127), and "to ensure runs don't overlap
\* or otherwise affect each other" (bench/exact_test.c:142): no substream is
\* read twice, by threads of one process or by forked processes, and none comes
\* from a state that is half written, though a process may be forked from the
\* middle of a seeding.
NoSharedStream ==
    /\ \A x \in DOMAIN draws : draws[x] = 1
    /\ \A t \in Threads : place[t] = "use" => ~cursor[t].torn

=============================================================================
