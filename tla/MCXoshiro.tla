------------------------------- MODULE MCXoshiro -------------------------------
(* Values for the constants of Xoshiro. *)
EXTENDS Xoshiro

\* Two threads of the main process, and the worker of a forked one.
OfThreads == [t \in Threads |-> IF t = "worker" THEN "child" ELSE "main"]
=============================================================================
