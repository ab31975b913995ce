----------------------------- MODULE MCUmashBench -----------------------------
(* Values for the constants of UmashBench. *)
EXTENDS UmashBench

\* Two threads, a line that is not a call, and a call that the fixup excludes.
SomeTrace == <<[tid |-> 7, size |-> 3], None, [tid |-> 8, size |-> 2],
               [tid |-> 7, size |-> 0], [tid |-> 7, size |-> 2]>>
Fixups == {-1, 0}
=============================================================================
