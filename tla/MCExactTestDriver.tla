--------------------------- MODULE MCExactTestDriver ---------------------------
(* Values for the constants of ExactTestDriver. *)
EXTENDS ExactTestDriver

AllFiles ==
    [servers : SUBSET Servers, local_parallelism : {FALSE, None},
     inline_evaluation : {FALSE, None}] \cup {None}
OneCpu == [s \in Servers |-> 1]
=============================================================================
