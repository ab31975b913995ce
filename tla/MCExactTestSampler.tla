------------------------- MODULE MCExactTestSampler -------------------------
(* Values for the constants of ExactTestSampler are in the configurations. *)
EXTENDS ExactTestSampler
=============================================================================
