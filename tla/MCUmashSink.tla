----------------------------- MODULE MCUmashSink -----------------------------
(* Values for the constants of UmashSink. *)
EXTENDS UmashSink

\* Any size of update.
AnySize == 0 .. MaxBytes
=============================================================================
