---------------------------- MODULE MCUmashDispatch ----------------------------
(* Values for the constants of UmashDispatch. *)
EXTENDS UmashDispatch
=============================================================================
