----------------------------- MODULE UmashStream -----------------------------
(***************************************************************************)
(* What umash.h promises of incremental hashing: a stream is initialised   *)
(* for the first hash, the second hash or the fingerprint, fed any number  *)
(* of byte ranges, and at any time asked for a digest, which is the        *)
(* reference's for the bytes fed so far however they were cut up.          *)
(***************************************************************************)
EXTENDS UmashReference

CONSTANTS
    UpdateSizes,  \* sizes a caller passes to umash_sink_update
    MaxBytes      \* bound on the bytes fed to one stream

VARIABLES
    wanted,  \* as in Expected
    fed,     \* bytes fed since the stream was initialised
    out      \* the last digest; empty if none was taken of these bytes

streamVars == <<wanted, fed, out>>

StreamInit ==
    /\ wanted \in 0 .. 2
    /\ fed = 0
    /\ out = <<>>

Open ==
    /\ wanted' \in 0 .. 2
    /\ fed' = 0
    /\ out' = <<>>

Feed ==
    /\ \E n \in UpdateSizes : fed + n <= MaxBytes /\ fed' = fed + n
    /\ out' = <<>>
    /\ UNCHANGED wanted

Digest ==
    /\ out' = Expected(wanted, fed)
    /\ UNCHANGED <<wanted, fed>>

StreamNext == Open \/ Feed \/ Digest

StreamSpec == StreamInit /\ [][StreamNext]_streamVars
=============================================================================
