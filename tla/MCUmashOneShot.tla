---------------------------- MODULE MCUmashOneShot ----------------------------
(* Values for the constants of UmashOneShot. *)
EXTENDS UmashOneShot

\* Up to a few chunks, and around one and two blocks, the batch of
\* MultipleBlocksThreshold bytes, and the block that follows it.
BoundarySizes ==
    0 .. 80 \cup 224 .. 304 \cup 480 .. 544 \cup 1008 .. 1056 \cup 1264 .. 1296
=============================================================================
