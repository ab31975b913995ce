--------------------------- MODULE MCBufferedIterator ---------------------------
(* Values for the constants of BufferedIterator. *)
EXTENDS BufferedIterator

Buffer(n, inline, block) == [iterators |-> n, inline_eval |-> inline, block_on_exit |-> block]

\* As resampled_data_results uses it, and with the default block_on_exit.
InlineUses == {Buffer(2, TRUE, FALSE), Buffer(1, TRUE, FALSE), Buffer(1, TRUE, TRUE)}

\* The reader of one stream, without inline evaluation.
BlockingUses == {Buffer(1, FALSE, FALSE)}
=============================================================================
