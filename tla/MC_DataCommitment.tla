------------------------- MODULE MC_DataCommitment --------------------------
(* Three blocks in a tree of four leaves (one padding leaf), heights two   *)
(* bits wide so that start_block + i reaches the top of the range.         *)
EXTENDS DataCommitment

CONSTANTS d1, d2

MC_DataHashes == {d1, d2}
=============================================================================
