--------------------------- MODULE MCChunkLayout ---------------------------
(***************************************************************************)
(* Values of the constants of ChunkLayout for the model checker: every     *)
(* request of up to three chunks, negative and zero fields included.       *)
(***************************************************************************)
EXTENDS ChunkLayout

SmallIndices == -1 .. 2
SmallOffsets == -1 .. 2
SmallSizes   == 0 .. 2
SmallTotals  == 1 .. 4
=============================================================================
