---------------------------- MODULE MCChunkGrid ----------------------------
(* Chunk widths below, at and above the grain, on prompts of several chunks. *)
EXTENDS ChunkGrid
=============================================================================
