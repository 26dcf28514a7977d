----------------------------- MODULE MCChunkFile -----------------------------
(* Small instances of ChunkFile. *)
EXTENDS ChunkFile

CONSTANTS x, y
=============================================================================
