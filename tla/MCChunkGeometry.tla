--------------------------- MODULE MCChunkGeometry ---------------------------
(* Instances of ChunkGeometry for TLC: a word of four bits. *)
EXTENDS ChunkGeometry

Numbers == 0..Word - 1
FileSizes == {0, 1, 3, 5, 6, 15}   \* 15: only a layout that wraps would cover it
=============================================================================
