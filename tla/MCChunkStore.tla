---------------------------- MODULE MCChunkStore ----------------------------
(***************************************************************************)
(* The instances of ChunkStore that TLC checks; every bound is in the .cfg *)
(* file of the run.                                                        *)
(***************************************************************************)
EXTENDS ChunkStore
=============================================================================
