---------------------------- MODULE MCModelStore ----------------------------
(* ModelStore with two published revisions and room for a third download. *)
EXTENDS ModelStore

MCRev == 1..2
=============================================================================
