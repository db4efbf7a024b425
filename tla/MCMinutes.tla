----------------------------- MODULE MCMinutes -----------------------------
(***************************************************************************)
(* The instances of Minutes, and of Transcripts under it, that TLC checks. *)
(* Processes are interchangeable.                                          *)
(***************************************************************************)
EXTENDS Minutes, TLC

CONSTANTS p1, p2

Symmetry == Permutations(Proc)
=============================================================================
