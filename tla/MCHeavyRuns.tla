---------------------------- MODULE MCHeavyRuns ----------------------------
(***************************************************************************)
(* The instances of HeavyRuns that TLC checks; the bounds are in the .cfg  *)
(* files of the runs.                                                      *)
(***************************************************************************)
EXTENDS HeavyRuns

CONSTANTS t1, t2
=============================================================================
