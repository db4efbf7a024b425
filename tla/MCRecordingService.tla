------------------------- MODULE MCRecordingService -------------------------
(***************************************************************************)
(* The instances of RecordingService that TLC checks.  Processes are       *)
(* interchangeable, so permuting them is a symmetry of the safety runs.    *)
(***************************************************************************)
EXTENDS RecordingService, TLC

CONSTANTS p1, p2

Symmetry == Permutations(Proc)
=============================================================================
