----------------------------- MODULE MCWorkflow -----------------------------
(***************************************************************************)
(* The instance of Workflow, and of Database under it, that TLC checks.    *)
(***************************************************************************)
EXTENDS Workflow, TLC

CONSTANTS p1, p2

\* The ceiling was lowered in the configuration before p2 started.
MCCeiling == p1 :> 2 @@ p2 :> 1
=============================================================================
