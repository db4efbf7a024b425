-------------------------- MODULE MCCaptureSession --------------------------
(***************************************************************************)
(* The instances of CaptureSession that TLC checks; every bound is in the  *)
(* .cfg file of the run.                                                   *)
(***************************************************************************)
EXTENDS CaptureSession
=============================================================================
