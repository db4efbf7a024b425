----------------------------- MODULE MCEnrollment -----------------------------
(***************************************************************************)
(* The instances of Enrollment, with its observers, that TLC checks.       *)
(***************************************************************************)
EXTENDS EnrollmentDoctor, TLC

CONSTANTS p1, p2, api, cli, none
=============================================================================
