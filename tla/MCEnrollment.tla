---------------------------- MODULE MCEnrollment ----------------------------
(* A small instance of Enrollment for TLC; no symmetry, for the sake of the   *)
(* liveness property.                                                         *)
EXTENDS Enrollment, TLC

=============================================================================
