---------------------------- MODULE MCEnrollment ---------------------------
(* EnrollmentRequests on a small instance: two accounts, two requests. *)
EXTENDS EnrollmentRequests, TLC

=============================================================================
