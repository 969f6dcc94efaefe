---------------------------- MODULE MCController ----------------------------
(* Instances of the controller for TLC. *)
EXTENDS ControllerRequests
=============================================================================
