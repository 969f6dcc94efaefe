-------------------------- MODULE MCSecurityStore --------------------------
(* SecurityStore on a small instance: an owner and two more accounts. *)
EXTENDS SecurityStore, TLC

=============================================================================
