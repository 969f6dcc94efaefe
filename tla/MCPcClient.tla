---------------------------- MODULE MCPcClient ----------------------------
(* Instances of the Windows client for TLC. *)
EXTENDS PcClient, TLC

(* Browser threads are interchangeable. *)
Symmetry == Permutations(Tabs)
=============================================================================
