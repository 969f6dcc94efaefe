--------------------------- MODULE MCHostLifecycle ---------------------------
(* Instances of HostLifecycle for TLC: requests and recoveries are         *)
(* interchangeable wherever only safety is checked.                        *)
EXTENDS HostLifecycle, TLC

Symmetry == Permutations(Requests) \cup Permutations(Recoveries)
=============================================================================
