----------------------------- MODULE MCActuation -----------------------------
(* Instances of Actuation for TLC: the timers and the people are           *)
(* interchangeable wherever only safety is checked.                        *)
EXTENDS Actuation, TLC

Symmetry == Permutations(Users) \cup Permutations(Timers)
=============================================================================
