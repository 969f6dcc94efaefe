--------------------------- MODULE MCFaceSessions ---------------------------
(* Instances of FaceSessions for TLC: session ids are interchangeable      *)
(* wherever only safety is checked.                                        *)
EXTENDS FaceSessions, TLC

Symmetry == Permutations(Sessions)
=============================================================================
