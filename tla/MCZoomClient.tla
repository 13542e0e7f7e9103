----------------------------- MODULE MCZoomClient -----------------------------
(* Values for the constants of ZoomClient. *)
EXTENDS ZoomClient, TLC

Symmetry == Permutations(Callers)
=============================================================================
