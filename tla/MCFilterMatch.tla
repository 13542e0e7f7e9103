---------------------------- MODULE MCFilterMatch -----------------------------
(* Values for the constants of FilterMatch. *)
EXTENDS FilterMatch

MCAlphabet == {"a", "A", "b", "%", "_", "\\"}
=============================================================================
