------------------------- MODULE MCThumbPublication -------------------------
(* Model values for ThumbPublication. *)
EXTENDS ThumbPublication, TLC

Symmetry == Permutations(Assets) \cup Permutations(Callers)
=============================================================================
