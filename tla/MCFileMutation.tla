--------------------------- MODULE MCFileMutation ---------------------------
(* Finite instances of the file mutations for TLC. *)
EXTENDS FileMutation, TLC

CONSTANTS a1, a2, p1, p2, p3

TwoAssets == {a1, a2}
ThreePaths == {p1, p2, p3}
Symmetry == Permutations(TwoAssets) \cup Permutations(ThreePaths)
=============================================================================
