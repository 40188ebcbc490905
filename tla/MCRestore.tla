----------------------------- MODULE MCRestore -----------------------------
(* Restore for TLC: the workers are interchangeable, and so are the        *)
(* restorers.                                                              *)
EXTENDS Restore, TLC

Symmetry == Permutations(Workers) \cup Permutations(Restorers)
=============================================================================
