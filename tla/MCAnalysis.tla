----------------------------- MODULE MCAnalysis -----------------------------
(* Analysis for TLC: the addresses are symmetric. *)
EXTENDS Analysis, TLC

Symmetry == Permutations(Addresses)
=============================================================================
