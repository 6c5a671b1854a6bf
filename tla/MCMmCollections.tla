--------------------------- MODULE MCMmCollections ---------------------------
(* A few objects and two numbers.                                            *)
EXTENDS MmCollections, TLC

Symmetry == Permutations(Addr) \cup Permutations(Var)
=============================================================================
