----------------------------- MODULE MCMemPool -----------------------------
(* A pool of three blocks and two pointer variables, drained two at a time. *)
EXTENDS MemPool, TLC

Symmetry == Permutations(Var) \cup Permutations(Block)
============================================================================
