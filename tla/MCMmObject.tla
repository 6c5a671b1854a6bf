----------------------------- MODULE MCMmObject -----------------------------
(* Two objects of a hierarchy of up to three layers.                        *)
EXTENDS MmObject, TLC

CONSTANTS root, child, son

Lineages == [c \in {root, child, son} |->
  CASE c = root -> <<root>>
    [] c = child -> <<root, child>>
    [] c = son -> <<root, child, son>>]

Symmetry == Permutations(Var) \cup Permutations(Addr)
=============================================================================
