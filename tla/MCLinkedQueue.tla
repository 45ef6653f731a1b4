--------------------------- MODULE MCLinkedQueue ----------------------------
(***************************************************************************)
(* LinkedQueue with named nodes, which are interchangeable.                *)
(***************************************************************************)
EXTENDS LinkedQueue, TLC

Symmetry == Permutations(Nodes)
=============================================================================
