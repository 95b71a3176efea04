-------------------------- MODULE MCTriangularSolve --------------------------
(***************************************************************************)
(* A forest for TLC, with an order of supernodes that is not a postorder:  *)
(* 7 over 4 (over the leaves 1 and 3) and 6 (over the leaves 2 and 5), and *)
(* the isolated root 8.  In the forward substitution the subtree of 4 and  *)
(* the leaves 2, 5 and 8 are serial, in the backward one the subtree of 4. *)
(***************************************************************************)
EXTENDS TriangularSolve

TreeParent == <<4, 6, 4, 7, 6, 7, 0, 0>>
TreeSize == <<1, 1, 1, 1, 2, 1, 1, 1>>
TreeDegree == <<2, 2, 1, 1, 1, 1, 0, 0>>
TreeStructure == <<{4, 7}, {6, 7}, {4}, {7}, {6}, {7}, {}, {}>>
=============================================================================
