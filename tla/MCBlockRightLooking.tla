------------------------ MODULE MCBlockRightLooking ------------------------
(***************************************************************************)
(* Forests for TLC.                                                        *)
(*                                                                         *)
(*   Wide    two roots, 6 and the isolated 7; below 6 the leaves 1 and 2   *)
(*           under 3, and the chain 4 - 5.  With a threshold of 4 the      *)
(*           nodes 3 and 6 are parallel, 5 has a single child but is not   *)
(*           in a serial subtree, and 2, 4, 7 are serial subtrees.         *)
(*   Deep    two roots, 5 and the isolated 6; below 5 the leaf 4, and 3    *)
(*           over the leaves 1 and 2.  With a threshold of 15 only 5 is    *)
(*           parallel, and 3, 4 and 6 are the roots of serial subtrees.    *)
(*   Small   two roots 4 and 5; 4 over the leaf 3 and over 2, a chain.     *)
(***************************************************************************)
EXTENDS BlockRightLooking

WideParent == <<3, 3, 6, 5, 6, 0, 0>>
WideSize == <<1, 1, 1, 1, 1, 4, 1>>
WideDegree == <<2, 1, 3, 1, 1, 0, 0>>
WideInputs == {{}, {1}, {3, 4}, {6}}
PairInputs == {b \in SUBSET Supernode : Cardinality(b) <= 2}

DeepParent == <<3, 3, 5, 5, 0, 0>>
DeepSize == <<1, 1, 1, 1, 2, 1>>
DeepDegree == <<2, 1, 1, 2, 0, 0>>
DeepInputs == {b \in SUBSET Supernode : Cardinality(b) <= 1}

SmallParent == <<2, 4, 4, 0, 0>>
SmallSize == <<1, 1, 1, 2, 1>>
SmallDegree == <<1, 2, 1, 0, 0>>
=============================================================================
