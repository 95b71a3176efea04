--------------------------- MODULE AssemblyForest ---------------------------
(***************************************************************************)
(* The forest of supernodes that every numeric phase of the factorization  *)
(* walks, with the sizes of the frontal matrices hanging from it.          *)
(*                                                                         *)
(* Supernodes are numbered 1..NumSupernodes (the code counts from 0) in an *)
(* order in which children precede their parents; the parent of a root is  *)
(* 0 (the code stores -1).  The symbolic analysis that builds the forest   *)
(* is not part of this module: here the forest is a constant.              *)
(***************************************************************************)
EXTENDS FiniteSums

CONSTANTS
    NumSupernodes,      \* ordering_.supernode_sizes.Size()
    Parent,             \* ordering_.assembly_forest.parents
    SupernodeSize,      \* lower_factor_->blocks[s].width
    Degree              \* lower_factor_->blocks[s].height

Supernode == 1..NumSupernodes

\* A supernode whose structure reaches no later column has no parent, and its
\* parent otherwise is the supernode of the first row of that structure.
ASSUME ForestAssumption ==
    /\ NumSupernodes \in Nat \ {0}
    /\ Parent \in [Supernode -> 0..NumSupernodes]
    /\ SupernodeSize \in [Supernode -> Nat \ {0}]
    /\ Degree \in [Supernode -> Nat]
    /\ \A s \in Supernode : Parent[s] # 0 => Parent[s] > s
    /\ \A s \in Supernode : Parent[s] = 0 <=> Degree[s] = 0

Children(s) == {c \in Supernode : Parent[c] = s}
IsLeaf(s) == Children(s) = {}
IsRoot(s) == Parent[s] = 0
Roots == {s \in Supernode : IsRoot(s)}

\* FillFromParents packs children and roots in increasing order; the loops
\* over them take the first one left.
FirstOf(S) == Min(S)
LastOf(S) == Max(S)

NumColumns == SumOver(SupernodeSize, Supernode)

(***************************************************************************)
(* The floating point operations of one front: s^3 / 3 for the diagonal    *)
(* block, s^2 d for the solve, s d^2 for the outer product.  The sum is a  *)
(* double that is returned as an integer.                                  *)
(***************************************************************************)
IntraNodeWork(s) ==
    LET n == SupernodeSize[s]
        d == Degree[s]
    IN  (n * n * n) \div 3 + n * n * d + n * d * d

WorkEstimate[s \in Supernode] ==
    IntraNodeWork(s) + SumOver(WorkEstimate, Children(s))

TotalWork == SumOver(WorkEstimate, Roots)

\* The entries of a Schur complement: a full square, although only its lower
\* triangle is used.
SizeForDegree(s) == Degree[s] * Degree[s]

\* The depth of the stack with which a subtree is eliminated serially: the
\* front of a supernode stays on it while each child's subtree is processed.
StorageNeeded[s \in Supernode] ==
    IF IsLeaf(s) THEN SizeForDegree(s)
    ELSE Max({StorageNeeded[c] + SizeForDegree(s) : c \in Children(s)})
=============================================================================
