------------------------ MODULE AssemblyForestProofs ------------------------
(***************************************************************************)
(* Induction in the forest: what fails somewhere fails at a last place,    *)
(* whose parent is all right, or at a first one; and what the recursive    *)
(* estimates of work and storage are, for every forest.                    *)
(***************************************************************************)
EXTENDS AssemblyForest, FiniteSumProofs

\* A set of supernodes that is not empty has a largest element.
LEMMA GreatestElement ==
    ASSUME NEW S, S \subseteq Supernode, S # {}
    PROVE  \E x \in S : \A y \in S : x >= y
<1> DEFINE T == {NumSupernodes - x : x \in S}
<1>1. NumSupernodes \in Nat /\ \A x \in S : x \in 1..NumSupernodes
  BY ForestAssumption DEF Supernode
<1>2. T \subseteq Nat /\ T # {}
  BY <1>1
<1>3. PICK t \in T : \A u \in T : t <= u
  BY <1>2, LeastElement
<1>4. PICK x \in S : t = NumSupernodes - x
  BY <1>3
<1>5. \A y \in S : NumSupernodes - x <= NumSupernodes - y
  BY <1>3, <1>4
<1> QED
  BY <1>1, <1>5

\* What does not hold of every supernode fails for a root, or for a supernode
\* whose parent has it.
LEMMA FromTheRoots ==
    ASSUME NEW A, A \subseteq Supernode,
           \A s \in A : ~IsRoot(s) /\ Parent[s] \in A
    PROVE  A = {}
<1> SUFFICES ASSUME A # {} PROVE FALSE
  OBVIOUS
<1>1. PICK s \in A : \A t \in A : s >= t
  BY GreatestElement
<1>2. Parent[s] \in A /\ Parent[s] > s
  BY <1>1, ForestAssumption DEF IsRoot, Supernode
<1> QED
  BY <1>1, <1>2, ForestAssumption DEF Supernode

-----------------------------------------------------------------------------
(***************************************************************************)
(* The forest.                                                             *)
(***************************************************************************)
\* A child is another supernode, with a smaller number, and not a root.
LEMMA ChildFacts ==
    ASSUME NEW s \in Supernode, NEW c \in Children(s)
    PROVE  c \in Supernode /\ Parent[c] = s /\ c # s /\ c < s /\ ~IsRoot(c)
<1>1. c \in Supernode /\ Parent[c] = s
  BY DEF Children
<1>2. Parent[c] # 0
  BY <1>1 DEF Supernode
<1>3. s > c
  BY <1>1, <1>2, ForestAssumption
<1> QED
  BY <1>1, <1>2, <1>3 DEF IsRoot, Supernode

\* What does not hold of every supernode fails for one whose children all have
\* it.
LEMMA FromTheLeaves ==
    ASSUME NEW A, A \subseteq Supernode,
           \A s \in A : \E c \in Children(s) : c \in A
    PROVE  A = {}
<1> SUFFICES ASSUME A # {} PROVE FALSE
  OBVIOUS
<1>1. A \subseteq Nat
  BY ForestAssumption DEF Supernode
<1>2. PICK s \in A : \A t \in A : s <= t
  BY <1>1, LeastElement
<1>3. PICK c \in Children(s) : c \in A
  BY <1>2
<1>4. c < s /\ c \in Nat /\ s \in Nat
  BY <1>1, <1>2, <1>3, ChildFacts
<1> QED
  BY <1>2, <1>3, <1>4

LEMMA FiniteForest ==
    /\ IsFiniteSet(Supernode) /\ IsFiniteSet(Roots)
    /\ \A s : IsFiniteSet(Children(s))
<1>1. IsFiniteSet(Supernode)
  BY ForestAssumption, FS_Interval DEF Supernode
<1>2. Roots \subseteq Supernode /\ \A s : Children(s) \subseteq Supernode
  BY DEF Roots, Children
<1> QED
  BY <1>1, <1>2, FS_Subset

-----------------------------------------------------------------------------
(***************************************************************************)
(* The estimates.                                                          *)
(***************************************************************************)
LEMMA IntraNodeWorkNatural ==
    \A s \in Supernode : IntraNodeWork(s) \in Nat
<1> SUFFICES ASSUME NEW s \in Supernode PROVE IntraNodeWork(s) \in Nat
  OBVIOUS
<1>1. SupernodeSize[s] \in Nat /\ Degree[s] \in Nat
  BY ForestAssumption
<1> DEFINE n == SupernodeSize[s]
           d == Degree[s]
<1>2. n * n * n \in Nat /\ n * n * d \in Nat /\ n * d * d \in Nat
  BY <1>1
<1> HIDE DEF n, d
<1>3. \A k \in Nat : k \div 3 \in Nat
  OBVIOUS
<1>4. (n * n * n) \div 3 \in Nat
  BY <1>2, <1>3
<1> QED
  BY <1>2, <1>4 DEF IntraNodeWork, n, d

LEMMA SizeNatural ==
    \A s \in Supernode : SizeForDegree(s) \in Nat
BY ForestAssumption DEF SizeForDegree

\* A value that is computed from the children's exists for every supernode.
LEMMA UpwardRecursion ==
    ASSUME NEW V, V # {},
           NEW G \in [[Supernode -> V] -> [Supernode -> V]],
           \A f, g \in [Supernode -> V] : \A s \in Supernode :
              (\A c \in Children(s) : f[c] = g[c]) => G[f][s] = G[g][s]
    PROVE  \E f \in [Supernode -> V] : f = G[f]
<1> DEFINE rank == [s \in Supernode |-> s]
           K == NumSupernodes + 1
<1>1. /\ rank \in [Supernode -> Nat] /\ K \in Nat
      /\ \A s \in Supernode : rank[s] < K
  BY ForestAssumption DEF Supernode
<1>2. ASSUME NEW f \in [Supernode -> V], NEW g \in [Supernode -> V],
             NEW s \in Supernode,
             \A t \in Supernode : rank[t] < rank[s] => f[t] = g[t]
      PROVE  G[f][s] = G[g][s]
  <2>1. \A c \in Children(s) : f[c] = g[c]
    BY <1>2, ChildFacts
  <2> QED
    BY <2>1
<1> HIDE DEF rank, K
<1>3. Determined(Supernode, V, rank, K, G)
  BY <1>1, <1>2 DEF Determined
<1> QED
  BY <1>3, RecursionExists

\* The work of a subtree is that of its root and of the children's subtrees.
LEMMA WorkRecursion ==
    \A s \in Supernode :
        WorkEstimate[s] = IntraNodeWork(s) + SumOver(WorkEstimate, Children(s))
<1> DEFINE Body(f) == [s \in Supernode |->
                          IntraNodeWork(s) + SumOver(f, Children(s))]
           V == Nat
           G == [f \in [Supernode -> V] |-> Body(f)]
<1>1. \E f \in [Supernode -> V] : f = G[f]
  <2>1. G \in [[Supernode -> V] -> [Supernode -> V]]
    <3> SUFFICES ASSUME NEW f \in [Supernode -> Nat], NEW s \in Supernode
                 PROVE  IntraNodeWork(s) + SumOver(f, Children(s)) \in Nat
      OBVIOUS
    <3>1. SumOver(f, Children(s)) \in Nat
      BY FiniteForest, SumNatural DEF Children
    <3> QED
      BY <3>1, IntraNodeWorkNatural
  <2>2. \A f, g \in [Supernode -> V] : \A s \in Supernode :
           (\A c \in Children(s) : f[c] = g[c]) => G[f][s] = G[g][s]
    <3> SUFFICES ASSUME NEW f \in [Supernode -> V], NEW g \in [Supernode -> V],
                        NEW s \in Supernode, \A c \in Children(s) : f[c] = g[c]
                 PROVE  SumOver(f, Children(s)) = SumOver(g, Children(s))
      OBVIOUS
    <3>1. \A c \in Children(s) : f[c] \in Int /\ g[c] = f[c]
      BY ChildFacts
    <3> QED
      BY <3>1, FiniteForest, SumAgrees
  <2>3. V # {}
    OBVIOUS
  <2> HIDE DEF G, V, Body
  <2> QED
    BY <2>1, <2>2, <2>3, UpwardRecursion
<1>2. \E f : f = Body(f)
  BY <1>1
<1>3. WorkEstimate = CHOOSE f : f = Body(f)
  BY DEF WorkEstimate
<1> HIDE DEF Body
<1>4. WorkEstimate = Body(WorkEstimate)
  BY <1>2, <1>3
<1> QED
  BY <1>4 DEF Body

LEMMA WorkNatural ==
    \A s \in Supernode : WorkEstimate[s] \in Nat
<1> DEFINE Wrong == {s \in Supernode : WorkEstimate[s] \notin Nat}
<1>1. ASSUME NEW s \in Wrong PROVE \E c \in Children(s) : c \in Wrong
  <2> SUFFICES ASSUME \A c \in Children(s) : WorkEstimate[c] \in Nat
               PROVE  WorkEstimate[s] \in Nat
    BY ChildFacts
  <2>1. SumOver(WorkEstimate, Children(s)) \in Nat
    BY FiniteForest, SumNatural
  <2> QED
    BY <2>1, WorkRecursion, IntraNodeWorkNatural
<1> Wrong \subseteq Supernode
  OBVIOUS
<1> HIDE DEF Wrong
<1>2. Wrong = {}
  BY <1>1, FromTheLeaves
<1> QED
  BY <1>2 DEF Wrong

\* Of finitely many values there is a largest one.
LEMMA LargestValue ==
    ASSUME NEW f, NEW S, IsFiniteSet(S), S # {}, \A x \in S : f[x] \in Int
    PROVE  \E x \in S : \A y \in S : f[x] >= f[y]
<1> DEFINE A == {T \in SUBSET S :
                    T # {} => \E x \in T : \A y \in T : f[x] >= f[y]}
<1>1. {} \in A
  OBVIOUS
<1>2. ASSUME NEW T \in SUBSET S, NEW z \in T, T \ {z} \in A PROVE T \in A
  <2>1. CASE T \ {z} = {}
    <3>1. \A y \in T : y = z
      BY <2>1
    <3> QED
      BY <3>1
  <2>2. CASE T \ {z} # {}
    <3>1. PICK x \in T \ {z} : \A y \in T \ {z} : f[x] >= f[y]
      BY <1>2, <2>2
    <3>2. CASE f[x] >= f[z]
      BY <3>1, <3>2
    <3>3. CASE f[z] >= f[x]
      BY <3>1, <3>3
    <3> QED
      BY <3>2, <3>3
  <2> QED
    BY <2>1, <2>2
<1> HIDE DEF A
<1>3. S \in A
  BY <1>1, <1>2, SubsetInduction
<1> QED
  BY <1>3 DEF A

\* The largest sum of a child's value and the supernode's own front.
LEMMA MaxOverChildren ==
    ASSUME NEW s \in Supernode, ~IsLeaf(s),
           NEW f, \A c \in Children(s) : f[c] \in Nat
    PROVE  LET m == Max({f[c] + SizeForDegree(s) : c \in Children(s)})
           IN  /\ m \in Nat
               /\ \A c \in Children(s) : f[c] + SizeForDegree(s) <= m
<1> DEFINE k == SizeForDegree(s)
           S == {f[c] + k : c \in Children(s)}
<1>1. k \in Nat
  BY SizeNatural
<1>2. PICK d \in Children(s) : \A c \in Children(s) : f[d] >= f[c]
  BY FiniteForest, LargestValue DEF IsLeaf
<1> HIDE DEF k
<1>3. f[d] + k \in S /\ \A y \in S : f[d] + k >= y
  BY <1>1, <1>2
<1>4. Max(S) \in S /\ \A y \in S : Max(S) >= y
  <2> HIDE DEF S
  <2> QED
    BY <1>3 DEF Max
<1>5. \A y \in S : y \in Nat
  BY <1>1
<1>6. \A c \in Children(s) : f[c] + k \in S
  OBVIOUS
<1>7. Max(S) \in Nat /\ \A c \in Children(s) : f[c] + k <= Max(S)
  <2> HIDE DEF S
  <2> QED
    BY <1>4, <1>5, <1>6
<1> QED
  BY <1>7 DEF k

\* The stack of a subtree has a bottom and on it what a child's subtree needs.
LEMMA StorageRecursion ==
    \A s \in Supernode :
        StorageNeeded[s] =
            IF IsLeaf(s) THEN SizeForDegree(s)
            ELSE Max({StorageNeeded[c] + SizeForDegree(s) : c \in Children(s)})
<1> DEFINE Body(f) == [s \in Supernode |->
                          IF IsLeaf(s) THEN SizeForDegree(s)
                          ELSE Max({f[c] + SizeForDegree(s) : c \in Children(s)})]
           V == Nat
           G == [f \in [Supernode -> V] |-> Body(f)]
<1>1. \E f \in [Supernode -> V] : f = G[f]
  <2>1. G \in [[Supernode -> V] -> [Supernode -> V]]
    <3> SUFFICES ASSUME NEW f \in [Supernode -> Nat], NEW s \in Supernode,
                        ~IsLeaf(s)
                 PROVE  Max({f[c] + SizeForDegree(s) : c \in Children(s)}) \in Nat
      BY SizeNatural
    <3> QED
      BY MaxOverChildren, ChildFacts
  <2>2. \A f, g \in [Supernode -> V] : \A s \in Supernode :
           (\A c \in Children(s) : f[c] = g[c]) => G[f][s] = G[g][s]
    <3> SUFFICES ASSUME NEW f \in [Supernode -> V], NEW g \in [Supernode -> V],
                        NEW s \in Supernode, \A c \in Children(s) : f[c] = g[c]
                 PROVE  {f[c] + SizeForDegree(s) : c \in Children(s)}
                           = {g[c] + SizeForDegree(s) : c \in Children(s)}
      OBVIOUS
    <3> QED
      OBVIOUS
  <2>3. V # {}
    OBVIOUS
  <2> HIDE DEF G, V, Body
  <2> QED
    BY <2>1, <2>2, <2>3, UpwardRecursion
<1>2. \E f : f = Body(f)
  BY <1>1
<1>3. StorageNeeded = CHOOSE f : f = Body(f)
  BY DEF StorageNeeded
<1> HIDE DEF Body
<1>4. StorageNeeded = Body(StorageNeeded)
  BY <1>2, <1>3
<1> QED
  BY <1>4 DEF Body

LEMMA StorageOfParent ==
    ASSUME NEW s \in Supernode, ~IsLeaf(s),
           \A c \in Children(s) : StorageNeeded[c] \in Nat
    PROVE  /\ StorageNeeded[s] \in Nat
           /\ \A c \in Children(s) :
                 StorageNeeded[c] + SizeForDegree(s) <= StorageNeeded[s]
<1> DEFINE m == Max({StorageNeeded[c] + SizeForDegree(s) : c \in Children(s)})
<1>1. StorageNeeded[s] = m
  BY StorageRecursion
<1>2. /\ m \in Nat
      /\ \A c \in Children(s) : StorageNeeded[c] + SizeForDegree(s) <= m
  BY MaxOverChildren
<1> HIDE DEF m
<1> QED
  BY <1>1, <1>2

LEMMA StorageNatural ==
    \A s \in Supernode : StorageNeeded[s] \in Nat
<1> DEFINE Wrong == {s \in Supernode : StorageNeeded[s] \notin Nat}
<1>1. ASSUME NEW s \in Wrong PROVE \E c \in Children(s) : c \in Wrong
  <2> SUFFICES ASSUME \A c \in Children(s) : StorageNeeded[c] \in Nat
               PROVE  StorageNeeded[s] \in Nat
    BY ChildFacts
  <2>1. CASE IsLeaf(s)
    BY <2>1, StorageRecursion, SizeNatural
  <2>2. CASE ~IsLeaf(s)
    BY <2>2, StorageOfParent
  <2> QED
    BY <2>1, <2>2
<1> Wrong \subseteq Supernode
  OBVIOUS
<1> HIDE DEF Wrong
<1>2. Wrong = {}
  BY <1>1, FromTheLeaves
<1> QED
  BY <1>2 DEF Wrong

\* What the two recursions amount to along an edge of the forest: neither the
\* work nor the stack of a subtree is less than that of a child's subtree, and
\* the stack has room for the supernode's own front below the child's.
EstimatesGrow ==
    /\ TotalWork \in Nat
    /\ \A s \in Supernode :
          /\ WorkEstimate[s] \in Nat
          /\ StorageNeeded[s] \in Nat
          /\ SizeForDegree(s) <= StorageNeeded[s]
          /\ \A c \in Children(s) :
                /\ WorkEstimate[c] <= WorkEstimate[s]
                /\ StorageNeeded[c] + SizeForDegree(s) <= StorageNeeded[s]

\* The estimates that the factorization takes its decisions by grow from a child to
\* its parent (TotalWorkEstimate and storageNeeded), in every forest.
THEOREM EstimatesAreMonotone == EstimatesGrow
<1>1. TotalWork \in Nat
  <2>1. \A r \in Roots : WorkEstimate[r] \in Nat
    BY WorkNatural DEF Roots
  <2> QED
    BY <2>1, FiniteForest, SumNatural DEF TotalWork
<1>2. ASSUME NEW s \in Supernode PROVE SizeForDegree(s) <= StorageNeeded[s]
  <2>1. CASE IsLeaf(s)
    <3>1. StorageNeeded[s] = SizeForDegree(s)
      BY <2>1, StorageRecursion
    <3> QED
      BY <3>1, SizeNatural
  <2>2. CASE ~IsLeaf(s)
    <3>1. PICK c \in Children(s) : TRUE
      BY <2>2 DEF IsLeaf
    <3>2. StorageNeeded[c] + SizeForDegree(s) <= StorageNeeded[s]
      BY <2>2, StorageNatural, StorageOfParent, ChildFacts
    <3> QED
      BY <3>2, StorageNatural, SizeNatural, ChildFacts
  <2> QED
    BY <2>1, <2>2
<1>3. ASSUME NEW s \in Supernode, NEW c \in Children(s)
      PROVE  /\ WorkEstimate[c] <= WorkEstimate[s]
             /\ StorageNeeded[c] + SizeForDegree(s) <= StorageNeeded[s]
  <2>1. ~IsLeaf(s)
    BY DEF IsLeaf
  <2>2. \A d \in Children(s) :
           WorkEstimate[d] \in Nat /\ StorageNeeded[d] \in Nat
    BY WorkNatural, StorageNatural, ChildFacts
  <2>3. WorkEstimate[c] <= SumOver(WorkEstimate, Children(s))
    BY <2>2, FiniteForest, TermAtMostSum
  <2>4. SumOver(WorkEstimate, Children(s)) \in Nat
    BY <2>2, FiniteForest, SumNatural
  <2>5. WorkEstimate[c] <= WorkEstimate[s]
    BY <2>2, <2>3, <2>4, WorkRecursion, IntraNodeWorkNatural
  <2>6. StorageNeeded[c] + SizeForDegree(s) <= StorageNeeded[s]
    BY <2>1, <2>2, StorageOfParent
  <2> QED
    BY <2>5, <2>6
<1> QED
  BY <1>1, <1>2, <1>3, WorkNatural, StorageNatural DEF EstimatesGrow
\* No subtree has more work than the whole forest.
LEMMA WorkAtMostTotal ==
    \A s \in Supernode : WorkEstimate[s] <= TotalWork
<1> DEFINE A == {s \in Supernode : ~(WorkEstimate[s] <= TotalWork)}
<1>1. TotalWork \in Nat
  BY EstimatesAreMonotone DEF EstimatesGrow
<1>2. ASSUME NEW s \in A PROVE ~IsRoot(s) /\ Parent[s] \in A
  <2>1. ~IsRoot(s)
    <3> SUFFICES ASSUME s \in Roots PROVE WorkEstimate[s] <= TotalWork
      BY DEF Roots
    <3>1. \A r \in Roots : WorkEstimate[r] \in Nat
      BY WorkNatural DEF Roots
    <3> QED
      BY <3>1, FiniteForest, TermAtMostSum DEF TotalWork
  <2>2. Parent[s] \in Supernode /\ s \in Children(Parent[s])
    BY <2>1, ForestAssumption DEF IsRoot, Supernode, Children
  <2>3. WorkEstimate[s] <= WorkEstimate[Parent[s]]
    BY <2>2, EstimatesAreMonotone DEF EstimatesGrow
  <2> QED
    BY <1>1, <2>1, <2>2, <2>3, WorkNatural
<1> A \subseteq Supernode
  OBVIOUS
<1> HIDE DEF A
<1>3. A = {}
  BY <1>2, FromTheRoots
<1> QED
  BY <1>3 DEF A

-----------------------------------------------------------------------------
(***************************************************************************)
(* Sums up the forest.                                                     *)
(***************************************************************************)
\* The supernodes before k that have no parent before k.
Frontier(k) == {s \in Supernode : s < k /\ (IsRoot(s) \/ Parent[s] >= k)}

LEMMA FrontierFacts ==
    /\ Frontier(1) = {}
    /\ Frontier(NumSupernodes + 1) = Roots
    /\ \A k \in Supernode :
          /\ Children(k) \subseteq Frontier(k)
          /\ k \notin Frontier(k)
          /\ Frontier(k + 1) = (Frontier(k) \ Children(k)) \cup {k}
<1> USE ForestAssumption DEF Supernode
<1>1. Frontier(1) = {}
  BY DEF Frontier
<1>2. Frontier(NumSupernodes + 1) = Roots
  BY DEF Frontier, Roots, IsRoot
<1>3. ASSUME NEW k \in Supernode
      PROVE  /\ Children(k) \subseteq Frontier(k)
             /\ k \notin Frontier(k)
             /\ Frontier(k + 1) = (Frontier(k) \ Children(k)) \cup {k}
  <2>1. Children(k) \subseteq Frontier(k) /\ k \notin Frontier(k)
    BY DEF Frontier, Children
  <2>2. ASSUME NEW s \in Supernode
        PROVE  s \in Frontier(k + 1) <=> s \in (Frontier(k) \ Children(k)) \cup {k}
    BY DEF Frontier, Children, IsRoot
  <2> QED
    BY <2>1, <2>2 DEF Frontier
<1> QED
  BY <1>1, <1>2, <1>3

\* What every supernode adds to the values of its children arrives at the roots
\* exactly once.
LEMMA SumUpTheForest ==
    ASSUME NEW f, NEW g,
           \A s \in Supernode : /\ f[s] \in Nat /\ g[s] \in Nat
                                /\ f[s] = SumOver(f, Children(s)) + g[s]
    PROVE  SumOver(f, Roots) = SumOver(g, Supernode)
<1> DEFINE Before(k) == 1..(k - 1)
           Wrong == {k \in 1..(NumSupernodes + 1) :
                        SumOver(f, Frontier(k)) # SumOver(g, Before(k))}
<1>1. Wrong = {}
  <2> SUFFICES ASSUME Wrong # {} PROVE FALSE
    OBVIOUS
  <2>1. PICK k \in Wrong : \A j \in Wrong : k <= j
    <3>1. Wrong \subseteq Nat
      OBVIOUS
    <3> HIDE DEF Wrong
    <3> QED
      BY <3>1, LeastElement
  <2>2. /\ k \in Nat /\ 1 <= k /\ k <= NumSupernodes + 1
        /\ SumOver(f, Frontier(k)) # SumOver(g, Before(k))
    BY <2>1, ForestAssumption
  <2>3. k # 1
    <3>1. Before(1) = {}
      OBVIOUS
    <3> QED
      BY <2>2, <3>1, FrontierFacts, SumEmpty
  <2> DEFINE j == k - 1
  <2>4. j \in Supernode /\ j \notin Wrong /\ k = j + 1
    BY <2>1, <2>2, <2>3, ForestAssumption DEF Supernode
  <2>5. SumOver(f, Frontier(j)) = SumOver(g, Before(j))
    BY <2>4, ForestAssumption DEF Supernode
  <2> HIDE DEF j, Wrong
  <2> DEFINE rest == Frontier(j) \ Children(j)
  <2>6. /\ rest \subseteq Supernode /\ Children(j) \subseteq Supernode
        /\ j \notin rest /\ rest \cap Children(j) = {}
        /\ Frontier(j) = rest \cup Children(j)
        /\ Frontier(k) = rest \cup {j}
    BY <2>4, FrontierFacts DEF Frontier, Children
  <2>7. IsFiniteSet(rest) /\ IsFiniteSet(Children(j))
    BY <2>6, FiniteForest, FS_Subset
  <2> HIDE DEF rest
  <2>8. /\ \A x \in rest \cup {j} : f[x] \in Nat /\ f[x] \in Int
        /\ \A x \in rest \cup Children(j) : f[x] \in Nat /\ f[x] \in Int
    BY <2>4, <2>6
  <2>9. SumOver(f, Frontier(k)) = f[j] + SumOver(f, rest)
    BY <2>6, <2>7, <2>8, SumAdd
  <2>10. SumOver(f, Frontier(j)) = SumOver(f, rest) + SumOver(f, Children(j))
    BY <2>6, <2>7, <2>8, SumJoin
  <2>11. SumOver(g, Before(k)) = g[j] + SumOver(g, Before(j))
    <3>1. /\ Before(k) = Before(j) \cup {j} /\ j \notin Before(j)
          /\ Before(j) \subseteq Supernode
      BY <2>4, ForestAssumption DEF Supernode
    <3>2. IsFiniteSet(Before(j))
      BY <3>1, FiniteForest, FS_Subset
    <3>3. \A x \in Before(j) \cup {j} : g[x] \in Int
      BY <2>4, <3>1
    <3> HIDE DEF Before
    <3> QED
      BY <3>1, <3>2, <3>3, SumAdd
  <2>12. /\ SumOver(f, rest) \in Nat /\ SumOver(f, Children(j)) \in Nat
         /\ g[j] \in Nat /\ f[j] = SumOver(f, Children(j)) + g[j]
    BY <2>4, <2>7, <2>8, SumNatural
  <2> DEFINE r == SumOver(f, rest)
             c == SumOver(f, Children(j))
  <2>13. /\ SumOver(f, Frontier(k)) = (c + g[j]) + r
         /\ SumOver(g, Before(k)) = g[j] + (r + c)
    BY <2>5, <2>9, <2>10, <2>11, <2>12
  <2>14. \A x, y, z \in Nat : (x + y) + z = y + (z + x)
    OBVIOUS
  <2>15. r \in Nat /\ c \in Nat
    BY <2>12
  <2> HIDE DEF Before, r, c
  <2> QED
    BY <2>2, <2>12, <2>13, <2>14, <2>15
<1>2. SumOver(f, Frontier(NumSupernodes + 1)) = SumOver(g, Before(NumSupernodes + 1))
  BY <1>1, ForestAssumption
<1>3. Before(NumSupernodes + 1) = Supernode
  BY ForestAssumption DEF Supernode
<1> HIDE DEF Before
<1> QED
  BY <1>2, <1>3, FrontierFacts
=============================================================================
