----------------------- MODULE TriangularSolveProofs -----------------------
(***************************************************************************)
(* What the recursive definitions of TriangularSolve compute, for every    *)
(* forest: the ancestors of a supernode, and a traversal that lists every  *)
(* subtree without a gap and with its root last.  And on this base: the    *)
(* triangular solves take the unknowns in an order that the dependencies   *)
(* allow, have no data race and add each update once, for every forest,    *)
(* structure, threshold and number of right-hand sides.                    *)
(***************************************************************************)
EXTENDS TriangularSolve, AssemblyForestProofs, SequenceTheorems

LEMMA ParentFacts ==
    ASSUME NEW s \in Supernode, ~IsRoot(s)
    PROVE  Parent[s] \in Supernode /\ Parent[s] > s /\ s \in Children(Parent[s])
BY ForestAssumption DEF IsRoot, Supernode, Children

-----------------------------------------------------------------------------
(***************************************************************************)
(* Ancestors and descendants.                                              *)
(***************************************************************************)
\* The ancestors of a supernode are its parent and those of the parent.
LEMMA AncestorsAreClimbed == AncestorsClimb
<1> DEFINE Body(f) == [s \in Supernode |->
                          IF IsRoot(s) THEN {}
                          ELSE {Parent[s]} \cup f[Parent[s]]]
           V == SUBSET Supernode
           G == [f \in [Supernode -> V] |-> Body(f)]
           rank == [s \in Supernode |-> NumSupernodes - s]
           K == NumSupernodes
<1>1. /\ rank \in [Supernode -> Nat] /\ K \in Nat
      /\ \A s \in Supernode : rank[s] < K
      /\ \A s \in Supernode : ~IsRoot(s) => rank[Parent[s]] < rank[s]
  <2>1. \A s \in Supernode : ~IsRoot(s) => Parent[s] \in Supernode /\ Parent[s] > s
    BY ParentFacts
  <2> QED
    BY <2>1, ForestAssumption DEF Supernode
<1>2. G \in [[Supernode -> V] -> [Supernode -> V]]
  BY ParentFacts
<1>3. ASSUME NEW f \in [Supernode -> V], NEW g \in [Supernode -> V],
             NEW s \in Supernode,
             \A t \in Supernode : rank[t] < rank[s] => f[t] = g[t]
      PROVE  G[f][s] = G[g][s]
  <2>1. ~IsRoot(s) => f[Parent[s]] = g[Parent[s]]
    <3> HIDE DEF rank
    <3> QED
      BY <1>1, <1>3, ParentFacts
  <2> QED
    BY <2>1
<1>4. \E f \in [Supernode -> V] : f = G[f]
  <2> HIDE DEF rank, K, G, V
  <2>1. Determined(Supernode, V, rank, K, G)
    BY <1>1, <1>2, <1>3 DEF Determined
  <2>2. V # {}
    BY DEF V
  <2> QED
    BY <2>1, <2>2, RecursionExists
<1>5. \E f : f = Body(f)
  BY <1>4
<1>6. Ancestors = CHOOSE f : f = Body(f)
  BY DEF Ancestors
<1> HIDE DEF Body
<1>7. Ancestors = Body(Ancestors)
  BY <1>5, <1>6
<1> QED
  BY <1>7 DEF Body, AncestorsClimb

\* A supernode and all below it.
Descendants(s) == {t \in Supernode : t = s \/ s \in Ancestors[t]}

LEMMA DescendantFacts ==
    ASSUME NEW s \in Supernode, NEW t \in Supernode
    PROVE  /\ s \in Descendants(s)
           /\ t \in Descendants(s)
                 <=> t = s \/ (~IsRoot(t) /\ Parent[t] \in Descendants(s))
BY AncestorsAreClimbed, ParentFacts DEF AncestorsClimb, Descendants

\* What is closed towards the roots has, with a supernode, all its ancestors.
LEMMA ClosedUpward ==
    ASSUME NEW C, C \subseteq Supernode,
           \A t \in C : ~IsRoot(t) => Parent[t] \in C,
           NEW s \in Supernode, NEW t \in C, t \in Descendants(s)
    PROVE  s \in C
<1> DEFINE A == {u \in C : u \in Descendants(s)}
<1> SUFFICES ASSUME s \notin C PROVE FALSE
  OBVIOUS
<1>1. ASSUME NEW u \in A PROVE ~IsRoot(u) /\ Parent[u] \in A
  <2>1. u \in Supernode /\ u # s
    OBVIOUS
  <2>2. ~IsRoot(u) /\ Parent[u] \in Descendants(s)
    BY <2>1, DescendantFacts
  <2> QED
    BY <2>2
<1>2. A = {}
  <2>1. A \subseteq Supernode
    OBVIOUS
  <2> HIDE DEF A
  <2> QED
    BY <1>1, <2>1, FromTheRoots
<1> QED
  BY <1>2

\* What is below a descendant is one.
LEMMA DescendantsOfDescendant ==
    ASSUME NEW s \in Supernode, NEW t \in Descendants(s)
    PROVE  Descendants(t) \subseteq Descendants(s)
<1> DEFINE A == {u \in Descendants(t) : u \notin Descendants(s)}
<1>1. t \in Supernode /\ A \subseteq Supernode
  BY DEF Descendants
<1>2. ASSUME NEW u \in A PROVE ~IsRoot(u) /\ Parent[u] \in A
  <2>1. u \in Supernode /\ u # t
    BY <1>1
  <2>2. ~IsRoot(u) /\ Parent[u] \in Descendants(t)
    BY <1>1, <2>1, DescendantFacts
  <2>3. Parent[u] \notin Descendants(s)
    BY <2>1, <2>2, DescendantFacts
  <2> QED
    BY <2>2, <2>3
<1>3. A = {}
  <2> HIDE DEF A
  <2> QED
    BY <1>1, <1>2, FromTheRoots
<1> QED
  BY <1>3

\* Below a supernode is what is a child of it, or below one.
LEMMA DescendantsOfChildren ==
    ASSUME NEW s \in Supernode, NEW t \in Descendants(s), t # s
    PROVE  \E c \in Children(s) : t \in Descendants(c)
<1> DEFINE A == {v \in Descendants(s) \ {s} :
                    \A c \in Children(s) : v \notin Descendants(c)}
<1>1. A \subseteq Supernode
  BY DEF Descendants
<1>2. ASSUME NEW v \in A PROVE ~IsRoot(v) /\ Parent[v] \in A
  <2>1. v \in Supernode /\ ~IsRoot(v) /\ Parent[v] \in Descendants(s)
    BY <1>1, DescendantFacts
  <2>2. Parent[v] # s
    <3> SUFFICES ASSUME Parent[v] = s PROVE FALSE
      OBVIOUS
    <3>1. v \in Children(s) /\ v \in Descendants(v)
      BY <2>1, DescendantFacts DEF Children
    <3> QED
      BY <3>1
  <2>3. ASSUME NEW c \in Children(s), Parent[v] \in Descendants(c) PROVE FALSE
    <3>1. v \in Descendants(c)
      BY <2>1, <2>3, ChildFacts, DescendantFacts
    <3> QED
      BY <3>1
  <2> QED
    BY <2>1, <2>2, <2>3
<1>3. A = {}
  <2> HIDE DEF A
  <2> QED
    BY <1>1, <1>2, FromTheRoots
<1> QED
  BY <1>3

-----------------------------------------------------------------------------
(***************************************************************************)
(* Listing a set in increasing order.                                      *)
(***************************************************************************)
Increasing(q, S) ==
    /\ q \in [1..Cardinality(S) -> S]
    /\ \A i, j \in 1..Cardinality(S) : i < j => q[i] < q[j]

LEMMA IncreasingExists ==
    ASSUME NEW S, S \subseteq Supernode
    PROVE  \E q : Increasing(q, S)
<1> DEFINE Wrong == {T \in SUBSET S : ~\E q : Increasing(q, T)}
<1> SUFFICES ASSUME Wrong # {} PROVE FALSE
  OBVIOUS
<1>1. \A T \in SUBSET S : IsFiniteSet(T) /\ Cardinality(T) \in Nat
  BY FiniteForest, FS_Subset, FS_CardinalityType
<1>2. PICK T \in Wrong : \A U \in SUBSET T : U \in Wrong => U = T
  <2>1. Wrong \subseteq SUBSET S /\ IsFiniteSet(S)
    BY <1>1
  <2> HIDE DEF Wrong
  <2> QED
    BY <2>1, SmallestSubset
<1>3. T \subseteq Supernode /\ ~\E q : Increasing(q, T)
  BY <1>2
<1>4. T # {}
  <2>1. Cardinality({}) = 0
    BY FS_EmptySet
  <2> SUFFICES Increasing([i \in 1..0 |-> 0], {})
    BY <1>3
  <2> QED
    BY <2>1 DEF Increasing
<1>5. PICK m \in T : \A y \in T : m >= y
  BY <1>3, <1>4, GreatestElement
<1> DEFINE U == T \ {m}
           n == Cardinality(U)
<1>6. PICK q : Increasing(q, U)
  BY <1>2
<1>7. n \in Nat /\ Cardinality(T) = n + 1
  <2>1. U \in SUBSET S /\ T = U \cup {m} /\ m \notin U
    BY <1>2
  <2> QED
    BY <1>1, <2>1, FS_AddElement
<1>8. \A i \in 1..n : q[i] \in U
  BY <1>6 DEF Increasing
<1>9. \A y \in U : y < m
  BY <1>3, <1>5 DEF Supernode
<1> DEFINE p == [i \in 1..(n + 1) |-> IF i = n + 1 THEN m ELSE q[i]]
<1> HIDE DEF n
<1>10. \A i \in 1..(n + 1) : i # n + 1 => i \in 1..n
  BY <1>7
<1>11. p \in [1..(n + 1) -> T]
  BY <1>5, <1>8, <1>10
<1>12. \A i, j \in 1..(n + 1) : i < j => p[i] < p[j]
  <2> SUFFICES ASSUME NEW i \in 1..(n + 1), NEW j \in 1..(n + 1), i < j
               PROVE  p[i] < p[j]
    OBVIOUS
  <2>1. i \in 1..n
    BY <1>7
  <2>2. CASE j = n + 1
    BY <1>8, <1>9, <1>10, <2>1, <2>2, <1>7
  <2>3. CASE j # n + 1
    <3>1. j \in 1..n
      BY <1>10, <2>3
    <3>2. q[i] < q[j]
      BY <1>6, <2>1, <3>1 DEF Increasing, n
    <3>3. i # n + 1
      BY <1>7, <2>1
    <3> QED
      BY <2>3, <3>2, <3>3
  <2> QED
    BY <2>2, <2>3
<1>13. Increasing(p, T)
  BY <1>7, <1>11, <1>12 DEF Increasing
<1> QED
  BY <1>3, <1>13

\* The sequence lists exactly the set, without repetitions.
LEMMA AscendingLists ==
    ASSUME NEW S, S \subseteq Supernode
    PROVE  /\ Ascending(S) \in Seq(Supernode)
           /\ \A i, j \in 1..Len(Ascending(S)) :
                 Ascending(S)[i] = Ascending(S)[j] => i = j
           /\ \A s \in Supernode :
                 s \in S <=> \E i \in 1..Len(Ascending(S)) : Ascending(S)[i] = s
<1> DEFINE n == Cardinality(S)
           q == Ascending(S)
<1>1. Increasing(q, S)
  <2>1. \E p \in [1..n -> S] : \A i, j \in 1..n : i < j => p[i] < p[j]
    BY IncreasingExists DEF Increasing
  <2> QED
    BY <2>1 DEF Ascending, Increasing
<1>2. IsFiniteSet(S) /\ n \in Nat
  BY FiniteForest, FS_Subset, FS_CardinalityType
<1>3. q \in [1..n -> S]
  BY <1>1 DEF Increasing
<1>4. \A i, j \in 1..n : q[i] = q[j] => i = j
  <2> SUFFICES ASSUME NEW i \in 1..n, NEW j \in 1..n, i # j PROVE q[i] # q[j]
    OBVIOUS
  <2>1. q[i] \in Nat /\ q[j] \in Nat
    <3>1. \A y \in S : y \in Nat
      BY ForestAssumption DEF Supernode
    <3>2. q[i] \in S /\ q[j] \in S
      BY <1>3
    <3> HIDE DEF q, n
    <3> QED
      BY <3>1, <3>2
  <2>2. i < j => q[i] < q[j]
    BY <1>1 DEF Increasing
  <2>3. j < i => q[j] < q[i]
    BY <1>1 DEF Increasing
  <2> QED
    BY <1>2, <2>1, <2>2, <2>3
<1>5. q \in Seq(Supernode) /\ Len(q) = n
  BY <1>2, <1>3
<1>6. \A s \in S : \E i \in 1..n : q[i] = s
  <2>1. q \in Injection(1..n, S)
    BY <1>3, <1>4 DEF Injection, IsInjective
  <2>2. Cardinality(1..n) = n
    BY <1>2, FS_Interval
  <2>3. q \in Surjection(1..n, S)
    BY <1>2, <2>1, <2>2, FS_Injection
  <2> QED
    BY <2>3 DEF Surjection
<1>7. \A i \in 1..n : q[i] \in S
  BY <1>3
<1> HIDE DEF n, q
<1> QED
  BY <1>4, <1>5, <1>6, <1>7 DEF q

-----------------------------------------------------------------------------
(***************************************************************************)
(* The loop over the stack.  P is the stack of pending supernodes, O the   *)
(* order so far: the supernode visited last is the first of O.             *)
(***************************************************************************)
In(s, q) == \E i \in 1..Len(q) : q[i] = s

\* The list q has no repetitions.
Distinct(q) == \A i, j \in 1..Len(q) : q[i] = q[j] => i = j

\* Everything pending or visited is a root or the child of what is visited.
Reached(P, O) ==
    \A s \in Supernode :
        In(s, P) \/ In(s, O) <=> IsRoot(s) \/ In(Parent[s], O)

\* As long as descendants of O[i] are pending, they are on top of the stack,
\* and nothing else has been visited since.
Nested(P, O) ==
    \A i \in 1..Len(O), j \in 1..Len(P) : P[j] \in Descendants(O[i]) =>
        /\ \A k \in j..Len(P) : P[k] \in Descendants(O[i])
        /\ \A k \in 1..i : O[k] \in Descendants(O[i])

\* The descendants of O[i] are next to it.
Contiguous(O) ==
    \A i \in 1..Len(O) : \A j \in 1..i : O[j] \in Descendants(O[i]) =>
        \A k \in j..i : O[k] \in Descendants(O[i])

\* Descendants are visited after their ancestors.
Ordered(O) ==
    \A i, j \in 1..Len(O) : O[j] \in Descendants(O[i]) => j <= i

TraversalInv(P, O) ==
    /\ P \in Seq(Supernode) /\ O \in Seq(Supernode)
    /\ Distinct(P) /\ Distinct(O)
    /\ \A s \in Supernode : ~(In(s, P) /\ In(s, O))
    /\ Reached(P, O)
    /\ Nested(P, O) /\ Contiguous(O) /\ Ordered(O)

LEMMA TraversalStart == TraversalInv(Ascending(Roots), <<>>)
<1>1. Roots \subseteq Supernode
  BY DEF Roots
<1> DEFINE P == Ascending(Roots)
<1>2. /\ P \in Seq(Supernode) /\ Distinct(P)
      /\ \A s \in Supernode : s \in Roots <=> In(s, P)
  BY <1>1, AscendingLists DEF Distinct, In
<1>3. <<>> \in Seq(Supernode) /\ Len(<<>>) = 0
  OBVIOUS
<1> HIDE DEF P
<1>4. \A s : ~In(s, <<>>)
  BY <1>3 DEF In
<1>5. Reached(P, <<>>)
  BY <1>2, <1>4 DEF Reached, Roots
<1> QED
  BY <1>2, <1>3, <1>4, <1>5
     DEF TraversalInv, Distinct, Nested, Contiguous, Ordered, P

\* Until all are visited some supernode is pending.
LEMMA SomePending ==
    ASSUME NEW P, NEW O, TraversalInv(P, O), Len(P) = 0
    PROVE  Len(O) = NumSupernodes
<1> DEFINE A == {s \in Supernode : ~In(s, O)}
<1>1. P \in Seq(Supernode) /\ O \in Seq(Supernode) /\ Reached(P, O) /\ Distinct(O)
  BY DEF TraversalInv
<1>2. \A s : ~In(s, P)
  BY DEF In
<1>3. ASSUME NEW s \in A PROVE ~IsRoot(s) /\ Parent[s] \in A
  <2>1. ~IsRoot(s) /\ ~In(Parent[s], O)
    BY <1>1, <1>2 DEF Reached
  <2> QED
    BY <2>1, ParentFacts
<1>4. A = {}
  <2> A \subseteq Supernode
    OBVIOUS
  <2> HIDE DEF A
  <2> QED
    BY <1>3, FromTheRoots
<1> DEFINE n == Len(O)
<1>5. n \in Nat /\ O \in [1..n -> Supernode]
  BY <1>1, LenProperties
<1>6. \A s \in Supernode : \E i \in 1..n : O[i] = s
  BY <1>4 DEF In
<1>7. \A i, j \in 1..n : O[i] = O[j] => i = j
  BY <1>1 DEF Distinct
<1> HIDE DEF n
<1>8. IsFiniteSet(1..n) /\ Cardinality(1..n) = n
  BY <1>5, FS_Interval
<1>9. O \in Surjection(1..n, Supernode) /\ O \in Injection(1..n, Supernode)
  BY <1>5, <1>6, <1>7 DEF Surjection, Injection, IsInjective
<1>10. Cardinality(Supernode) = n
  BY <1>8, <1>9, FS_Surjection
<1>11. Cardinality(Supernode) = NumSupernodes
  BY ForestAssumption, FS_Interval DEF Supernode
<1> QED
  BY <1>10, <1>11 DEF n

\* What is on the stack and in the order after a step that visits s, the top of
\* the stack, with the list C of its children.
Stepped(P, O, C, s, Pn, On) ==
    /\ Pn \in Seq(Supernode) /\ On \in Seq(Supernode)
    /\ Len(Pn) = Len(P) - 1 + Len(C) /\ Len(On) = Len(O) + 1
    /\ \A j \in 1..(Len(P) - 1) : Pn[j] = P[j]
    /\ \A j \in 1..Len(C) : Pn[Len(P) - 1 + j] = C[j]
    /\ On[1] = s
    /\ \A i \in 1..Len(O) : On[i + 1] = O[i]

LEMMA StepLists ==
    ASSUME NEW P \in Seq(Supernode), NEW O \in Seq(Supernode), Len(P) # 0,
           NEW C \in Seq(Supernode)
    PROVE  /\ Last(P) \in Supernode
           /\ Stepped(P, O, C, Last(P), Front(P) \o C, <<Last(P)>> \o O)
<1> DEFINE n == Len(P) s == Last(P) F == Front(P) Pn == F \o C On == <<s>> \o O
<1>1. n \in Nat \ {0} /\ s \in Supernode /\ s = P[n]
  BY LenProperties, ElementOfSeq DEF Last
<1>2. F = SubSeq(P, 1, n - 1)
  BY DEF Front
<1>3. \A i \in 1..(n - 1) : P[i] \in Supernode
  BY ElementOfSeq
<1> HIDE DEF F, n, s
<1>4. /\ F \in Seq(Supernode) /\ Len(F) = n - 1
      /\ \A i \in 1..(n - 1) : F[i] = P[i]
  <2>1. /\ SubSeq(P, 1, n - 1) \in Seq(Supernode)
        /\ Len(SubSeq(P, 1, n - 1)) = IF 1 <= n - 1 THEN n - 1 - 1 + 1 ELSE 0
        /\ \A i \in 1..(n - 1 - 1 + 1) : SubSeq(P, 1, n - 1)[i] = P[1 + i - 1]
    BY <1>1, <1>3, SubSeqProperties
  <2> QED
    BY <1>1, <1>2, <2>1
<1>5. Len(C) \in Nat /\ Len(O) \in Nat
  BY LenProperties
<1>6. /\ Pn \in Seq(Supernode) /\ Len(Pn) = n - 1 + Len(C)
      /\ \A i \in 1..(n - 1) : Pn[i] = P[i]
      /\ \A j \in 1..Len(C) : Pn[n - 1 + j] = C[j]
  <2>1. /\ F \o C \in Seq(Supernode)
        /\ Len(F \o C) = Len(F) + Len(C)
        /\ \A i \in 1..(Len(F) + Len(C)) :
              (F \o C)[i] = IF i <= Len(F) THEN F[i] ELSE C[i - Len(F)]
    BY <1>4, ConcatProperties
  <2> DEFINE m == Len(F) c == Len(C)
  <2>2. m = n - 1 /\ m \in Nat /\ c \in Nat
    BY <1>1, <1>4, <1>5
  <2>3. \A i \in 1..m : Pn[i] = P[i]
    <3> TAKE i \in 1..m
    <3>1. i \in 1..(m + c) /\ i <= m
      BY <2>2
    <3> QED
      BY <1>4, <2>1, <2>2, <3>1
  <2>4. \A j \in 1..c : Pn[m + j] = C[j]
    <3> TAKE j \in 1..c
    <3>1. m + j \in 1..(m + c) /\ ~(m + j <= m) /\ m + j - m = j
      BY <2>2
    <3> QED
      BY <2>1, <3>1
  <2> QED
    BY <2>1, <2>2, <2>3, <2>4
<1>7. <<s>> \in Seq(Supernode) /\ Len(<<s>>) = 1 /\ <<s>>[1] = s
  BY <1>1
<1>8. /\ On \in Seq(Supernode) /\ Len(On) = 1 + Len(O)
      /\ On[1] = s /\ \A i \in 1..Len(O) : On[i + 1] = O[i]
  <2>1. /\ <<s>> \o O \in Seq(Supernode)
        /\ Len(<<s>> \o O) = Len(<<s>>) + Len(O)
        /\ \A i \in 1..(Len(<<s>>) + Len(O)) :
              (<<s>> \o O)[i] = IF i <= Len(<<s>>) THEN <<s>>[i]
                                ELSE O[i - Len(<<s>>)]
    <3> HIDE DEF On
    <3> QED
      BY <1>7, ConcatProperties
  <2>2. On[1] = s
    BY <1>5, <1>7, <2>1
  <2>3. \A i \in 1..Len(O) : On[i + 1] = O[i]
    <3> TAKE i \in 1..Len(O)
    <3>1. i + 1 \in 1..(1 + Len(O)) /\ ~(i + 1 <= 1) /\ i + 1 - 1 = i
      BY <1>5
    <3> QED
      BY <1>7, <2>1, <3>1
  <2> QED
    BY <1>7, <2>1, <2>2, <2>3
<1> HIDE DEF Pn, On
<1>9. Len(On) = Len(O) + 1
  BY <1>5, <1>8
<1>10. Stepped(P, O, C, s, Pn, On)
  BY <1>6, <1>8, <1>9 DEF Stepped, n
<1> QED
  BY <1>1, <1>10 DEF Pn, On, F, s

\* A step keeps what the stack and the order are to each other.
LEMMA TraversalStep ==
    ASSUME NEW P, NEW O, TraversalInv(P, O), Len(P) # 0,
           NEW s, s = P[Len(P)],
           NEW C, C \in Seq(Supernode), Distinct(C),
           \A t \in Supernode : t \in Children(s) <=> In(t, C),
           NEW Pn, NEW On, Stepped(P, O, C, s, Pn, On)
    PROVE  TraversalInv(Pn, On)
<1> DEFINE n == Len(P) - 1 m == Len(O) c == Len(C)
<1>1. /\ P \in Seq(Supernode) /\ O \in Seq(Supernode)
      /\ n \in Nat /\ m \in Nat /\ c \in Nat /\ Len(P) = n + 1
      /\ s \in Supernode
  BY LenProperties, ElementOfSeq DEF TraversalInv
<1>2. /\ Pn \in Seq(Supernode) /\ On \in Seq(Supernode)
      /\ Len(Pn) = n + c /\ Len(On) = m + 1
      /\ \A j \in 1..n : Pn[j] = P[j]
      /\ \A j \in 1..c : Pn[n + j] = C[j]
      /\ On[1] = s /\ \A i \in 1..m : On[i + 1] = O[i]
  BY DEF Stepped
<1>3. /\ Distinct(P) /\ Distinct(O) /\ Reached(P, O)
      /\ Nested(P, O) /\ Contiguous(O) /\ Ordered(O)
      /\ \A t \in Supernode : ~(In(t, P) /\ In(t, O))
  BY DEF TraversalInv
<1>4. P[n + 1] = s
  BY <1>1
<1> HIDE DEF n, m, c
\* Where the entries come from.
<1>5. \A j \in 1..(n + c) : \/ j \in 1..n /\ Pn[j] = P[j]
                            \/ \E k \in 1..c : j = n + k /\ Pn[j] = C[k]
  <2> TAKE j \in 1..(n + c)
  <2>1. CASE j <= n
    BY <1>1, <1>2, <2>1
  <2>2. CASE ~(j <= n)
    <3>1. j - n \in 1..c /\ j = n + (j - n)
      BY <1>1, <2>2
    <3> QED
      BY <1>2, <3>1
  <2> QED
    BY <2>1, <2>2
<1>6. \A i \in 1..(m + 1) : \/ i = 1 /\ On[i] = s
                            \/ \E k \in 1..m : i = k + 1 /\ On[i] = O[k]
  <2> TAKE i \in 1..(m + 1)
  <2>1. i # 1 => i - 1 \in 1..m /\ i = (i - 1) + 1
    BY <1>1
  <2> QED
    BY <1>2, <2>1
<1>7. /\ \A j \in 1..n : P[j] \in Supernode /\ In(P[j], P) /\ P[j] # s
      /\ \A i \in 1..m : O[i] \in Supernode /\ In(O[i], O)
      /\ \A k \in 1..c : C[k] \in Supernode /\ C[k] \in Children(s)
      /\ In(s, P) /\ ~In(s, O)
  <2>1. \A j \in 1..n : j \in 1..(n + 1) /\ n + 1 \in 1..(n + 1) /\ j # n + 1
    BY <1>1
  <2>2. n + 1 \in 1..(n + 1)
    BY <1>1
  <2>3. In(s, P)
    BY <1>1, <1>4, <2>2 DEF In
  <2>4. \A j \in 1..n : P[j] \in Supernode /\ In(P[j], P) /\ P[j] # s
    BY <1>1, <1>3, <1>4, <2>1, ElementOfSeq DEF In, Distinct
  <2>5. \A i \in 1..m : O[i] \in Supernode /\ In(O[i], O)
    BY <1>1, ElementOfSeq DEF In, m
  <2>6. \A k \in 1..c : C[k] \in Supernode /\ C[k] \in Children(s)
    BY ElementOfSeq DEF In, c
  <2> QED
    BY <1>1, <1>3, <2>3, <2>4, <2>5, <2>6
<1>8. \A t \in Children(s) : /\ t \in Supernode /\ t # s /\ Parent[t] = s
                             /\ ~IsRoot(t) /\ ~In(t, P) /\ ~In(t, O)
  <2> SUFFICES ASSUME NEW t \in Children(s)
               PROVE  /\ t \in Supernode /\ t # s /\ Parent[t] = s
                      /\ ~IsRoot(t) /\ ~In(t, P) /\ ~In(t, O)
    OBVIOUS
  <2>1. t \in Supernode /\ Parent[t] = s /\ ~IsRoot(t)
    BY <1>1, ForestAssumption DEF Children, IsRoot, Supernode
  <2>2. t # s
    BY <1>1, <2>1, ParentFacts DEF Supernode
  <2> QED
    BY <1>3, <1>7, <2>1, <2>2 DEF Reached
<1>9. \A t \in Supernode : /\ In(t, Pn) <=> (In(t, P) /\ t # s) \/ t \in Children(s)
                           /\ In(t, On) <=> t = s \/ In(t, O)
  <2> TAKE t \in Supernode
  <2>1. In(t, Pn) => (In(t, P) /\ t # s) \/ t \in Children(s)
    BY <1>2, <1>5, <1>7 DEF In
  <2>2. In(t, P) /\ t # s => In(t, Pn)
    <3> SUFFICES ASSUME NEW j \in 1..(n + 1), P[j] = t, t # s PROVE In(t, Pn)
      BY <1>1 DEF In
    <3>1. j \in 1..n /\ j \in 1..(n + c)
      BY <1>1, <1>4
    <3> QED
      BY <1>2, <3>1 DEF In
  <2>3. t \in Children(s) => In(t, Pn)
    <3> SUFFICES ASSUME NEW k \in 1..c, C[k] = t PROVE In(t, Pn)
      BY DEF In, c
    <3>1. n + k \in 1..(n + c)
      BY <1>1
    <3> QED
      BY <1>2, <3>1 DEF In
  <2>4. In(t, On) => t = s \/ In(t, O)
    <3> SUFFICES ASSUME NEW i \in 1..(m + 1), On[i] = t, t # s PROVE In(t, O)
      BY <1>2 DEF In
    <3> QED
      BY <1>6, <1>7
  <2>5. In(s, On)
    <3> 1 \in 1..(m + 1)
      BY <1>1
    <3> QED
      BY <1>2 DEF In
  <2>6. In(t, O) => In(t, On)
    <3> SUFFICES ASSUME NEW i \in 1..m, O[i] = t PROVE In(t, On)
      BY DEF In, m
    <3>1. i + 1 \in 1..(m + 1)
      BY <1>1
    <3> QED
      BY <1>2, <3>1 DEF In
  <2> QED
    BY <2>1, <2>2, <2>3, <2>4, <2>5, <2>6
<1>10. Distinct(Pn)
  <2> SUFFICES ASSUME NEW i \in 1..(n + c), NEW j \in 1..(n + c), Pn[i] = Pn[j]
               PROVE  i = j
    BY <1>2 DEF Distinct
  <2>1. CASE i \in 1..n /\ j \in 1..n
    <3>1. i \in 1..(n + 1) /\ j \in 1..(n + 1) /\ P[i] = P[j]
      BY <1>1, <1>2, <2>1
    <3> QED
      BY <1>1, <1>3, <3>1 DEF Distinct
  <2>2. CASE i \in 1..n /\ j \notin 1..n
    BY <1>2, <1>5, <1>7, <1>8, <2>2
  <2>3. CASE i \notin 1..n /\ j \in 1..n
    BY <1>2, <1>5, <1>7, <1>8, <2>3
  <2>4. CASE i \notin 1..n /\ j \notin 1..n
    <3>1. PICK k \in 1..c, l \in 1..c : i = n + k /\ j = n + l /\ C[k] = C[l]
      BY <1>5, <2>4
    <3>2. k = l
      BY <3>1 DEF Distinct, c
    <3> QED
      BY <3>1, <3>2
  <2> QED
    BY <2>1, <2>2, <2>3, <2>4
<1>11. Distinct(On)
  <2> SUFFICES ASSUME NEW i \in 1..(m + 1), NEW j \in 1..(m + 1), On[i] = On[j]
               PROVE  i = j
    BY <1>2 DEF Distinct
  <2>1. \A k, l \in 1..m : O[k] = O[l] => k = l
    BY <1>3 DEF Distinct, m
  <2> QED
    BY <1>6, <1>7, <2>1
<1>12. \A t \in Supernode : ~(In(t, Pn) /\ In(t, On))
  BY <1>3, <1>8, <1>9
<1>13. Reached(Pn, On)
  <2> SUFFICES ASSUME NEW t \in Supernode
               PROVE  In(t, Pn) \/ In(t, On) <=> IsRoot(t) \/ In(Parent[t], On)
    BY DEF Reached
  <2>1. In(t, Pn) \/ In(t, On) <=> In(t, P) \/ In(t, O) \/ t \in Children(s)
    BY <1>7, <1>9
  <2>2. ~IsRoot(t) => (In(Parent[t], On) <=> Parent[t] = s \/ In(Parent[t], O))
    BY <1>9, ParentFacts
  <2>3. t \in Children(s) <=> Parent[t] = s
    BY DEF Children
  <2> QED
    BY <1>3, <1>8, <2>1, <2>2, <2>3 DEF Reached
\* What is visited is closed towards the roots.
<1>14. \A t \in Supernode : (In(t, O) \/ In(t, P)) /\ t \in Descendants(s) => t = s
  <2> DEFINE V == {v \in Supernode : In(v, O)}
  <2> SUFFICES ASSUME NEW t \in Supernode, In(t, O) \/ In(t, P),
                      t \in Descendants(s), t # s
               PROVE  FALSE
    OBVIOUS
  <2>1. \A v \in V : ~IsRoot(v) => Parent[v] \in V
    BY <1>3, ParentFacts DEF Reached
  <2>2. PICK v \in V : v \in Descendants(s)
    <3>1. CASE In(t, O)
      BY <3>1
    <3>2. CASE In(t, P)
      <4>1. ~IsRoot(t) /\ Parent[t] \in Descendants(s)
        BY <1>1, DescendantFacts
      <4>2. In(Parent[t], O) /\ Parent[t] \in Supernode
        BY <1>3, <3>2, <4>1, ParentFacts DEF Reached
      <4> QED
        BY <4>1, <4>2
    <3> QED
      BY <3>1, <3>2
  <2>3. s \in V
    <3> V \subseteq Supernode
      OBVIOUS
    <3> HIDE DEF V
    <3> QED
      BY <1>1, <2>1, <2>2, ClosedUpward
  <2> QED
    BY <1>7, <2>3
\* Once s is below what is visited, so are its children and all later ones.
<1>15. ASSUME NEW r \in 1..m, s \in Descendants(O[r])
       PROVE  /\ \A t \in Children(s) : t \in Descendants(O[r])
              /\ \A k \in 1..(r + 1) : On[k] \in Descendants(O[r])
  <2>1. O[r] \in Supernode
    BY <1>7
  <2>2. \A t \in Children(s) : t \in Descendants(O[r])
    BY <1>8, <1>15, <2>1, DescendantFacts
  <2>3. \A k \in 1..r : O[k] \in Descendants(O[r])
    <3> n + 1 \in 1..(n + 1)
      BY <1>1
    <3> QED
      BY <1>1, <1>3, <1>4, <1>15 DEF Nested, m
  <2>4. ASSUME NEW k \in 1..(r + 1) PROVE On[k] \in Descendants(O[r])
    <3>1. k \in 1..(m + 1)
      BY <1>1
    <3>2. k # 1 => k - 1 \in 1..r /\ k - 1 \in 1..m /\ (k - 1) + 1 = k
      BY <1>1
    <3> QED
      BY <1>2, <1>15, <2>3, <3>1, <3>2
  <2> QED
    BY <2>2, <2>4
<1>16. Nested(Pn, On)
  <2> SUFFICES ASSUME NEW i \in 1..(m + 1), NEW j \in 1..(n + c),
                      Pn[j] \in Descendants(On[i])
               PROVE  /\ \A k \in j..(n + c) : Pn[k] \in Descendants(On[i])
                      /\ \A k \in 1..i : On[k] \in Descendants(On[i])
    BY <1>2 DEF Nested
  <2>1. CASE i = 1
    <3>1. On[i] = s /\ s \in Descendants(s)
      BY <1>1, <1>2, <2>1, DescendantFacts
    <3>2. j \notin 1..n
      BY <1>2, <1>7, <1>14, <3>1
    <3>3. \A k \in j..(n + c) : k \in 1..(n + c) /\ k \notin 1..n
      BY <1>1, <3>2
    <3>4. \A k \in j..(n + c) : Pn[k] \in Children(s)
      BY <1>5, <1>7, <3>3
    <3>5. \A t \in Children(s) : t \in Descendants(s)
      BY <1>1, <1>8, <3>1, DescendantFacts
    <3> QED
      BY <1>2, <2>1, <3>1, <3>4, <3>5
  <2>2. CASE i # 1
    <3>1. PICK r \in 1..m : i = r + 1 /\ On[i] = O[r]
      BY <1>6, <2>2
    <3>2. O[r] \in Supernode
      BY <1>7
    <3>3. /\ s \in Descendants(O[r])
          /\ j \in 1..n => \A k \in j..(n + 1) : P[k] \in Descendants(O[r])
      <4>1. CASE j \in 1..n
        <5>1. j \in 1..(n + 1) /\ n + 1 \in j..(n + 1) /\ P[j] \in Descendants(O[r])
          BY <1>1, <1>2, <3>1, <4>1
        <5> QED
          BY <1>1, <1>3, <1>4, <5>1 DEF Nested, m
      <4>2. CASE j \notin 1..n
        <5>1. Pn[j] \in Children(s)
          BY <1>5, <1>7, <4>2
        <5>2. Pn[j] # O[r] /\ Pn[j] \in Supernode /\ Parent[Pn[j]] = s
          BY <1>7, <1>8, <5>1
        <5> QED
          BY <3>1, <3>2, <4>2, <5>2, DescendantFacts
      <4> QED
        BY <4>1, <4>2
    <3>4. ASSUME NEW k \in j..(n + c) PROVE Pn[k] \in Descendants(O[r])
      <4>1. CASE k \in 1..n
        <5>1. j \in 1..n /\ k \in j..(n + 1)
          BY <1>1, <4>1
        <5> QED
          BY <1>2, <3>3, <4>1, <5>1
      <4>2. CASE k \notin 1..n
        <5>1. k \in 1..(n + c)
          BY <1>1
        <5>2. Pn[k] \in Children(s)
          BY <1>5, <1>7, <4>2, <5>1
        <5> QED
          BY <1>15, <3>3, <5>2
      <4> QED
        BY <4>1, <4>2
    <3> QED
      BY <1>15, <3>1, <3>3, <3>4
  <2> QED
    BY <2>1, <2>2
<1>17. Contiguous(On)
  <2> SUFFICES ASSUME NEW i \in 1..(m + 1), NEW j \in 1..i, NEW k \in j..i,
                      On[j] \in Descendants(On[i])
               PROVE  On[k] \in Descendants(On[i])
    BY <1>2 DEF Contiguous
  <2>1. CASE i = 1
    BY <1>1, <2>1
  <2>2. CASE i # 1
    <3>1. PICK r \in 1..m : i = r + 1 /\ On[i] = O[r]
      BY <1>6, <2>2
    <3>2. CASE j = 1
      <4>1. s \in Descendants(O[r]) /\ k \in 1..(r + 1)
        BY <1>1, <1>2, <3>1, <3>2
      <4> QED
        BY <1>15, <3>1, <4>1
    <3>3. CASE j # 1
      <4>1. /\ j \in 1..(m + 1) /\ k \in 1..(m + 1)
            /\ j - 1 \in 1..r /\ k - 1 \in (j - 1)..r /\ k - 1 \in 1..m
            /\ j - 1 \in 1..m /\ (k - 1) + 1 = k /\ (j - 1) + 1 = j
        BY <1>1, <3>1, <3>3
      <4>2. On[k] = O[k - 1] /\ On[j] = O[j - 1]
        BY <1>2, <4>1
      <4> QED
        BY <1>3, <3>1, <4>1, <4>2 DEF Contiguous, m
    <3> QED
      BY <3>2, <3>3
  <2> QED
    BY <2>1, <2>2
<1>18. Ordered(On)
  <2> SUFFICES ASSUME NEW i \in 1..(m + 1), NEW j \in 1..(m + 1),
                      On[j] \in Descendants(On[i])
               PROVE  j <= i
    BY <1>2 DEF Ordered
  <2>1. CASE j = 1
    BY <1>1, <2>1
  <2>2. CASE j # 1
    <3>1. PICK k \in 1..m : j = k + 1 /\ On[j] = O[k]
      BY <1>6, <2>2
    <3>2. i # 1
      BY <1>2, <1>7, <1>14, <3>1
    <3>3. PICK r \in 1..m : i = r + 1 /\ On[i] = O[r]
      BY <1>6, <3>2
    <3>4. k <= r
      BY <1>3, <3>1, <3>3 DEF Ordered, m
    <3> QED
      BY <3>1, <3>3, <3>4
  <2> QED
    BY <2>1, <2>2
<1> QED
  BY <1>2, <1>10, <1>11, <1>12, <1>13, <1>16, <1>17, <1>18 DEF TraversalInv

\* The traversal is what its recursive definition says.
LEMMA TraversalUnfolds ==
    /\ Traversal[0] = [pending |-> Ascending(Roots), order |-> <<>>]
    /\ \A k \in 1..NumSupernodes :
          LET P == Traversal[k - 1].pending
          IN  /\ Traversal[k].pending = Front(P) \o ChildSequence(Last(P))
              /\ Traversal[k].order = <<Last(P)>> \o Traversal[k - 1].order
<1> DEFINE D == 0..NumSupernodes
           X == Supernode \cup {Last(p) : p \in Seq(Supernode)}
           V == [pending: Seq(Supernode), order: Seq(X)]
           Grow(v) == [pending |-> Front(v.pending) \o ChildSequence(Last(v.pending)),
                       order |-> <<Last(v.pending)>> \o v.order]
           Begin == [pending |-> Ascending(Roots), order |-> <<>>]
           Body(f) == [k \in D |-> IF k = 0 THEN Begin ELSE Grow(f[k - 1])]
           G == [f \in [D -> V] |-> Body(f)]
           rank == [k \in D |-> k]
           K == NumSupernodes + 1
<1>1. /\ rank \in [D -> Nat] /\ K \in Nat /\ \A k \in D : rank[k] < K
      /\ \A k \in D : k # 0 => k - 1 \in D /\ rank[k - 1] < rank[k]
  BY ForestAssumption
<1>2. Begin \in V
  <2>1. Roots \subseteq Supernode
    BY DEF Roots
  <2> QED
    BY <2>1, AscendingLists
<1>3. ASSUME NEW v \in V PROVE Grow(v) \in V
  <2> DEFINE p == v.pending
  <2>1. p \in Seq(Supernode) /\ v.order \in Seq(X) /\ Last(p) \in X
    OBVIOUS
  <2>2. ChildSequence(Last(p)) \in Seq(Supernode)
    <3>1. Children(Last(p)) \subseteq Supernode
      BY DEF Children
    <3> QED
      BY <3>1, AscendingLists DEF ChildSequence
  <2> HIDE DEF p, X
  <2>3. Front(p) \in Seq(Supernode)
    <3>1. Len(p) - 1 \in Int /\ \A i \in 1..(Len(p) - 1) : p[i] \in Supernode
      BY <2>1, LenProperties, ElementOfSeq
    <3> QED
      BY <3>1, SubSeqProperties DEF Front
  <2>4. Front(p) \o ChildSequence(Last(p)) \in Seq(Supernode)
    BY <2>2, <2>3, ConcatProperties
  <2>5. <<Last(p)>> \o v.order \in Seq(X)
    <3>1. <<Last(p)>> \in Seq(X)
      BY <2>1
    <3> QED
      BY <2>1, <3>1, ConcatProperties
  <2> QED
    BY <2>4, <2>5 DEF p
<1> HIDE DEF Grow, Begin, V
<1>4. G \in [[D -> V] -> [D -> V]]
  <2>1. ASSUME NEW f \in [D -> V] PROVE Body(f) \in [D -> V]
    <3>1. \A k \in D : (IF k = 0 THEN Begin ELSE Grow(f[k - 1])) \in V
      BY <1>1, <1>2, <1>3
    <3> QED
      BY <3>1
  <2> QED
    BY <2>1
<1>5. ASSUME NEW f \in [D -> V], NEW g \in [D -> V], NEW k \in D,
             \A j \in D : rank[j] < rank[k] => f[j] = g[j]
      PROVE  G[f][k] = G[g][k]
  <2>1. k # 0 => f[k - 1] = g[k - 1]
    <3> HIDE DEF rank
    <3> QED
      BY <1>1, <1>5
  <2> QED
    BY <2>1
<1>6. \E f \in [D -> V] : f = G[f]
  <2> HIDE DEF rank, K, G, D
  <2>1. Determined(D, V, rank, K, G)
    BY <1>1, <1>4, <1>5 DEF Determined
  <2> QED
    BY <1>2, <2>1, RecursionExists
<1>7. \E f : f = Body(f)
  BY <1>6
<1>8. Traversal = CHOOSE f : f = Body(f)
  BY DEF Traversal, Grow, Begin
<1> HIDE DEF Body
<1>9. Traversal = Body(Traversal)
  BY <1>7, <1>8
<1>10. Traversal[0] = Begin
  <2> 0 \in D
    BY ForestAssumption
  <2> QED
    BY <1>9 DEF Body
<1>11. \A k \in 1..NumSupernodes : Traversal[k] = Grow(Traversal[k - 1])
  <2> TAKE k \in 1..NumSupernodes
  <2> k \in D /\ k # 0
    BY ForestAssumption
  <2> QED
    BY <1>9 DEF Body
<1>12. ASSUME NEW k \in 1..NumSupernodes, NEW P, P = Traversal[k - 1].pending
      PROVE  /\ Traversal[k].pending = Front(P) \o ChildSequence(Last(P))
             /\ Traversal[k].order = <<Last(P)>> \o Traversal[k - 1].order
  <2>1. Traversal[k] = Grow(Traversal[k - 1])
    BY <1>11
  <2>2. /\ Grow(Traversal[k - 1]).pending = Front(P) \o ChildSequence(Last(P))
        /\ Grow(Traversal[k - 1]).order = <<Last(P)>> \o Traversal[k - 1].order
    BY <1>12, Zenon DEF Grow
  <2> QED
    BY <2>1, <2>2, Zenon
<1>13. Traversal[0] = [pending |-> Ascending(Roots), order |-> <<>>]
  BY <1>10 DEF Begin
<1> QED
  BY <1>12, <1>13

LEMMA TraversalInvHolds ==
    ASSUME NEW k \in 0..NumSupernodes
    PROVE  /\ TraversalInv(Traversal[k].pending, Traversal[k].order)
           /\ Len(Traversal[k].order) = k
<1> DEFINE Good(i) == /\ TraversalInv(Traversal[i].pending, Traversal[i].order)
                      /\ Len(Traversal[i].order) = i
           Wrong == {i \in 0..NumSupernodes : ~Good(i)}
<1> SUFFICES ASSUME Wrong # {} PROVE FALSE
  OBVIOUS
<1>1. NumSupernodes \in Nat /\ Wrong \subseteq Nat
  BY ForestAssumption
<1>2. PICK i \in Wrong : \A j \in Wrong : i <= j
  <2> HIDE DEF Wrong
  <2> QED
    BY <1>1, LeastElement
<1>3. i \in 0..NumSupernodes /\ ~Good(i)
  BY <1>2
<1>4. i # 0
  <2>1. Traversal[0].pending = Ascending(Roots) /\ Traversal[0].order = <<>>
    BY TraversalUnfolds
  <2>2. Good(0)
    BY <2>1, TraversalStart
  <2> QED
    BY <1>3, <2>2
<1>5. i - 1 \in 0..NumSupernodes /\ Good(i - 1)
  <2>1. i - 1 \in 0..NumSupernodes /\ ~(i <= i - 1)
    BY <1>1, <1>3, <1>4
  <2> QED
    BY <1>2, <2>1
<1> DEFINE P == Traversal[i - 1].pending
           O == Traversal[i - 1].order
           C == ChildSequence(Last(P))
<1>6. /\ Traversal[i].pending = Front(P) \o C
      /\ Traversal[i].order = <<Last(P)>> \o O
  <2> i \in 1..NumSupernodes
    BY <1>1, <1>3, <1>4
  <2> QED
    BY TraversalUnfolds
<1>7. TraversalInv(P, O) /\ Len(O) = i - 1
  BY <1>5
<1> HIDE DEF P, O
<1>8. Len(P) # 0
  BY <1>1, <1>3, <1>7, SomePending
<1>9. /\ C \in Seq(Supernode) /\ Distinct(C)
      /\ \A t \in Supernode : t \in Children(Last(P)) <=> In(t, C)
  <2>1. Children(Last(P)) \subseteq Supernode
    BY DEF Children
  <2> QED
    BY <2>1, AscendingLists DEF ChildSequence, Distinct, In
<1> HIDE DEF C
<1>10. P \in Seq(Supernode) /\ O \in Seq(Supernode)
  BY <1>7 DEF TraversalInv
<1>11. Stepped(P, O, C, Last(P), Front(P) \o C, <<Last(P)>> \o O)
  BY <1>8, <1>9, <1>10, StepLists
<1>12. TraversalInv(Front(P) \o C, <<Last(P)>> \o O)
  BY <1>7, <1>8, <1>9, <1>11, TraversalStep DEF Last
<1>13. Len(<<Last(P)>> \o O) = i
  BY <1>3, <1>7, <1>11 DEF Stepped
<1>14. Good(i)
  BY <1>6, <1>12, <1>13
<1> QED
  BY <1>3, <1>14

-----------------------------------------------------------------------------
(***************************************************************************)
(* The order and the subtrees in it.                                       *)
(***************************************************************************)
LEMMA OrderListsAll ==
    /\ \A i \in 1..NumSupernodes :
          solve_postorder[i] \in Supernode /\ IndexOf(solve_postorder[i]) = i
    /\ \A s \in Supernode :
          IndexOf(s) \in 1..NumSupernodes /\ solve_postorder[IndexOf(s)] = s
    /\ Contiguous(solve_postorder) /\ Ordered(solve_postorder)
    /\ Len(solve_postorder) = NumSupernodes
<1> DEFINE n == NumSupernodes O == Traversal[n].order
<1>1. n \in Nat /\ n \in 0..n
  BY ForestAssumption
<1>2. TraversalInv(Traversal[n].pending, O) /\ Len(O) = n
  BY <1>1, TraversalInvHolds
<1>3. /\ O \in Seq(Supernode) /\ Distinct(O) /\ Contiguous(O) /\ Ordered(O)
      /\ O = solve_postorder
  BY <1>2 DEF TraversalInv, solve_postorder
<1> HIDE DEF O
<1>4. O \in [1..n -> Supernode] /\ \A i, j \in 1..n : O[i] = O[j] => i = j
  BY <1>2, <1>3, LenProperties DEF Distinct
<1> HIDE DEF n
<1>5. \A s \in Supernode : \E i \in 1..n : O[i] = s
  <2>1. O \in Injection(1..n, Supernode)
    BY <1>4 DEF Injection, IsInjective
  <2>2. Cardinality(1..n) = n /\ Cardinality(Supernode) = n
    BY <1>1, FS_Interval DEF Supernode, n
  <2>3. O \in Surjection(1..n, Supernode)
    BY <2>1, <2>2, FiniteForest, FS_Injection
  <2> QED
    BY <2>3 DEF Surjection
<1>6. \A s \in Supernode : IndexOf(s) \in 1..n /\ O[IndexOf(s)] = s
  BY <1>3, <1>5 DEF IndexOf, n
<1>7. \A i \in 1..n : O[i] \in Supernode /\ IndexOf(O[i]) = i
  BY <1>4, <1>6
<1> QED
  BY <1>2, <1>3, <1>6, <1>7 DEF n

LEMMA LeastOf ==
    ASSUME NEW S, S \subseteq Nat, S # {}
    PROVE  Min(S) \in S /\ \A y \in S : Min(S) <= y
BY LeastElement DEF Min

\* The positions of the children of solve_postorder[i] before i.
ChildrenAt(i) == {k \in 1..(i - 1) : Parent[solve_postorder[k]] = solve_postorder[i]}

LEMMA SubtreeBeginUnfolds ==
    \A i \in 1..NumSupernodes :
        SubtreeBegin[i] = Min({i} \cup {SubtreeBegin[j] : j \in ChildrenAt(i)})
<1> DEFINE D == 1..NumSupernodes
           Body(f) == [i \in D |-> Min({i} \cup {f[j] : j \in ChildrenAt(i)})]
           G == [f \in [D -> Nat] |-> Body(f)]
           rank == [k \in D |-> k]
           K == NumSupernodes + 1
<1>1. /\ rank \in [D -> Nat] /\ K \in Nat /\ \A k \in D : rank[k] < K
      /\ \A i \in D : \A j \in ChildrenAt(i) : j \in D /\ rank[j] < rank[i]
  BY ForestAssumption DEF ChildrenAt
<1> HIDE DEF rank, K
<1>2. G \in [[D -> Nat] -> [D -> Nat]]
  <2>1. ASSUME NEW f \in [D -> Nat], NEW i \in D
        PROVE  Min({i} \cup {f[j] : j \in ChildrenAt(i)}) \in Nat
    <3> DEFINE S == {i} \cup {f[j] : j \in ChildrenAt(i)}
    <3>1. S \subseteq Nat /\ S # {}
      BY <1>1
    <3> HIDE DEF S
    <3>2. Min(S) \in Nat
      BY <3>1, LeastOf
    <3> QED
      BY <3>2 DEF S
  <2>2. ASSUME NEW f \in [D -> Nat] PROVE Body(f) \in [D -> Nat]
    BY <2>1
  <2> HIDE DEF Body
  <2> QED
    BY <2>2
<1>3. ASSUME NEW f \in [D -> Nat], NEW g \in [D -> Nat], NEW i \in D,
             \A j \in D : rank[j] < rank[i] => f[j] = g[j]
      PROVE  G[f][i] = G[g][i]
  <2>1. {f[j] : j \in ChildrenAt(i)} = {g[j] : j \in ChildrenAt(i)}
    BY <1>1, <1>3
  <2> QED
    BY <2>1
<1>4. \E f \in [D -> Nat] : f = G[f]
  <2> HIDE DEF G, D
  <2>1. Determined(D, Nat, rank, K, G)
    BY <1>1, <1>2, <1>3 DEF Determined
  <2> QED
    BY <2>1, RecursionExists
<1>5. \E f : f = Body(f)
  BY <1>4
<1>6. SubtreeBegin = CHOOSE f : f = Body(f)
  BY DEF SubtreeBegin, ChildrenAt
<1> HIDE DEF Body
<1>7. SubtreeBegin = Body(SubtreeBegin)
  BY <1>5, <1>6
<1> QED
  BY <1>7 DEF Body

\* From its beginning to its root, a subtree is the descendants of its root.
LEMMA SubtreesAreDescendants ==
    ASSUME NEW i \in 1..NumSupernodes
    PROVE  /\ SubtreeBegin[i] \in 1..i
           /\ \A j \in 1..NumSupernodes :
                 solve_postorder[j] \in Descendants(solve_postorder[i])
                     <=> j \in SubtreeBegin[i]..i
<1> DEFINE n == NumSupernodes
           O == solve_postorder
           Good(k) == /\ SubtreeBegin[k] \in 1..k
                      /\ \A j \in 1..n : O[j] \in Descendants(O[k])
                                            <=> j \in SubtreeBegin[k]..k
           Wrong == {k \in 1..n : ~Good(k)}
<1> SUFFICES ASSUME Wrong # {} PROVE FALSE
  OBVIOUS
<1>1. n \in Nat /\ Wrong \subseteq Nat
  BY ForestAssumption
<1>2. PICK k \in Wrong : \A j \in Wrong : k <= j
  <2> HIDE DEF Wrong
  <2> QED
    BY <1>1, LeastElement
<1>3. k \in 1..n /\ ~Good(k)
  BY <1>2
<1>4. ASSUME NEW c \in ChildrenAt(k)
      PROVE  /\ c \in 1..(k - 1) /\ c \in 1..n
             /\ O[c] \in Supernode /\ Parent[O[c]] = O[k]
             /\ SubtreeBegin[c] \in 1..c
             /\ \A j \in 1..n : O[j] \in Descendants(O[c])
                                   <=> j \in SubtreeBegin[c]..c
  <2>1. c \in 1..(k - 1) /\ c \in 1..n /\ ~(k <= c) /\ Parent[O[c]] = O[k]
    BY <1>1, <1>3 DEF ChildrenAt
  <2>2. Good(c)
    BY <1>2, <2>1
  <2> QED
    BY <2>1, <2>2, OrderListsAll
<1> DEFINE S == {k} \cup {SubtreeBegin[j] : j \in ChildrenAt(k)}
           b == SubtreeBegin[k]
<1>5. b \in S /\ \A y \in S : b <= y
  <2>1. S \subseteq Nat /\ S # {}
    BY <1>1, <1>3, <1>4
  <2>2. b = Min(S)
    BY <1>3, SubtreeBeginUnfolds
  <2> HIDE DEF S, b
  <2> QED
    BY <2>1, <2>2, LeastOf
<1>6. b \in 1..k
  BY <1>1, <1>3, <1>4, <1>5
<1>7. O[k] \in Supernode /\ \A j \in 1..n : O[j] \in Supernode
  BY <1>3, OrderListsAll
<1>8. /\ \A j \in 1..n : O[j] \in Descendants(O[k]) => j <= k
      /\ \A j \in 1..k : O[j] \in Descendants(O[k]) =>
            \A l \in j..k : O[l] \in Descendants(O[k])
  BY <1>3, OrderListsAll DEF Ordered, Contiguous
<1>9. ASSUME NEW j \in 1..n, O[j] \in Descendants(O[k]) PROVE j \in b..k
  <2>1. j <= k
    BY <1>8, <1>9
  <2>2. CASE j = k
    BY <1>3, <1>6, <2>2
  <2>3. CASE j # k
    <3>1. O[j] # O[k]
      BY <1>3, <2>3, OrderListsAll
    <3>2. PICK t \in Children(O[k]) : O[j] \in Descendants(t)
      BY <1>7, <1>9, <3>1, DescendantsOfChildren
    <3>3. t \in Supernode /\ Parent[t] = O[k] /\ ~IsRoot(t)
      BY <1>7, <3>2, ForestAssumption DEF Children, IsRoot, Supernode
    <3> DEFINE c == IndexOf(t)
    <3>4. c \in 1..n /\ O[c] = t
      BY <3>3, OrderListsAll
    <3>5. t \in Descendants(O[k]) /\ t # O[k]
      BY <1>7, <3>3, DescendantFacts, ParentFacts DEF Supernode
    <3>6. c <= k /\ c # k
      BY <1>8, <3>4, <3>5
    <3>7. c \in ChildrenAt(k)
      BY <1>3, <3>3, <3>4, <3>6 DEF ChildrenAt
    <3> HIDE DEF c
    <3>8. SubtreeBegin[c] <= j /\ SubtreeBegin[c] \in Nat
      BY <1>4, <3>2, <3>4, <3>7
    <3>9. b <= SubtreeBegin[c]
      BY <1>5, <3>7
    <3> HIDE DEF b
    <3> QED
      BY <1>3, <1>6, <2>1, <3>8, <3>9
  <2> QED
    BY <2>2, <2>3
<1>10. ASSUME NEW j \in b..k PROVE O[j] \in Descendants(O[k])
  <2>1. CASE b = k
    <3> j = k
      BY <1>3, <2>1
    <3> QED
      BY <1>7, DescendantFacts
  <2>2. CASE b # k
    <3>1. PICK c \in ChildrenAt(k) : b = SubtreeBegin[c]
      BY <1>5, <2>2
    <3>2. b \in 1..n /\ b \in SubtreeBegin[c]..c
      BY <1>4, <3>1, <1>1
    <3>3. O[b] \in Descendants(O[c])
      BY <1>4, <3>1, <3>2
    <3>4. O[c] \in Descendants(O[k])
      <4>1. O[c] \in Supernode /\ Parent[O[c]] = O[k] /\ O[k] # 0
        BY <1>4, <1>7 DEF Supernode
      <4>2. O[k] \in Descendants(O[k])
        BY <1>7, DescendantFacts
      <4> HIDE DEF O
      <4> QED
        BY <1>7, <4>1, <4>2, DescendantFacts DEF IsRoot
    <3>5. O[b] \in Descendants(O[k])
      BY <1>7, <3>3, <3>4, DescendantsOfDescendant
    <3> QED
      BY <1>6, <1>8, <3>5
  <2> QED
    BY <2>1, <2>2
<1>11. Good(k)
  <2> HIDE DEF O
  <2>1. \A j \in 1..n : O[j] \in Descendants(O[k]) <=> j \in b..k
    BY <1>9, <1>10
  <2> QED
    BY <1>6, <2>1
<1> QED
  BY <1>3, <1>11

\* The cached traversal is a postorder, for every forest: every supernode is
\* in it once, and what the solves take for the subtree of a supernode, from
\* its beginning to its end, is the supernode with all its descendants.
THEOREM TraversalPostorder == TraversalIsPostorder
<1>1. ASSUME NEW s \in Supernode
      PROVE  /\ solve_subtree_begin(s) \in 1..IndexOf(s)
             /\ SolveSubtree(s) = Descendants(s)
  <2> DEFINE i == IndexOf(s)
  <2>1. i \in 1..NumSupernodes /\ solve_postorder[i] = s
    BY OrderListsAll
  <2>2. \A t \in Supernode : t \in Descendants(s)
                                <=> IndexOf(t) \in solve_subtree_begin(s)..i
    BY <2>1, OrderListsAll, SubtreesAreDescendants DEF solve_subtree_begin
  <2>3. Descendants(s) \subseteq Supernode
    BY DEF Descendants
  <2>4. solve_subtree_begin(s) \in 1..i
    BY <2>1, SubtreesAreDescendants DEF solve_subtree_begin
  <2> QED
    BY <2>2, <2>3, <2>4 DEF SolveSubtree
<1>2. \A s, t \in Supernode :
         t \in SolveSubtree(s)
            <=> t = s \/ (~IsRoot(t) /\ Parent[t] \in SolveSubtree(s))
  BY <1>1, DescendantFacts
<1> QED
  BY <1>1, <1>2, OrderListsAll DEF TraversalIsPostorder

-----------------------------------------------------------------------------
(***************************************************************************)
(* Subtrees.                                                               *)
(***************************************************************************)
\* The traversal is a postorder: of its recursive definition nothing else is
\* used below.
USE TraversalPostorder

LEMMA SubtreeFacts ==
    ASSUME NEW s \in Supernode
    PROVE  /\ s \in SolveSubtree(s) /\ SolveSubtree(s) \subseteq Supernode
           /\ IndexOf(s) \in Nat /\ solve_subtree_begin(s) \in Nat
           /\ \A i \in solve_subtree_begin(s)..IndexOf(s) :
                 /\ solve_postorder[i] \in SolveSubtree(s)
                 /\ IndexOf(solve_postorder[i]) = i
<1>1. /\ IndexOf(s) \in 1..NumSupernodes
      /\ solve_subtree_begin(s) \in 1..IndexOf(s) /\ NumSupernodes \in Nat
  BY ForestAssumption DEF TraversalIsPostorder
<1>2. \A i \in solve_subtree_begin(s)..IndexOf(s) : i \in 1..NumSupernodes
  BY <1>1
<1> QED
  BY <1>1, <1>2 DEF TraversalIsPostorder, SolveSubtree

\* A supernode of a subtree other than its root has its parent there, and the
\* children of what is in a subtree are.
LEMMA ParentInSubtree ==
    ASSUME NEW s \in Supernode, NEW t \in Supernode
    PROVE  /\ t \in SolveSubtree(s) /\ t # s =>
                 ~IsRoot(t) /\ Parent[t] \in SolveSubtree(s)
           /\ ~IsRoot(t) /\ Parent[t] \in SolveSubtree(s) =>
                 t \in SolveSubtree(s)
BY DEF TraversalIsPostorder

LEMMA SubtreeTransitive ==
    ASSUME NEW s \in Supernode, NEW t \in SolveSubtree(s)
    PROVE  SolveSubtree(t) \subseteq SolveSubtree(s)
<1> DEFINE A == {u \in SolveSubtree(t) : u \notin SolveSubtree(s)}
<1>1. t \in Supernode /\ A \subseteq Supernode
  BY SubtreeFacts
<1>2. \A u \in A : ~IsRoot(u) /\ Parent[u] \in A
  <2> TAKE u \in A
  <2>1. u # t
    OBVIOUS
  <2>2. ~IsRoot(u) /\ Parent[u] \in SolveSubtree(t)
    BY <1>1, <2>1, ParentInSubtree
  <2>3. Parent[u] \notin SolveSubtree(s)
    BY <1>1, <2>2, ParentInSubtree
  <2> QED
    BY <2>2, <2>3
<1>3. A = {}
  BY <1>1, <1>2, FromTheRoots
<1> QED
  BY <1>3

\* Two subtrees that meet contain one another.
LEMMA Laminar ==
    ASSUME NEW s \in Supernode, NEW t \in Supernode,
           NEW u \in Supernode, u \in SolveSubtree(s), u \in SolveSubtree(t)
    PROVE  s \in SolveSubtree(t) \/ t \in SolveSubtree(s)
<1> SUFFICES ASSUME s \notin SolveSubtree(t), t \notin SolveSubtree(s)
             PROVE  FALSE
  OBVIOUS
<1> DEFINE A == SolveSubtree(s) \cap SolveSubtree(t)
<1>1. A \subseteq Supernode
  BY SubtreeFacts
<1>2. \A v \in A : ~IsRoot(v) /\ Parent[v] \in A
  <2> TAKE v \in A
  <2>1. v # s /\ v # t
    OBVIOUS
  <2> QED
    BY <1>1, <2>1, ParentInSubtree
<1>3. A = {}
  BY <1>1, <1>2, FromTheRoots
<1> QED
  BY <1>3

\* What is below the root of a subtree has a smaller number and comes earlier.
LEMMA Below ==
    ASSUME NEW s \in Supernode, NEW t \in SolveSubtree(s),
           t # s
    PROVE  t < s /\ IndexOf(t) < IndexOf(s)
<1>1. t \in Supernode
  BY SubtreeFacts
<1>2. IndexOf(t) # IndexOf(s)
  BY <1>1 DEF TraversalIsPostorder
<1>3. IndexOf(t) <= IndexOf(s) /\ IndexOf(t) \in Nat /\ IndexOf(s) \in Nat
  BY <1>1, SubtreeFacts DEF SolveSubtree
<1>4. t < s
  <2> DEFINE A == {u \in SolveSubtree(s) : u > s}
  <2>1. A \subseteq Supernode
    BY SubtreeFacts
  <2>2. \A u \in A : ~IsRoot(u) /\ Parent[u] \in A
    <3> TAKE u \in A
    <3>1. u # s
      BY DEF Supernode
    <3>2. ~IsRoot(u) /\ Parent[u] \in SolveSubtree(s)
      BY <2>1, <3>1, ParentInSubtree
    <3>3. Parent[u] > u /\ Parent[u] \in Supernode
      BY <2>1, <3>2, ParentFacts
    <3> QED
      BY <2>1, <3>2, <3>3 DEF Supernode
  <2>3. A = {}
    BY <2>1, <2>2, FromTheRoots
  <2>4. ~(t > s)
    BY <2>3
  <2> QED
    BY <1>1, <2>4 DEF Supernode
<1> QED
  BY <1>2, <1>3, <1>4

\* A subtree is its root and the subtrees of its children.
LEMMA ChildCover ==
    ASSUME NEW s \in Supernode, NEW u \in SolveSubtree(s),
           u # s
    PROVE  \E c \in Children(s) : u \in SolveSubtree(c)
<1> DEFINE A == {v \in SolveSubtree(s) \ {s} :
                    \A c \in Children(s) : v \notin SolveSubtree(c)}
<1>1. A \subseteq Supernode
  BY SubtreeFacts
<1>2. \A v \in A : ~IsRoot(v) /\ Parent[v] \in A
  <2> TAKE v \in A
  <2>1. ~IsRoot(v) /\ Parent[v] \in SolveSubtree(s)
    BY <1>1, ParentInSubtree
  <2>2. Parent[v] # s
    <3> SUFFICES ASSUME Parent[v] = s PROVE FALSE
      OBVIOUS
    <3>1. v \in Children(s)
      BY <1>1 DEF Children
    <3>2. v \in SolveSubtree(v)
      BY <1>1, SubtreeFacts
    <3> QED
      BY <3>1, <3>2
  <2>3. ASSUME NEW c \in Children(s), Parent[v] \in SolveSubtree(c) PROVE FALSE
    <3>1. c \in Supernode
      BY DEF Children
    <3>2. v \in SolveSubtree(c)
      BY <1>1, <2>1, <2>3, <3>1, ParentInSubtree
    <3> QED
      BY <3>2
  <2> QED
    BY <2>1, <2>2, <2>3
<1>3. A = {}
  BY <1>1, <1>2, FromTheRoots
<1> QED
  BY <1>3

LEMMA ChildSubtree ==
    ASSUME NEW s \in Supernode, NEW c \in Children(s)
    PROVE  /\ c \in Supernode /\ c # s /\ ~IsRoot(c)
           /\ c \in SolveSubtree(s) /\ SolveSubtree(c) \subseteq SolveSubtree(s)
<1>1. c \in Supernode /\ Parent[c] = s /\ ~IsRoot(c)
  BY ForestAssumption DEF Children, IsRoot, Supernode
<1>2. c \in SolveSubtree(s) /\ c # s
  BY <1>1, SubtreeFacts, ParentInSubtree, ParentFacts DEF Supernode
<1> QED
  BY <1>1, <1>2, SubtreeTransitive

\* The subtrees of the roots are all there is.
LEMMA RootCover ==
    ASSUME NEW u \in Supernode
    PROVE  \E r \in Roots : u \in SolveSubtree(r)
<1> DEFINE A == {v \in Supernode : \A r \in Roots : v \notin SolveSubtree(r)}
<1>1. \A v \in A : ~IsRoot(v) /\ Parent[v] \in A
  <2> TAKE v \in A
  <2>1. ~IsRoot(v)
    BY SubtreeFacts DEF Roots
  <2>2. \A r \in Roots : Parent[v] \notin SolveSubtree(r)
    BY <2>1, ParentInSubtree DEF Roots
  <2> QED
    BY <2>1, <2>2, ParentFacts
<1>2. A = {}
  BY <1>1, FromTheRoots
<1> QED
  BY <1>2

\* The structure leads to ancestors.
LEMMA StructureAbove ==
    ASSUME NEW d \in Supernode, NEW t \in Structure[d]
    PROVE  t \in Supernode /\ d \in SolveSubtree(t) /\ d # t
<1> DEFINE A == {e \in Supernode : t \in Structure[e] /\
                                   ~(e \in SolveSubtree(t) /\ e < t)}
<1>1. t \in Supernode
  BY StructureAssumption
<1>2. \A e \in A : ~IsRoot(e) /\ Parent[e] \in A
  <2> TAKE e \in A
  <2>1. ~IsRoot(e) /\ (t = Parent[e] \/ t \in Structure[Parent[e]])
    BY StructureAssumption
  <2>2. Parent[e] \in Supernode /\ Parent[e] > e
    BY <2>1, ParentFacts
  <2>3. ASSUME Parent[e] \in SolveSubtree(t), Parent[e] <= t PROVE FALSE
    BY <1>1, <2>1, <2>2, <2>3, ParentInSubtree DEF Supernode
  <2>4. t # Parent[e]
    BY <1>1, <2>3, SubtreeFacts DEF Supernode
  <2> QED
    BY <1>1, <2>1, <2>2, <2>3, <2>4 DEF Supernode
<1>3. A = {}
  BY <1>2, FromTheRoots
<1>4. d \in SolveSubtree(t) /\ d < t
  BY <1>3
<1> QED
  BY <1>1, <1>4 DEF Supernode

\* What a subtree updates outside of it, its root does.
LEMMA StructureInherited ==
    ASSUME NEW s \in Supernode, NEW d \in SolveSubtree(s),
           NEW t \in Structure[d], t \notin SolveSubtree(s)
    PROVE  t \in Structure[s]
<1> DEFINE A == {e \in SolveSubtree(s) : t \in Structure[e] /\
                                         t \notin Structure[s]}
<1>1. A \subseteq Supernode
  BY SubtreeFacts
<1>2. \A e \in A : ~IsRoot(e) /\ Parent[e] \in A
  <2> TAKE e \in A
  <2>1. e # s
    OBVIOUS
  <2>2. ~IsRoot(e) /\ Parent[e] \in SolveSubtree(s)
    BY <1>1, <2>1, ParentInSubtree
  <2>3. t = Parent[e] \/ t \in Structure[Parent[e]]
    BY <1>1, <2>2, StructureAssumption
  <2> QED
    BY <2>2, <2>3
<1>3. A = {}
  BY <1>1, <1>2, FromTheRoots
<1> QED
  BY <1>3

-----------------------------------------------------------------------------
(***************************************************************************)
(* The invariant: what has been solved where a frame stands.               *)
(***************************************************************************)
\* A subtree that nobody has entered, or only the frame of its root.
Alone(s) == \A u \in SolveSubtree(s) : u # s => pc[u] = "idle"

ForwardFrame(s) ==
    /\ pc[s] = "ready" =>
          Alone(s) /\ \A u \in SolveSubtree(s) : x[u] = "given"
    /\ pc[s] \in {"wait", "finish"} =>
          x[s] = "given" /\ \A c \in Children(s) : pc[c] # "idle"
    /\ pc[s] = "finish" => \A c \in Children(s) : pc[c] = "done"
    /\ pc[s] = "serial" =>
          /\ Alone(s)
          /\ at[s] \in solve_subtree_begin(s)..solve_subtree_end(s)
          /\ \A u \in SolveSubtree(s) :
                x[u] = IF IndexOf(u) < at[s] THEN "forward" ELSE "given"
    /\ pc[s] = "done" =>
          \A u \in SolveSubtree(s) :
             x[u] = "forward" /\ pc[u] \in {"idle", "done"}

BackwardFrame(s) ==
    /\ pc[s] \in {"idle", "ready", "serial", "done"}
    /\ pc[s] \in {"ready", "serial"} =>
          Alone(s) /\ \A t \in Structure[s] : x[t] = "solved"
    /\ pc[s] = "ready" => \A u \in SolveSubtree(s) : x[u] = "scaled"
    /\ pc[s] = "serial" =>
          /\ at[s] \in (solve_subtree_begin(s) - 1)..(IndexOf(s) - 1)
          /\ \A u \in SolveSubtree(s) :
                x[u] = IF IndexOf(u) > at[s] THEN "solved" ELSE "scaled"
    /\ pc[s] = "done" =>
          /\ x[s] = "solved"
          /\ \/ \A u \in SolveSubtree(s) : x[u] = "solved"
             \/ \A c \in Children(s) : pc[c] # "idle"

Control ==
    /\ phase \in {"returned", "forward", "diagonal", "backward"}
    /\ parallel \in BOOLEAN
    /\ pc \in [Supernode ->
                  {"idle", "ready", "wait", "finish", "serial", "done"}]
    /\ at \in [Supernode -> Int]
    /\ x \in [Supernode -> {"given", "forward", "scaled", "solved"}]

TasksInv ==
    parallel =>
        /\ phase = "forward" => \A s \in Supernode : ForwardFrame(s)
        /\ phase = "backward" =>
              /\ \A s \in Supernode : BackwardFrame(s)
              /\ \A r \in Roots : pc[r] # "idle"

SweepInv ==
    ~parallel =>
        /\ \A s \in Supernode : pc[s] = "idle"
        /\ phase = "forward" =>
              /\ sweep \in 1..(NumSupernodes + 1)
              /\ \A s \in Supernode :
                    x[s] = IF s < sweep THEN "forward" ELSE "given"
        /\ phase = "backward" =>
              /\ sweep \in 0..NumSupernodes
              /\ \A s \in Supernode :
                    x[s] = IF s > sweep THEN "solved" ELSE "scaled"

BetweenInv ==
    /\ phase = "diagonal" =>
          \A s \in Supernode : x[s] = "forward" /\ pc[s] \in {"idle", "done"}
    /\ phase = "returned" =>
          \A s \in Supernode : x[s] = "solved" /\ pc[s] \in {"idle", "done"}

IndInv == Control /\ TasksInv /\ SweepInv /\ BetweenInv

-----------------------------------------------------------------------------
(***************************************************************************)
(* Forward.                                                                *)
(***************************************************************************)
\* A frame that is at work is in no subtree that another one holds alone.
LEMMA NotInside ==
    ASSUME NEW s \in Supernode, NEW t \in Supernode,
           Alone(t), s # t, pc[s] # "idle", pc[t] # "idle",
           NEW u \in SolveSubtree(s), u = s \/ Alone(s)
    PROVE  u \notin SolveSubtree(t)
<1> SUFFICES ASSUME u \in SolveSubtree(t) PROVE FALSE
  OBVIOUS
<1>1. s \notin SolveSubtree(t)
  BY DEF Alone
<1>2. u # s /\ Alone(s) /\ u \in Supernode
  BY <1>1, SubtreeFacts
<1>3. t \in SolveSubtree(s)
  BY <1>1, <1>2, Laminar
<1> QED
  BY <1>2, <1>3 DEF Alone

\* The supernodes that a frame solves leave the others as they were.
LEMMA OthersKept ==
    ASSUME NEW s \in Supernode, NEW t \in Supernode,
           s # t, pc[s] \in {"serial", "finish"}, ForwardFrame(t),
           NEW d \in SolveSubtree(s), d = s \/ Alone(s),
           x[d] # "forward",
           x' = [x EXCEPT ![d] = "forward"], Control,
           pc'[t] = pc[t], at'[t] = at[t],
           \A u \in SolveSubtree(t) : u # s => pc'[u] = pc[u],
           pc'[s] \in {"serial", "done"}
    PROVE  ForwardFrame(t)'
<1>1. d \in Supernode /\ SolveSubtree(t) \subseteq Supernode
  BY SubtreeFacts
<1>2. x'[d] = "forward" /\ \A u \in Supernode : u # d => x'[u] = x[u]
  BY <1>1 DEF Control
<1>3. CASE pc[t] \in {"ready", "serial"}
  <2>1. Alone(t) /\ pc[t] # "idle"
    BY <1>3 DEF ForwardFrame
  <2>2. d \notin SolveSubtree(t) /\ s \notin SolveSubtree(t)
    BY <2>1, NotInside, SubtreeFacts
  <2>3. \A u \in SolveSubtree(t) : x'[u] = x[u] /\ pc'[u] = pc[u]
    BY <1>1, <1>2, <2>2
  <2> QED
    BY <1>3, <2>3 DEF ForwardFrame, Alone
<1>4. CASE pc[t] \in {"wait", "finish"}
  <2>1. t # d
    BY <1>4 DEF Alone
  <2>2. x'[t] = x[t]
    BY <1>2, <2>1
  <2>3. \A c \in Children(t) : c \in SolveSubtree(t)
    BY ChildSubtree
  <2>4. \A c \in Children(t) : pc[c] # "idle" => pc'[c] # "idle"
    BY <2>3
  <2>5. pc[t] = "finish" => \A c \in Children(t) : pc'[c] = "done"
    <3> SUFFICES ASSUME pc[t] = "finish", NEW c \in Children(t)
                 PROVE  pc'[c] = "done"
      OBVIOUS
    <3>1. pc[c] = "done"
      BY DEF ForwardFrame
    <3>2. c \in Supernode /\ ForwardFrame(t)
      BY ChildSubtree
    <3> QED
      BY <2>3, <3>1
  <2> QED
    BY <1>4, <2>2, <2>4, <2>5 DEF ForwardFrame
<1>5. CASE pc[t] = "done"
  <2>1. s \notin SolveSubtree(t)
    BY <1>5 DEF ForwardFrame
  <2>2. \A u \in SolveSubtree(t) : x'[u] = "forward" /\ pc'[u] = pc[u]
    BY <1>1, <1>2, <1>5, <2>1 DEF ForwardFrame
  <2> QED
    BY <1>5, <2>2 DEF ForwardFrame
<1>6. CASE pc[t] = "idle"
  BY <1>6 DEF ForwardFrame
<1> QED
  BY <1>1, <1>3, <1>4, <1>5, <1>6 DEF Control

\* A frame that moves on without solving anything leaves the others alone.
LEMMA OthersUnmoved ==
    ASSUME NEW s \in Supernode, NEW t \in Supernode,
           s # t, pc[s] \notin {"idle", "done"}, ForwardFrame(t), Control,
           NEW to, to # "idle", pc' = [pc EXCEPT ![s] = to],
           x' = x, at'[t] = at[t]
    PROVE  ForwardFrame(t)'
<1>1. /\ SolveSubtree(t) \subseteq Supernode
      /\ \A u \in Supernode : u # s => pc'[u] = pc[u]
      /\ pc'[s] = to
  BY SubtreeFacts DEF Control
<1>2. CASE pc[t] \in {"ready", "serial"}
  <2>1. s \notin SolveSubtree(t)
    BY <1>2 DEF ForwardFrame, Alone
  <2> QED
    BY <1>1, <1>2, <2>1 DEF ForwardFrame, Alone
<1>3. CASE pc[t] \in {"wait", "finish"}
  <2>1. \A c \in Children(t) : c \in Supernode
    BY ChildSubtree
  <2> QED
    BY <1>1, <1>3, <2>1 DEF ForwardFrame
<1>4. CASE pc[t] = "done"
  <2>1. s \notin SolveSubtree(t)
    BY <1>4 DEF ForwardFrame
  <2> QED
    BY <1>1, <1>4, <2>1 DEF ForwardFrame
<1>5. CASE pc[t] = "idle"
  BY <1>1, <1>5 DEF ForwardFrame
<1> QED
  BY <1>2, <1>3, <1>4, <1>5 DEF Control

\* The invariant and the abstract system after a step of a forward frame.
LEMMA InForward ==
    ASSUME IndInv, parallel, phase = "forward", Control',
           UNCHANGED <<parallel, phase>>,
           \A t \in Supernode : ForwardFrame(t)'
    PROVE  IndInv'
BY DEF IndInv, TasksInv, SweepInv, BetweenInv

LEMMA ForwardSpawnStep ==
    ASSUME IndInv, parallel,
           NEW s \in Supernode, ForwardSpawn(s)
    PROVE  IndInv' /\ UNCHANGED <<x, phase>>
<1>1. /\ phase = "forward" /\ pc[s] = "ready"
      /\ UNCHANGED <<parallel, phase, x, at>>
      /\ pc' = [t \in Supernode |-> IF t = s THEN "wait"
                                    ELSE IF t \in Children(s) THEN "ready"
                                    ELSE pc[t]]
  BY DEF ForwardSpawn, call, data
<1>2. Control /\ Control' /\ \A t \in Supernode : ForwardFrame(t)
  BY <1>1 DEF IndInv, Control, TasksInv
<1>3. /\ SolveSubtree(s) \subseteq Supernode /\ s \in SolveSubtree(s)
      /\ Alone(s) /\ \A u \in SolveSubtree(s) : x[u] = "given"
      /\ \A c \in Children(s) :
            /\ c \in Supernode /\ c # s /\ pc[c] = "idle"
            /\ c \in SolveSubtree(s)
            /\ SolveSubtree(c) \subseteq SolveSubtree(s)
  BY <1>1, <1>2, SubtreeFacts, ChildSubtree DEF ForwardFrame, Alone
<1>4. ASSUME NEW t \in Supernode PROVE ForwardFrame(t)'
  <2>1. SolveSubtree(t) \subseteq Supernode
    BY SubtreeFacts
  <2>2. CASE t = s
    BY <1>1, <1>3, <2>2 DEF ForwardFrame
  <2>3. CASE t \in Children(s)
    <3>1. \A u \in SolveSubtree(t) : u # t => u # s /\ u \notin Children(s)
      <4> SUFFICES ASSUME NEW u \in SolveSubtree(t), u # t,
                          u = s \/ u \in Children(s)
                   PROVE  FALSE
        OBVIOUS
      <4>1. s \in SolveSubtree(t)
        BY <2>1, ParentInSubtree DEF Children
      <4>2. s < t /\ t < s
        BY <1>3, <2>3, <4>1, Below
      <4> QED
        BY <4>2 DEF Supernode
    <3>2. pc'[t] = "ready"
      BY <1>1, <1>3, <2>3
    <3>3. \A u \in SolveSubtree(t) : x'[u] = "given"
      BY <1>1, <1>3, <2>3
    <3>4. \A u \in SolveSubtree(t) : u # t => pc'[u] = "idle"
      BY <1>1, <1>3, <2>1, <2>3, <3>1 DEF Alone
    <3> QED
      BY <3>2, <3>3, <3>4 DEF ForwardFrame, Alone
  <2>4. CASE t # s /\ t \notin Children(s)
    <3>1. pc'[t] = pc[t] /\ at'[t] = at[t]
      BY <1>1, <2>4
    <3>2. ASSUME NEW c \in Children(s), c \in SolveSubtree(t)
          PROVE  s \in SolveSubtree(t)
      BY <1>3, <2>4, <3>2, ParentInSubtree DEF Children
    <3>3. CASE pc[t] \in {"ready", "serial", "done"}
      <4>1. s \notin SolveSubtree(t)
        BY <1>1, <1>2, <2>4, <3>3 DEF ForwardFrame, Alone
      <4>2. \A u \in SolveSubtree(t) : pc'[u] = pc[u]
        BY <1>1, <2>1, <3>2, <4>1
      <4>3. ForwardFrame(t) /\ \A c \in Children(t) : c \in SolveSubtree(t)
        BY <1>2, ChildSubtree
      <4> QED
        BY <1>1, <3>1, <3>3, <4>2, <4>3 DEF ForwardFrame, Alone
    <3>4. CASE pc[t] \in {"wait", "finish"}
      <4>1. \A c \in Children(t) : c \in Supernode
        BY ChildSubtree
      <4>2. \A c \in Children(t) : pc[c] # "idle" => pc'[c] # "idle"
        BY <1>1, <4>1
      <4>3. \A c \in Children(t) : pc[c] = "done" => pc'[c] = "done"
        BY <1>1, <1>3, <4>1
      <4>4. ForwardFrame(t)
        BY <1>2
      <4> QED
        BY <1>1, <3>1, <3>4, <4>2, <4>3, <4>4 DEF ForwardFrame
    <3>5. CASE pc[t] = "idle"
      BY <3>1, <3>5 DEF ForwardFrame
    <3> QED
      BY <1>2, <3>3, <3>4, <3>5 DEF Control
  <2> QED
    BY <2>2, <2>3, <2>4
<1> QED
  BY <1>1, <1>2, <1>4, InForward

LEMMA ForwardMergeStep ==
    ASSUME IndInv, parallel,
           NEW s \in Supernode, ForwardMerge(s)
    PROVE  IndInv' /\ UNCHANGED <<x, phase>>
<1>1. /\ phase = "forward" /\ pc[s] = "wait"
      /\ pc' = [pc EXCEPT ![s] = "finish"]
      /\ \A c \in Children(s) : pc[c] = "done"
      /\ UNCHANGED <<parallel, phase, x, at>>
  BY DEF ForwardMerge, Go, call
<1>2. Control /\ Control' /\ \A t \in Supernode : ForwardFrame(t)
  BY <1>1 DEF IndInv, Control, TasksInv
<1>3. ForwardFrame(s)'
  <2>1. \A c \in Children(s) : c \in Supernode /\ c # s
    BY ChildSubtree
  <2>2. pc'[s] = "finish" /\ \A c \in Children(s) : pc'[c] = "done"
    BY <1>1, <1>2, <2>1 DEF Control
  <2>3. x[s] = "given"
    BY <1>1, <1>2 DEF ForwardFrame
  <2> QED
    BY <1>1, <2>2, <2>3 DEF ForwardFrame
<1>4. \A t \in Supernode : ForwardFrame(t)'
  BY <1>1, <1>2, <1>3, OthersUnmoved
<1> QED
  BY <1>1, <1>2, <1>4, InForward

LEMMA ForwardSerialStartStep ==
    ASSUME IndInv, parallel,
           NEW s \in Supernode, ForwardSerialStart(s)
    PROVE  IndInv' /\ UNCHANGED <<x, phase>>
<1>1. /\ phase = "forward" /\ pc[s] = "ready"
      /\ pc' = [pc EXCEPT ![s] = "serial"]
      /\ at' = [at EXCEPT ![s] = solve_subtree_begin(s)]
      /\ UNCHANGED <<parallel, phase, x>>
  BY DEF ForwardSerialStart, Go, call
<1>2. /\ SolveSubtree(s) \subseteq Supernode
      /\ solve_subtree_begin(s) \in Nat /\ IndexOf(s) \in Nat
      /\ solve_subtree_begin(s) <= IndexOf(s)
  BY SubtreeFacts DEF TraversalIsPostorder
<1>3. Control /\ Control' /\ \A t \in Supernode : ForwardFrame(t)
  BY <1>1, <1>2 DEF IndInv, Control, TasksInv
<1>4. ForwardFrame(s)'
  <2>1. Alone(s) /\ \A u \in SolveSubtree(s) : x[u] = "given"
    BY <1>1, <1>3 DEF ForwardFrame
  <2>2. pc'[s] = "serial" /\ at'[s] = solve_subtree_begin(s)
    BY <1>1, <1>3 DEF Control
  <2>3. \A u \in SolveSubtree(s) : u # s => pc'[u] = "idle"
    BY <1>1, <1>2, <1>3, <2>1 DEF Alone, Control
  <2>4. \A u \in SolveSubtree(s) : ~(IndexOf(u) < solve_subtree_begin(s))
    BY <1>2 DEF SolveSubtree
  <2> QED
    BY <1>1, <1>2, <2>1, <2>2, <2>3, <2>4
       DEF ForwardFrame, Alone, solve_subtree_end
<1>5. ASSUME NEW t \in Supernode, t # s PROVE ForwardFrame(t)'
  <2>1. at'[t] = at[t]
    BY <1>1, <1>3, <1>5 DEF Control
  <2>2. ForwardFrame(t) /\ Control
    BY <1>3
  <2> QED
    BY <1>1, <1>5, <2>1, <2>2, OthersUnmoved
<1>6. \A t \in Supernode : ForwardFrame(t)'
  BY <1>4, <1>5
<1> QED
  BY <1>1, <1>3, <1>6, InForward

LEMMA ForwardSerialDoneStep ==
    ASSUME IndInv, parallel,
           NEW s \in Supernode, ForwardSerialDone(s)
    PROVE  IndInv' /\ UNCHANGED <<x, phase>>
<1>1. /\ phase = "forward" /\ pc[s] = "serial"
      /\ pc' = [pc EXCEPT ![s] = "done"]
      /\ at[s] = IndexOf(s) + 1
      /\ UNCHANGED <<parallel, phase, x, at>>
  BY DEF ForwardSerialDone, Go, call, data, solve_subtree_end
<1>2. Control /\ Control' /\ \A t \in Supernode : ForwardFrame(t)
  BY <1>1 DEF IndInv, Control, TasksInv
<1>3. ForwardFrame(s)'
  <2>1. /\ SolveSubtree(s) \subseteq Supernode /\ IndexOf(s) \in Nat
        /\ \A u \in SolveSubtree(s) : IndexOf(u) < IndexOf(s) + 1
    BY SubtreeFacts DEF SolveSubtree
  <2>2. \A u \in SolveSubtree(s) : x[u] = "forward" /\ (u # s => pc[u] = "idle")
    BY <1>1, <1>2, <2>1 DEF ForwardFrame, Alone
  <2>3. pc'[s] = "done" /\ \A u \in Supernode : u # s => pc'[u] = pc[u]
    BY <1>1, <1>2 DEF Control
  <2> QED
    BY <1>1, <2>1, <2>2, <2>3 DEF ForwardFrame
<1>4. \A t \in Supernode : ForwardFrame(t)'
  BY <1>1, <1>2, <1>3, OthersUnmoved
<1> QED
  BY <1>1, <1>2, <1>4, InForward

LEMMA ForwardFinishStep ==
    ASSUME IndInv, parallel,
           NEW s \in Supernode, ForwardFinish(s)
    PROVE  IndInv' /\ Abstract!Forward(s)
<1>1. /\ phase = "forward" /\ pc[s] = "finish"
      /\ pc' = [pc EXCEPT ![s] = "done"]
      /\ x' = [x EXCEPT ![s] = "forward"]
      /\ UNCHANGED <<parallel, phase, at>>
  BY DEF ForwardFinish, Go, call
<1>2. Control /\ Control' /\ \A t \in Supernode : ForwardFrame(t)
  BY <1>1 DEF IndInv, Control, TasksInv
<1>3. /\ SolveSubtree(s) \subseteq Supernode /\ s \in SolveSubtree(s)
      /\ x[s] = "given" /\ \A c \in Children(s) : pc[c] = "done"
  BY <1>1, <1>2, SubtreeFacts DEF ForwardFrame
<1>4. ASSUME NEW u \in SolveSubtree(s), u # s
      PROVE  x[u] = "forward" /\ pc[u] \in {"idle", "done"}
  <2>1. PICK c \in Children(s) : u \in SolveSubtree(c)
    BY <1>4, ChildCover
  <2>2. ForwardFrame(c) /\ pc[c] = "done"
    BY <1>2, <1>3, ChildSubtree
  <2> QED
    BY <2>1, <2>2 DEF ForwardFrame
<1>5. pc'[s] = "done" /\ \A u \in Supernode : u # s => pc'[u] = pc[u]
  BY <1>1, <1>2 DEF Control
<1>6. x'[s] = "forward" /\ \A u \in Supernode : u # s => x'[u] = x[u]
  BY <1>1, <1>2 DEF Control
<1>7. ForwardFrame(s)'
  <2>1. \A u \in SolveSubtree(s) :
           x'[u] = "forward" /\ pc'[u] \in {"idle", "done"}
    BY <1>3, <1>4, <1>5, <1>6
  <2> QED
    BY <1>5, <2>1 DEF ForwardFrame
<1>8. ASSUME NEW t \in Supernode, t # s PROVE ForwardFrame(t)'
  <2>1. /\ SolveSubtree(t) \subseteq Supernode /\ ForwardFrame(t)
        /\ pc'[t] = pc[t] /\ at'[t] = at[t]
        /\ x[s] # "forward" /\ pc[s] \in {"serial", "finish"}
    BY <1>1, <1>2, <1>3, <1>5, <1>8, SubtreeFacts
  <2>2. /\ \A u \in SolveSubtree(t) : u # s => pc'[u] = pc[u]
        /\ pc'[s] \in {"serial", "done"}
    BY <1>5, <2>1
  <2> QED
    BY <1>1, <1>2, <1>3, <1>8, <2>1, <2>2, OthersKept
<1>9. \A d \in Supernode : s \in Structure[d] => x[d] = "forward"
  BY <1>4, StructureAbove
<1>10. \A t \in Supernode : ForwardFrame(t)'
  BY <1>7, <1>8
<1>11. IndInv'
  BY <1>1, <1>2, <1>10, InForward
<1> QED
  BY <1>1, <1>3, <1>9, <1>11 DEF Abstract!Forward

\* The two loops over a serial subtree differ only in where updates go.
LEMMA ForwardSerialStep ==
    ASSUME IndInv, parallel,
           NEW s \in Supernode, GroupStep(s) \/ ChainStep(s)
    PROVE  IndInv' /\ \E d \in Supernode : Abstract!Forward(d)
<1> DEFINE d == solve_postorder[at[s]]
<1>1. /\ phase = "forward" /\ pc[s] = "serial"
      /\ at[s] < solve_subtree_end(s)
      /\ at' = [at EXCEPT ![s] = @ + 1]
      /\ x' = [x EXCEPT ![d] = "forward"]
      /\ UNCHANGED <<parallel, phase, pc>>
  BY DEF GroupStep, ChainStep, call
<1>2. Control /\ Control' /\ \A t \in Supernode : ForwardFrame(t)
  <2>1. Control /\ \A t \in Supernode : ForwardFrame(t)
    BY <1>1 DEF IndInv, TasksInv
  <2>2. at' \in [Supernode -> Int]
    <3>1. at[s] + 1 \in Int /\ at' = [at EXCEPT ![s] = at[s] + 1]
      BY <1>1, <2>1 DEF Control
    <3> QED
      BY <2>1, <3>1 DEF Control
  <2>3. Control'
    BY <1>1, <2>1, <2>2 DEF Control
  <2> QED
    BY <2>1, <2>3
<1>3. /\ SolveSubtree(s) \subseteq Supernode /\ s \in SolveSubtree(s)
      /\ solve_subtree_begin(s) \in Nat /\ IndexOf(s) \in Nat
      /\ \A u \in SolveSubtree(s) : IndexOf(u) \in Nat
  BY SubtreeFacts
<1>4. /\ Alone(s)
      /\ at[s] \in solve_subtree_begin(s)..IndexOf(s)
      /\ \A u \in SolveSubtree(s) :
            x[u] = IF IndexOf(u) < at[s] THEN "forward" ELSE "given"
  BY <1>1, <1>2, <1>3 DEF ForwardFrame, solve_subtree_end
<1>5. d \in SolveSubtree(s) /\ d \in Supernode /\ IndexOf(d) = at[s]
  BY <1>3, <1>4, SubtreeFacts
<1> HIDE DEF d
<1>6. x[d] = "given"
  BY <1>3, <1>4, <1>5
<1>7. x'[d] = "forward" /\ \A u \in Supernode : u # d => x'[u] = x[u]
  BY <1>1, <1>2, <1>5 DEF Control
<1>8. at'[s] = at[s] + 1 /\ \A t \in Supernode : t # s => at'[t] = at[t]
  BY <1>1, <1>2 DEF Control
<1>9. ForwardFrame(s)'
  <2>1. ASSUME NEW u \in SolveSubtree(s)
        PROVE  x'[u] = IF IndexOf(u) < at'[s] THEN "forward" ELSE "given"
    <3>1. CASE u = d
      BY <1>3, <1>4, <1>5, <1>7, <1>8, <3>1
    <3>2. CASE u # d
      <4>1. IndexOf(u) # at[s]
        BY <1>3, <1>5, <3>2 DEF TraversalIsPostorder
      <4>2. x'[u] = x[u] /\ x[u] = IF IndexOf(u) < at[s] THEN "forward"
                                   ELSE "given"
        BY <1>3, <1>4, <1>7, <3>2
      <4>3. IndexOf(u) < at[s] <=> IndexOf(u) < at'[s]
        BY <1>3, <1>4, <1>8, <4>1
      <4> QED
        BY <4>2, <4>3
    <3> QED
      BY <3>1, <3>2
  <2>2. at'[s] \in solve_subtree_begin(s)..solve_subtree_end(s)
    BY <1>3, <1>4, <1>8 DEF solve_subtree_end
  <2>3. pc'[s] = "serial" /\ Alone(s)'
    BY <1>1, <1>4 DEF Alone
  <2> QED
    BY <2>1, <2>2, <2>3 DEF ForwardFrame
<1>10. ASSUME NEW t \in Supernode, t # s PROVE ForwardFrame(t)'
  <2>1. /\ ForwardFrame(t) /\ at'[t] = at[t] /\ pc' = pc
        /\ x[d] # "forward" /\ pc[s] \in {"serial", "finish"}
        /\ pc'[s] \in {"serial", "done"}
    BY <1>1, <1>2, <1>6, <1>8, <1>10
  <2> QED
    BY <1>1, <1>2, <1>4, <1>5, <1>10, <2>1, OthersKept
<1>11. ASSUME NEW e \in Supernode, d \in Structure[e] PROVE x[e] = "forward"
  <2>1. e \in SolveSubtree(d) /\ e # d
    BY <1>5, <1>11, StructureAbove
  <2>2. e \in SolveSubtree(s) /\ IndexOf(e) < at[s]
    BY <1>5, <2>1, SubtreeTransitive, Below
  <2> QED
    BY <1>4, <2>2
<1>12. \A t \in Supernode : ForwardFrame(t)'
  BY <1>9, <1>10
<1>13. IndInv'
  BY <1>1, <1>2, <1>12, InForward
<1>14. Abstract!Forward(d)
  BY <1>1, <1>6, <1>11 DEF Abstract!Forward
<1> QED
  BY <1>5, <1>13, <1>14

LEMMA ForwardSweepStep ==
    ASSUME IndInv, ForwardSweep
    PROVE  IndInv' /\ \E d \in Supernode : Abstract!Forward(d)
<1>1. /\ phase = "forward" /\ ~parallel /\ sweep <= NumSupernodes
      /\ x' = [x EXCEPT ![sweep] = "forward"] /\ sweep' = sweep + 1
      /\ UNCHANGED <<parallel, phase, pc, at>>
  BY DEF ForwardSweep, call
<1>2. /\ NumSupernodes \in Nat /\ Control
      /\ sweep \in 1..(NumSupernodes + 1)
      /\ \A s \in Supernode : pc[s] = "idle"
      /\ \A s \in Supernode : x[s] = IF s < sweep THEN "forward" ELSE "given"
  BY <1>1, ForestAssumption DEF IndInv, SweepInv
<1>3. sweep \in Supernode /\ Control'
  BY <1>1, <1>2 DEF Supernode, Control
<1>4. x[sweep] = "given"
  BY <1>2, <1>3
<1>5. \A s \in Supernode : x'[s] = IF s < sweep + 1 THEN "forward" ELSE "given"
  BY <1>1, <1>2, <1>3 DEF Control, Supernode
<1>6. IndInv'
  BY <1>1, <1>2, <1>3, <1>5 DEF IndInv, TasksInv, SweepInv, BetweenInv
<1>7. ASSUME NEW e \in Supernode, sweep \in Structure[e] PROVE x[e] = "forward"
  <2>1. e < sweep
    BY <1>3, <1>7, StructureAbove, Below
  <2> QED
    BY <1>2, <2>1
<1>8. Abstract!Forward(sweep)
  BY <1>1, <1>4, <1>7 DEF Abstract!Forward
<1> QED
  BY <1>3, <1>6, <1>8

\* When the tasks of the roots are done, so is everything below them.
LEMMA ForwardDoneStep ==
    ASSUME IndInv, ForwardDone
    PROVE  IndInv' /\ x' = x /\ phase # "returned" /\ phase' # "returned"
<1>1. /\ phase = "forward" /\ phase' = "diagonal"
      /\ UNCHANGED <<parallel, pc, at, x>>
      /\ IF parallel THEN \A r \in Roots : pc[r] = "done"
         ELSE sweep > NumSupernodes
  BY DEF ForwardDone, data
<1>2. ASSUME NEW u \in Supernode
      PROVE  x[u] = "forward" /\ pc[u] \in {"idle", "done"}
  <2>1. CASE parallel
    <3>1. PICK r \in Roots : u \in SolveSubtree(r)
      BY RootCover
    <3>2. ForwardFrame(r) /\ pc[r] = "done"
      BY <1>1, <2>1 DEF IndInv, TasksInv, Roots
    <3> QED
      BY <3>1, <3>2 DEF ForwardFrame
  <2>2. CASE ~parallel
    BY <1>1, <2>2, ForestAssumption DEF IndInv, SweepInv, Supernode
  <2> QED
    BY <2>1, <2>2
<1>3. Control /\ Control'
  BY <1>1 DEF IndInv, Control
<1> QED
  BY <1>1, <1>2, <1>3 DEF IndInv, TasksInv, SweepInv, BetweenInv

-----------------------------------------------------------------------------
(***************************************************************************)
(* Backward.                                                               *)
(***************************************************************************)
LEMMA DiagonalSolveStep ==
    ASSUME IndInv, DiagonalSolve
    PROVE  IndInv' /\ Abstract!Scale
<1>1. /\ phase = "diagonal" /\ phase' = "backward"
      /\ x' = [s \in Supernode |-> "scaled"]
      /\ pc' = IF parallel THEN RootsReady ELSE pc
      /\ sweep' = NumSupernodes
      /\ UNCHANGED <<parallel, at>>
  BY DEF DiagonalSolve
<1>2. Control /\ Control' /\ \A s \in Supernode : x[s] = "forward"
  BY <1>1 DEF IndInv, Control, BetweenInv, RootsReady
<1>3. ASSUME NEW s \in Supernode, parallel PROVE BackwardFrame(s)'
  <2>1. pc' = [t \in Supernode |-> IF IsRoot(t) THEN "ready" ELSE "idle"]
    BY <1>1, <1>3 DEF RootsReady
  <2>2. pc'[s] = IF IsRoot(s) THEN "ready" ELSE "idle"
    BY <2>1
  <2>3. SolveSubtree(s) \subseteq Supernode
    BY SubtreeFacts
  <2>4. \A u \in SolveSubtree(s) : x'[u] = "scaled"
    BY <1>1, <2>3
  <2>5. \A u \in SolveSubtree(s) : u # s => pc'[u] = "idle"
    BY <2>1, <2>3, ParentInSubtree
  <2>6. IsRoot(s) => Structure[s] = {}
    BY StructureAssumption
  <2> QED
    BY <2>2, <2>4, <2>5, <2>6 DEF BackwardFrame, Alone
<1>4. \A r \in Roots : parallel => pc'[r] # "idle"
  BY <1>1 DEF Roots, RootsReady
<1>5. ~parallel => \A s \in Supernode : pc'[s] = "idle"
  BY <1>1 DEF IndInv, SweepInv
<1>6. /\ sweep' \in 0..NumSupernodes
      /\ \A s \in Supernode :
            x'[s] = IF s > sweep' THEN "solved" ELSE "scaled"
  BY <1>1, ForestAssumption DEF Supernode
<1>7. IndInv'
  BY <1>1, <1>2, <1>3, <1>4, <1>5, <1>6
     DEF IndInv, TasksInv, SweepInv, BetweenInv
<1> QED
  BY <1>1, <1>2, <1>7 DEF Abstract!Scale

\* A step of a frame inside its subtree leaves the other frames alone.
LEMMA OthersBackward ==
    ASSUME NEW s \in Supernode, NEW t \in Supernode,
           s # t, pc[s] \in {"ready", "serial"}, Alone(s), BackwardFrame(t),
           NEW d \in SolveSubtree(s), pc'[t] = pc[t], at'[t] = at[t],
           \A u \in Supernode :
              /\ x'[u] = x[u] \/ (u = d /\ x'[u] = "solved")
              /\ u \notin SolveSubtree(s) => pc'[u] = pc[u]
              /\ pc[u] # "idle" => pc'[u] # "idle"
    PROVE  BackwardFrame(t)'
<1>1. /\ SolveSubtree(t) \subseteq Supernode /\ Structure[t] \subseteq Supernode
      /\ \A u \in Supernode : x[u] = "solved" => x'[u] = "solved"
  BY SubtreeFacts, StructureAssumption
<1>2. CASE pc[t] \in {"ready", "serial"}
  <2>1. Alone(t) /\ \A u \in Structure[t] : x[u] = "solved"
    BY <1>2 DEF BackwardFrame
  <2>2. \A u \in SolveSubtree(t) : u \notin SolveSubtree(s)
    BY <1>2, <2>1, NotInside
  <2>3. \A u \in SolveSubtree(t) : x'[u] = x[u] /\ pc'[u] = pc[u]
    BY <1>1, <2>2
  <2>4. Alone(t)' /\ \A u \in Structure[t] : x'[u] = "solved"
    BY <1>1, <2>1, <2>3 DEF Alone
  <2> QED
    BY <1>2, <2>3, <2>4 DEF BackwardFrame
<1>3. CASE pc[t] = "done"
  <2>1. \A c \in Children(t) : c \in Supernode
    BY ChildSubtree
  <2>2. x[t] = "solved" /\ \/ \A u \in SolveSubtree(t) : x[u] = "solved"
                           \/ \A c \in Children(t) : pc[c] # "idle"
    BY <1>3 DEF BackwardFrame
  <2>3. x'[t] = "solved" /\ \/ \A u \in SolveSubtree(t) : x'[u] = "solved"
                            \/ \A c \in Children(t) : pc'[c] # "idle"
    BY <1>1, <2>1, <2>2
  <2> QED
    BY <1>3, <2>3 DEF BackwardFrame
<1>4. CASE pc[t] = "idle"
  BY <1>4 DEF BackwardFrame
<1> QED
  BY <1>2, <1>3, <1>4 DEF BackwardFrame

LEMMA InBackward ==
    ASSUME IndInv, parallel, phase = "backward", Control',
           UNCHANGED <<parallel, phase>>,
           \A u \in Supernode : pc[u] # "idle" => pc'[u] # "idle",
           \A t \in Supernode : BackwardFrame(t)'
    PROVE  IndInv'
<1>1. \A r \in Roots : pc'[r] # "idle"
  BY DEF IndInv, TasksInv, Roots
<1> QED
  BY <1>1 DEF IndInv, TasksInv, SweepInv, BetweenInv

LEMMA BackwardVisitStep ==
    ASSUME IndInv, parallel,
           NEW s \in Supernode, BackwardVisit(s)
    PROVE  IndInv' /\ Abstract!Backward(s)
<1>1. /\ phase = "backward" /\ pc[s] = "ready"
      /\ x' = [x EXCEPT ![s] = "solved"]
      /\ UNCHANGED <<parallel, phase>>
  BY DEF BackwardVisit, call
<1>2. Control /\ \A t \in Supernode : BackwardFrame(t)
  BY <1>1 DEF IndInv, TasksInv
<1>3. /\ SolveSubtree(s) \subseteq Supernode /\ s \in SolveSubtree(s)
      /\ solve_subtree_begin(s) \in Nat /\ IndexOf(s) \in Nat
      /\ \A u \in SolveSubtree(s) : IndexOf(u) \in Nat
      /\ solve_subtree_begin(s) <= IndexOf(s)
  BY SubtreeFacts DEF TraversalIsPostorder
<1>4. /\ Alone(s) /\ \A u \in Structure[s] : x[u] = "solved"
      /\ \A u \in SolveSubtree(s) : x[u] = "scaled"
  BY <1>1, <1>2 DEF BackwardFrame
<1>5. x'[s] = "solved" /\ \A u \in Supernode : u # s => x'[u] = x[u]
  BY <1>1, <1>2 DEF Control
<1>6. Abstract!Backward(s)
  BY <1>1, <1>3, <1>4 DEF Abstract!Backward
<1>7. CASE BackwardSerial(s)
  <2>1. /\ pc' = [pc EXCEPT ![s] = "serial"]
        /\ at' = [at EXCEPT ![s] = IndexOf(s) - 1]
    <3>1. solve_subtree_end(s) - 2 = IndexOf(s) - 1
      BY <1>3 DEF solve_subtree_end
    <3> QED
      BY <1>7, <3>1 DEF BackwardVisit
  <2>2. /\ pc'[s] = "serial" /\ at'[s] = IndexOf(s) - 1
        /\ \A u \in Supernode : u # s => pc'[u] = pc[u] /\ at'[u] = at[u]
    BY <1>2, <2>1 DEF Control
  <2>3. Control'
    BY <1>1, <1>2, <1>3, <2>1 DEF Control
  <2>4. \A u \in SolveSubtree(s) :
           x'[u] = IF IndexOf(u) > at'[s] THEN "solved" ELSE "scaled"
    BY <1>3, <1>4, <1>5, <2>2, Below
  <2>5. Alone(s)'
    BY <1>3, <1>4, <2>2 DEF Alone
  <2>6. \A u \in Structure[s] : x'[u] = "solved"
    BY <1>4, <1>5, StructureAssumption
  <2>7. BackwardFrame(s)'
    BY <1>3, <2>2, <2>4, <2>5, <2>6 DEF BackwardFrame
  <2>8. ASSUME NEW t \in Supernode, t # s PROVE BackwardFrame(t)'
    BY <1>1, <1>2, <1>3, <1>4, <1>5, <2>2, <2>8, OthersBackward
  <2>9. \A t \in Supernode : BackwardFrame(t)'
    BY <2>7, <2>8
  <2>10. \A u \in Supernode : pc[u] # "idle" => pc'[u] # "idle"
    BY <2>2
  <2> QED
    BY <1>1, <1>6, <2>3, <2>9, <2>10, InBackward
<1>8. CASE ~BackwardSerial(s)
  <2>1. /\ pc' = [t \in Supernode |-> IF t = s THEN "done"
                                      ELSE IF t \in Children(s) THEN "ready"
                                      ELSE pc[t]]
        /\ at' = at
    BY <1>8 DEF BackwardVisit
  <2>2. Control'
    BY <1>1, <1>2, <2>1 DEF Control
  <2>3. ASSUME NEW c \in Children(s)
        PROVE  /\ c \in Supernode /\ c # s /\ ~IsRoot(c) /\ Parent[c] = s
               /\ c \in SolveSubtree(s)
               /\ SolveSubtree(c) \subseteq SolveSubtree(s)
    BY ChildSubtree DEF Children
  <2>4. /\ pc'[s] = "done"
        /\ \A c \in Children(s) : pc'[c] = "ready"
        /\ \A u \in Supernode \ {s} : u \notin Children(s) => pc'[u] = pc[u]
    BY <2>1, <2>3
  <2>5. BackwardFrame(s)'
    BY <1>5, <2>4 DEF BackwardFrame
  <2>6. ASSUME NEW c \in Children(s) PROVE BackwardFrame(c)'
    <3>1. /\ c \in Supernode /\ c # s /\ ~IsRoot(c) /\ Parent[c] = s
          /\ SolveSubtree(c) \subseteq SolveSubtree(s)
      BY <2>3
    <3>2. \A u \in SolveSubtree(c) : u # s
      BY <3>1, Below, SubtreeFacts, ParentFacts DEF Supernode
    <3>3. \A u \in SolveSubtree(c) : u # c => u \notin Children(s)
      <4> SUFFICES ASSUME NEW u \in SolveSubtree(c), u # c, u \in Children(s)
                   PROVE  FALSE
        OBVIOUS
      <4>1. u \in Supernode /\ Parent[u] = s
        BY <2>3
      <4>2. s \in SolveSubtree(c)
        BY <3>1, <4>1, ParentInSubtree
      <4> QED
        BY <3>2, <4>2
    <3>4. Alone(c)'
      BY <1>3, <1>4, <2>4, <3>1, <3>2, <3>3 DEF Alone
    <3>5. \A u \in SolveSubtree(c) : x'[u] = "scaled"
      BY <1>3, <1>4, <1>5, <3>1, <3>2
    <3>6. \A u \in Structure[c] : x'[u] = "solved"
      <4>1. \A u \in Structure[c] :
               u \in Supernode /\ (u = s \/ u \in Structure[s])
        BY <3>1, StructureAssumption
      <4> QED
        BY <1>4, <1>5, <4>1
    <3> QED
      BY <2>4, <3>4, <3>5, <3>6 DEF BackwardFrame
  <2>7. \A u \in Supernode : pc[u] # "idle" => pc'[u] # "idle"
    BY <2>1
  <2>8. ASSUME NEW t \in Supernode, t # s, t \notin Children(s)
        PROVE  BackwardFrame(t)'
    <3>1. \A u \in Supernode : u \notin SolveSubtree(s) => pc'[u] = pc[u]
      BY <1>3, <2>3, <2>4
    <3>2. pc'[t] = pc[t] /\ at'[t] = at[t] /\ BackwardFrame(t)
      BY <1>2, <2>1, <2>4, <2>8
    <3> QED
      BY <1>1, <1>3, <1>4, <1>5, <2>7, <2>8, <3>1, <3>2, OthersBackward
  <2>9. \A t \in Supernode : BackwardFrame(t)'
    BY <2>5, <2>6, <2>8
  <2> QED
    BY <1>1, <1>6, <2>2, <2>7, <2>9, InBackward
<1> QED
  BY <1>7, <1>8

LEMMA BackwardSerialStepStep ==
    ASSUME IndInv, parallel,
           NEW s \in Supernode, BackwardSerialStep(s)
    PROVE  IndInv' /\ \E d \in Supernode : Abstract!Backward(d)
<1> DEFINE d == solve_postorder[at[s]]
<1>1. /\ phase = "backward" /\ pc[s] = "serial"
      /\ at[s] >= solve_subtree_begin(s)
      /\ at' = [at EXCEPT ![s] = @ - 1]
      /\ x' = [x EXCEPT ![d] = "solved"]
      /\ UNCHANGED <<parallel, phase, pc>>
  BY DEF BackwardSerialStep, call
<1>2. Control /\ \A t \in Supernode : BackwardFrame(t)
  BY <1>1 DEF IndInv, TasksInv
<1>3. /\ SolveSubtree(s) \subseteq Supernode /\ s \in SolveSubtree(s)
      /\ solve_subtree_begin(s) \in Nat /\ IndexOf(s) \in Nat
      /\ \A u \in SolveSubtree(s) : IndexOf(u) \in Nat
  BY SubtreeFacts
<1>4. /\ Alone(s) /\ \A u \in Structure[s] : x[u] = "solved"
      /\ at[s] \in solve_subtree_begin(s)..(IndexOf(s) - 1)
      /\ \A u \in SolveSubtree(s) :
            x[u] = IF IndexOf(u) > at[s] THEN "solved" ELSE "scaled"
  BY <1>1, <1>2, <1>3 DEF BackwardFrame
<1>5. d \in SolveSubtree(s) /\ d \in Supernode /\ IndexOf(d) = at[s]
  BY <1>3, <1>4, SubtreeFacts
<1> HIDE DEF d
<1>6. x[d] = "scaled"
  BY <1>3, <1>4, <1>5
<1>7. x'[d] = "solved" /\ \A u \in Supernode : u # d => x'[u] = x[u]
  BY <1>1, <1>2, <1>5 DEF Control
<1>8. at'[s] = at[s] - 1 /\ \A t \in Supernode : t # s => at'[t] = at[t]
  BY <1>1, <1>2 DEF Control
<1>9. Control'
  <2>1. at' \in [Supernode -> Int]
    <3>1. at[s] - 1 \in Int /\ at' = [at EXCEPT ![s] = at[s] - 1]
      BY <1>1, <1>2 DEF Control
    <3> QED
      BY <1>2, <3>1 DEF Control
  <2> QED
    BY <1>1, <1>2, <2>1 DEF Control
<1>10. BackwardFrame(s)'
  <2>1. ASSUME NEW u \in SolveSubtree(s)
        PROVE  x'[u] = IF IndexOf(u) > at'[s] THEN "solved" ELSE "scaled"
    <3>1. CASE u = d
      BY <1>3, <1>4, <1>5, <1>7, <1>8, <3>1
    <3>2. CASE u # d
      <4>1. IndexOf(u) # at[s]
        BY <1>3, <1>5, <3>2 DEF TraversalIsPostorder
      <4>2. x'[u] = x[u] /\ x[u] = IF IndexOf(u) > at[s] THEN "solved"
                                   ELSE "scaled"
        BY <1>3, <1>4, <1>7, <3>2
      <4>3. IndexOf(u) > at[s] <=> IndexOf(u) > at'[s]
        BY <1>3, <1>4, <1>8, <4>1
      <4> QED
        BY <4>2, <4>3
    <3> QED
      BY <3>1, <3>2
  <2>2. at'[s] \in (solve_subtree_begin(s) - 1)..(IndexOf(s) - 1)
    BY <1>3, <1>4, <1>8
  <2>3. pc'[s] = "serial" /\ Alone(s)'
    BY <1>1, <1>4 DEF Alone
  <2>4. \A u \in Structure[s] : x'[u] = "solved"
    BY <1>4, <1>7, StructureAssumption
  <2> QED
    BY <2>1, <2>2, <2>3, <2>4 DEF BackwardFrame
<1>11. ASSUME NEW t \in Supernode, t # s PROVE BackwardFrame(t)'
  <2>1. BackwardFrame(t) /\ at'[t] = at[t] /\ pc' = pc
    BY <1>1, <1>2, <1>8, <1>11
  <2> QED
    BY <1>1, <1>4, <1>5, <1>7, <1>11, <2>1, OthersBackward
<1>12. ASSUME NEW t \in Structure[d] PROVE x[t] = "solved"
  <2>1. CASE t \in SolveSubtree(s)
    <3>1. t \in Supernode /\ d \in SolveSubtree(t) /\ d # t
      BY <1>5, StructureAbove
    <3>2. IndexOf(t) > at[s]
      BY <1>3, <1>5, <2>1, <3>1, Below
    <3> QED
      BY <1>4, <2>1, <3>2
  <2>2. CASE t \notin SolveSubtree(s)
    BY <1>4, <1>5, <2>2, StructureInherited
  <2> QED
    BY <2>1, <2>2
<1>13. \A t \in Supernode : BackwardFrame(t)'
  BY <1>10, <1>11
<1>14. IndInv'
  BY <1>1, <1>2, <1>9, <1>13, InBackward
<1>15. Abstract!Backward(d)
  BY <1>1, <1>6, <1>12 DEF Abstract!Backward
<1> QED
  BY <1>5, <1>14, <1>15

LEMMA BackwardSerialDoneStep ==
    ASSUME IndInv, parallel,
           NEW s \in Supernode, BackwardSerialDone(s)
    PROVE  IndInv' /\ UNCHANGED <<x, phase>>
<1>1. /\ phase = "backward" /\ pc[s] = "serial"
      /\ at[s] < solve_subtree_begin(s)
      /\ pc' = [pc EXCEPT ![s] = "done"]
      /\ UNCHANGED <<parallel, phase, x, at>>
  BY DEF BackwardSerialDone, Go, call, data
<1>2. Control /\ Control' /\ \A t \in Supernode : BackwardFrame(t)
  BY <1>1 DEF IndInv, TasksInv, Control
<1>3. /\ SolveSubtree(s) \subseteq Supernode /\ s \in SolveSubtree(s)
      /\ solve_subtree_begin(s) \in Nat /\ Alone(s)
      /\ \A u \in SolveSubtree(s) : IndexOf(u) >= solve_subtree_begin(s)
  BY <1>1, <1>2, SubtreeFacts DEF BackwardFrame, SolveSubtree
<1>4. \A u \in SolveSubtree(s) : IndexOf(u) > at[s]
  BY <1>1, <1>2, <1>3, SubtreeFacts DEF Control
<1>5. \A u \in SolveSubtree(s) : x[u] = "solved"
  BY <1>1, <1>2, <1>4 DEF BackwardFrame
<1>6. pc'[s] = "done" /\ \A u \in Supernode : u # s => pc'[u] = pc[u]
  BY <1>1, <1>2 DEF Control
<1>7. BackwardFrame(s)'
  BY <1>1, <1>3, <1>5, <1>6 DEF BackwardFrame
<1>8. \A u \in Supernode : pc[u] # "idle" => pc'[u] # "idle"
  BY <1>6
<1>9. ASSUME NEW t \in Supernode, t # s PROVE BackwardFrame(t)'
  <2>1. BackwardFrame(t) /\ at'[t] = at[t] /\ pc'[t] = pc[t]
    BY <1>1, <1>2, <1>6, <1>9
  <2>2. \A u \in Supernode :
          /\ x'[u] = x[u] \/ (u = s /\ x'[u] = "solved")
          /\ u \notin SolveSubtree(s) => pc'[u] = pc[u]
          /\ pc[u] # "idle" => pc'[u] # "idle"
    BY <1>1, <1>3, <1>6, <1>8
  <2> QED
    BY <1>1, <1>3, <1>9, <2>1, <2>2, OthersBackward
<1>10. \A t \in Supernode : BackwardFrame(t)'
  BY <1>7, <1>9
<1> QED
  BY <1>1, <1>2, <1>8, <1>10, InBackward

LEMMA BackwardSweepStep ==
    ASSUME IndInv, BackwardSweep
    PROVE  IndInv' /\ \E d \in Supernode : Abstract!Backward(d)
<1>1. /\ phase = "backward" /\ ~parallel /\ sweep >= 1
      /\ x' = [x EXCEPT ![sweep] = "solved"] /\ sweep' = sweep - 1
      /\ UNCHANGED <<parallel, phase, pc, at>>
  BY DEF BackwardSweep, call
<1>2. /\ NumSupernodes \in Nat /\ Control
      /\ sweep \in 0..NumSupernodes
      /\ \A s \in Supernode : pc[s] = "idle"
      /\ \A s \in Supernode : x[s] = IF s > sweep THEN "solved" ELSE "scaled"
  BY <1>1, ForestAssumption DEF IndInv, SweepInv
<1>3. sweep \in Supernode /\ Control'
  BY <1>1, <1>2 DEF Supernode, Control
<1>4. x[sweep] = "scaled"
  BY <1>2, <1>3
<1>5. \A s \in Supernode : x'[s] = IF s > sweep - 1 THEN "solved" ELSE "scaled"
  BY <1>1, <1>2, <1>3 DEF Control, Supernode
<1>6. IndInv'
  BY <1>1, <1>2, <1>3, <1>5 DEF IndInv, TasksInv, SweepInv, BetweenInv
<1>7. ASSUME NEW t \in Structure[sweep] PROVE x[t] = "solved"
  <2>1. t \in Supernode /\ sweep < t
    BY <1>3, StructureAbove, Below
  <2> QED
    BY <1>2, <2>1
<1>8. Abstract!Backward(sweep)
  BY <1>1, <1>4, <1>7 DEF Abstract!Backward
<1> QED
  BY <1>3, <1>6, <1>8

\* When no frame is active, none is missing: the tasks of the roots have been
\* started, and what is done has started or solved what is below it.
LEMMA BackwardDoneStep ==
    ASSUME IndInv, BackwardDone
    PROVE  IndInv' /\ Abstract!Return
<1>1. /\ phase = "backward" /\ phase' = "returned"
      /\ UNCHANGED <<parallel, pc, at, x>>
      /\ IF parallel THEN \A s \in Supernode : ~Active(s) ELSE sweep = 0
  BY DEF BackwardDone, data
<1>2. \A u \in Supernode : x[u] = "solved" /\ pc[u] \in {"idle", "done"}
  <2>1. CASE parallel
    <3> DEFINE Solved(u) == \A v \in SolveSubtree(u) : x[v] = "solved"
               A == {u \in Supernode : ~(pc[u] = "done" \/ Solved(u))}
    <3>1. /\ \A s \in Supernode : BackwardFrame(s) /\ pc[s] \in {"idle", "done"}
          /\ \A r \in Roots : pc[r] = "done"
      BY <1>1, <2>1 DEF IndInv, TasksInv, Control, Active, Roots
    <3>2. \A u \in A : ~IsRoot(u) /\ Parent[u] \in A
      <4> TAKE u \in A
      <4>1. ~IsRoot(u)
        BY <3>1 DEF Roots
      <4>2. Parent[u] \in Supernode /\ u \in Children(Parent[u])
        BY <4>1, ParentFacts
      <4>3. SolveSubtree(u) \subseteq SolveSubtree(Parent[u])
        BY <4>2, ChildSubtree
      <4>4. ~Solved(Parent[u])
        BY <4>3
      <4>5. pc[Parent[u]] # "done"
        BY <3>1, <4>2, <4>4 DEF BackwardFrame
      <4> QED
        BY <4>1, <4>2, <4>4, <4>5
    <3>3. A = {}
      BY <3>2, FromTheRoots
    <3>4. \A u \in Supernode : x[u] = "solved"
      BY <3>1, <3>3, SubtreeFacts DEF BackwardFrame
    <3> QED
      BY <3>1, <3>4
  <2>2. CASE ~parallel
    BY <1>1, <2>2 DEF IndInv, SweepInv, Supernode
  <2> QED
    BY <2>1, <2>2
<1>3. Control'
  BY <1>1 DEF IndInv, Control
<1>4. IndInv'
  BY <1>1, <1>2, <1>3 DEF IndInv, TasksInv, SweepInv, BetweenInv
<1> QED
  BY <1>1, <1>2, <1>4 DEF Abstract!Return

-----------------------------------------------------------------------------
(***************************************************************************)
(* The specification.                                                      *)
(***************************************************************************)
LEMMA StartSolveStep ==
    ASSUME IndInv, StartSolve
    PROVE  IndInv' /\ Abstract!Begin
<1>1. /\ phase = "returned" /\ phase' = "forward" /\ parallel' \in BOOLEAN
      /\ x' = [s \in Supernode |-> "given"] /\ sweep' = 1
      /\ pc' = IF parallel' THEN RootsReady
               ELSE [s \in Supernode |-> "idle"]
      /\ UNCHANGED at
  BY DEF StartSolve
<1>2. Control'
  BY <1>1 DEF IndInv, Control, RootsReady
<1>3. ASSUME NEW s \in Supernode, parallel' PROVE ForwardFrame(s)'
  <2>1. pc' = [t \in Supernode |-> IF IsRoot(t) THEN "ready" ELSE "idle"]
    BY <1>1, <1>3 DEF RootsReady
  <2>2. pc'[s] = IF IsRoot(s) THEN "ready" ELSE "idle"
    BY <2>1
  <2>3. SolveSubtree(s) \subseteq Supernode
    BY SubtreeFacts
  <2>4. \A u \in SolveSubtree(s) : x'[u] = "given"
    BY <1>1, <2>3
  <2>5. \A u \in SolveSubtree(s) : u # s => pc'[u] = "idle"
    BY <2>1, <2>3, ParentInSubtree
  <2> QED
    BY <2>2, <2>4, <2>5 DEF ForwardFrame, Alone
<1>4. /\ sweep' \in 1..(NumSupernodes + 1)
      /\ \A s \in Supernode : x'[s] = IF s < sweep' THEN "forward" ELSE "given"
  BY <1>1, ForestAssumption DEF Supernode
<1>5. ~parallel' => \A s \in Supernode : pc'[s] = "idle"
  BY <1>1
<1>6. IndInv'
  BY <1>1, <1>2, <1>3, <1>4, <1>5 DEF IndInv, TasksInv, SweepInv, BetweenInv
<1> QED
  BY <1>1, <1>6 DEF Abstract!Begin

\* Frames are active in parallel solves only.
LEMMA FrameIsParallel ==
    ASSUME IndInv, NEW s \in Supernode, pc[s] # "idle"
    PROVE  phase \in {"forward", "backward"} => parallel
BY DEF IndInv, SweepInv

LEMMA FrameStep ==
    ASSUME IndInv, NEW s \in Supernode, Frame(s)
    PROVE  IndInv' /\ (Abstract!AbsNext \/ UNCHANGED Abstract!absVars)
<1>1. parallel
  <2>1. pc[s] # "idle" /\ phase \in {"forward", "backward"}
    BY DEF Frame, ForwardSpawn, ForwardMerge, ForwardFinish,
           ForwardSerialStart, GroupStep, ChainStep, ForwardSerialDone,
           BackwardVisit, BackwardSerialStep, BackwardSerialDone, Go
  <2> QED
    BY <2>1, FrameIsParallel
<1>2. CASE \/ ForwardSpawn(s) \/ ForwardMerge(s) \/ ForwardSerialStart(s)
           \/ ForwardSerialDone(s) \/ BackwardSerialDone(s)
  <2>1. IndInv' /\ UNCHANGED <<x, phase>>
    BY <1>1, <1>2, ForwardSpawnStep, ForwardMergeStep, ForwardSerialStartStep,
       ForwardSerialDoneStep, BackwardSerialDoneStep
  <2> QED
    BY <2>1 DEF Abstract!absVars
<1>3. CASE \/ ForwardFinish(s) \/ GroupStep(s) \/ ChainStep(s)
           \/ BackwardVisit(s) \/ BackwardSerialStep(s)
  <2>1. /\ IndInv'
        /\ \E d \in Supernode : Abstract!Forward(d) \/ Abstract!Backward(d)
    BY <1>1, <1>3, ForwardFinishStep, ForwardSerialStep, BackwardVisitStep,
       BackwardSerialStepStep
  <2> QED
    BY <2>1 DEF Abstract!AbsNext
<1> QED
  BY <1>2, <1>3 DEF Frame

\* A step of a solve is a step of the abstract system, or none of its business.
LEMMA NextStep ==
    ASSUME IndInv, [Next]_vars
    PROVE  IndInv' /\ (Abstract!AbsNext \/ UNCHANGED Abstract!absVars)
<1>1. CASE StartSolve
  BY <1>1, StartSolveStep DEF Abstract!AbsNext
<1>2. CASE \E s \in Supernode : Frame(s)
  BY <1>2, FrameStep
<1>3. CASE ForwardSweep \/ BackwardSweep
  <2>1. /\ IndInv'
        /\ \E d \in Supernode : Abstract!Forward(d) \/ Abstract!Backward(d)
    BY <1>3, ForwardSweepStep, BackwardSweepStep
  <2> QED
    BY <2>1 DEF Abstract!AbsNext
<1>4. CASE ForwardDone
  BY <1>4, ForwardDoneStep DEF Abstract!absVars
<1>5. CASE DiagonalSolve \/ BackwardDone
  BY <1>5, DiagonalSolveStep, BackwardDoneStep DEF Abstract!AbsNext
<1>6. CASE UNCHANGED vars
  BY <1>6 DEF vars, call, data, IndInv, Control, TasksInv, SweepInv,
              BetweenInv, ForwardFrame, BackwardFrame, Alone, Abstract!absVars
<1> QED
  BY <1>1, <1>2, <1>3, <1>4, <1>5, <1>6 DEF Next, Driver, Terminated

LEMMA InitHolds == Init => IndInv /\ Abstract!AbsInit
<1> SUFFICES ASSUME Init PROVE IndInv /\ Abstract!AbsInit
  OBVIOUS
<1>1. /\ phase = "returned" /\ parallel = FALSE
      /\ pc = [s \in Supernode |-> "idle"] /\ at = [s \in Supernode |-> 0]
      /\ x = [s \in Supernode |-> "solved"]
  BY DEF Init
<1>2. Control
  <2>1. parallel \in BOOLEAN
    BY <1>1, Zenon
  <2> QED
    BY <1>1, <2>1 DEF Control
<1>3. TasksInv /\ SweepInv /\ BetweenInv
  BY <1>1 DEF TasksInv, SweepInv, BetweenInv
<1> QED
  BY <1>1, <1>2, <1>3 DEF IndInv, Abstract!AbsInit

LEMMA IndInvHolds == Spec => []IndInv
<1>1. IndInv /\ [Next]_vars => IndInv'
  BY NextStep
<1> QED
  BY <1>1, InitHolds, PTL DEF Spec

-----------------------------------------------------------------------------
(***************************************************************************)
(* Data races.                                                             *)
(***************************************************************************)
\* What stays in a group is in its subtree.
LEMMA OwnedInside ==
    ASSUME NEW s \in Supernode, NEW d \in SolveSubtree(s)
    PROVE  Owned(d, s) \subseteq SolveSubtree(s)
<1> SUFFICES ASSUME NEW t \in Owned(d, s), t \notin SolveSubtree(s)
             PROVE  FALSE
  OBVIOUS
<1>1. d \in Supernode /\ t \in Structure[d]
  BY SubtreeFacts DEF Owned
<1>2. t \in Structure[s]
  BY <1>1, StructureInherited
<1>3. t \in Supernode /\ t <= s
  BY <1>2, StructureAbove DEF Owned
<1>4. s < t
  BY <1>2, <1>3, StructureAbove, Below
<1> QED
  BY <1>3, <1>4 DEF Supernode

\* Where a frame of the forward substitution may write, and read besides.
Held(s) == IF pc[s] = "serial" THEN SolveSubtree(s)
           ELSE IF pc[s] \in {"wait", "finish"} THEN {s} ELSE {}
Entries(S) == {"rhs", "buffer"} \X S
Finished(s) == {c \in Children(s) : pc[c] = "done"}

LEMMA ForwardAccess ==
    ASSUME IndInv, parallel, phase = "forward",
           NEW s \in Supernode
    PROVE  /\ Writes(s) \subseteq Entries(Held(s))
           /\ Reads(s) \subseteq Entries(Held(s) \cup Finished(s))
<1>1. ForwardFrame(s) /\ s \in SolveSubtree(s)
  BY SubtreeFacts DEF IndInv, TasksInv
<1>2. CASE pc[s] \in {"wait", "finish"}
  BY <1>2 DEF Writes, Reads, Entries, Held, Finished
<1>3. CASE pc[s] = "serial"
  <2>1. CASE at[s] \in solve_subtree_begin(s)..IndexOf(s)
    <3>1. InProgress(s) \in SolveSubtree(s) /\ InProgress(s) \in Supernode
      BY <2>1, SubtreeFacts DEF InProgress
    <3>2. Owned(InProgress(s), s) \subseteq SolveSubtree(s)
      BY <3>1, OwnedInside
    <3>3. Children(InProgress(s)) \subseteq SolveSubtree(s)
      BY <3>1, ChildSubtree, SubtreeTransitive
    <3> HIDE DEF InProgress, Owned, Children
    <3>4. Writes(s) \subseteq Entries(Held(s))
      BY <1>1, <1>3, <3>1, <3>2 DEF Writes, Entries, Held
    <3>5. Reads(s) \subseteq Entries(Held(s))
      BY <1>3, <3>3 DEF Reads, Entries, Held
    <3> QED
      BY <3>4, <3>5 DEF Entries
  <2>2. CASE at[s] \notin solve_subtree_begin(s)..IndexOf(s)
    <3>1. ~(at[s] <= IndexOf(s))
      BY <1>1, <1>3, <2>2, SubtreeFacts DEF ForwardFrame, solve_subtree_end
    <3> QED
      BY <1>3, <2>2, <3>1 DEF Writes, Reads
  <2> QED
    BY <2>1, <2>2
<1>4. CASE pc[s] \notin {"wait", "finish", "serial"}
  BY <1>4 DEF Writes, Reads
<1> QED
  BY <1>2, <1>3, <1>4

LEMMA ForwardNoRace ==
    ASSUME IndInv, parallel, phase = "forward",
           NEW s \in Supernode, NEW t \in Supernode, s # t
    PROVE  Writes(s) \cap (Writes(t) \cup Reads(t)) = {}
<1>1. ForwardFrame(s) /\ ForwardFrame(t)
  BY DEF IndInv, TasksInv
<1>2. Held(s) \cap Held(t) = {}
  <2> SUFFICES ASSUME NEW u \in Held(s), u \in Held(t) PROVE FALSE
    OBVIOUS
  <2>1. /\ pc[s] \in {"wait", "finish", "serial"}
        /\ pc[t] \in {"wait", "finish", "serial"}
        /\ u \in SolveSubtree(s) /\ u \in SolveSubtree(t)
        /\ u = s \/ Alone(s)
        /\ u = t \/ Alone(t)
    BY <1>1, SubtreeFacts DEF Held, ForwardFrame
  <2>2. Alone(s) \/ Alone(t)
    BY <2>1
  <2> QED
    BY <2>1, <2>2, NotInside
<1>3. Held(s) \cap Finished(t) = {}
  <2> SUFFICES ASSUME NEW c \in Held(s), c \in Children(t), pc[c] = "done"
               PROVE  FALSE
    BY DEF Finished
  <2> QED
    BY <1>1 DEF Held, ForwardFrame, Alone
<1>4. Entries(Held(s)) \cap Entries(Held(t) \cup Finished(t)) = {}
  BY <1>2, <1>3 DEF Entries
<1>5. /\ Writes(s) \subseteq Entries(Held(s))
      /\ Writes(t) \subseteq Entries(Held(t))
      /\ Reads(t) \subseteq Entries(Held(t) \cup Finished(t))
  BY ForwardAccess
<1>6. Entries(Held(t)) \subseteq Entries(Held(t) \cup Finished(t))
  BY DEF Entries
<1> QED
  BY <1>4, <1>5, <1>6

\* A frame of the backward substitution writes what is not solved yet, alone
\* in its subtree, and reads what is solved.
LEMMA BackwardAccess ==
    ASSUME IndInv, parallel, phase = "backward",
           NEW s \in Supernode
    PROVE  /\ \A w \in Writes(s) :
                 /\ pc[s] \in {"ready", "serial"} /\ Alone(s)
                 /\ w[2] \in SolveSubtree(s) /\ x[w[2]] = "scaled"
           /\ \A r \in Reads(s) : x[r[2]] = "solved"
<1>1. BackwardFrame(s) /\ s \in SolveSubtree(s)
  BY SubtreeFacts DEF IndInv, TasksInv
<1>2. CASE pc[s] = "ready"
  <2>1. Alone(s) /\ x[s] = "scaled" /\ \A u \in Structure[s] : x[u] = "solved"
    BY <1>1, <1>2 DEF BackwardFrame
  <2>2. Writes(s) = {<<"rhs", s>>, <<"buffer", s>>}
    BY <1>2 DEF Writes
  <2>3. Reads(s) = {<<"rhs", u>> : u \in Structure[s]}
    BY <1>2 DEF Reads
  <2> QED
    BY <1>1, <1>2, <2>1, <2>2, <2>3
<1>3. CASE pc[s] = "serial"
  <2>1. /\ Alone(s) /\ \A u \in Structure[s] : x[u] = "solved"
        /\ at[s] \in (solve_subtree_begin(s) - 1)..(IndexOf(s) - 1)
        /\ \A u \in SolveSubtree(s) :
              x[u] = IF IndexOf(u) > at[s] THEN "solved" ELSE "scaled"
    BY <1>1, <1>3 DEF BackwardFrame
  <2>2. solve_subtree_begin(s) \in Nat /\ IndexOf(s) \in Nat
    BY SubtreeFacts
  <2>3. CASE at[s] \in solve_subtree_begin(s)..IndexOf(s)
    <3> DEFINE d == InProgress(s)
    <3>1. d \in SolveSubtree(s) /\ d \in Supernode /\ IndexOf(d) = at[s]
      BY <2>3, SubtreeFacts DEF InProgress
    <3>2. Writes(s) = {<<"rhs", d>>, <<"buffer", d>>}
      BY <1>3, <2>3 DEF Writes
    <3>3. Reads(s) \subseteq {<<"rhs", u>> : u \in Structure[d]}
      BY <1>3 DEF Reads
    <3> HIDE DEF d
    <3>4. x[d] = "scaled"
      BY <2>1, <2>2, <3>1
    <3>5. ASSUME NEW u \in Structure[d] PROVE x[u] = "solved"
      <4>1. CASE u \in SolveSubtree(s)
        <5>1. u \in Supernode /\ d \in SolveSubtree(u) /\ d # u
          BY <3>1, StructureAbove
        <5>2. IndexOf(u) > at[s]
          BY <2>2, <3>1, <5>1, Below, SubtreeFacts
        <5> QED
          BY <2>1, <4>1, <5>2
      <4>2. CASE u \notin SolveSubtree(s)
        BY <2>1, <3>1, <4>2, StructureInherited
      <4> QED
        BY <4>1, <4>2
    <3>6. \A w \in Writes(s) : w[2] = d
      BY <3>2
    <3>7. \A r \in Reads(s) : r[2] \in Structure[d]
      BY <3>3
    <3> QED
      BY <1>3, <2>1, <3>1, <3>4, <3>5, <3>6, <3>7
  <2>4. CASE at[s] \notin solve_subtree_begin(s)..IndexOf(s)
    <3>1. ~(at[s] >= solve_subtree_begin(s))
      BY <2>1, <2>2, <2>4
    <3> QED
      BY <1>3, <2>4, <3>1 DEF Writes, Reads
  <2> QED
    BY <2>3, <2>4
<1>4. CASE pc[s] \in {"idle", "done"}
  BY <1>4 DEF Writes, Reads
<1> QED
  BY <1>1, <1>2, <1>3, <1>4 DEF BackwardFrame

LEMMA BackwardNoRace ==
    ASSUME IndInv, parallel, phase = "backward",
           NEW s \in Supernode, NEW t \in Supernode, s # t
    PROVE  Writes(s) \cap (Writes(t) \cup Reads(t)) = {}
<1> SUFFICES ASSUME NEW w \in Writes(s), w \in Writes(t) \cup Reads(t)
             PROVE  FALSE
  OBVIOUS
<1>1. /\ pc[s] \in {"ready", "serial"} /\ Alone(s)
      /\ w[2] \in SolveSubtree(s) /\ x[w[2]] = "scaled"
  BY BackwardAccess
<1>2. w \in Writes(t)
  BY <1>1, BackwardAccess
<1>3. /\ pc[t] \in {"ready", "serial"} /\ Alone(t)
      /\ w[2] \in SolveSubtree(t)
  BY <1>2, BackwardAccess
<1>4. w[2] \in Supernode
  BY <1>1, SubtreeFacts
<1> QED
  BY <1>1, <1>3, <1>4, NotInside

\* However the tasks of a solve interleave, no two of them touch the same rows
\* of the right-hand side or the same buffer at the same time with one of them
\* writing: the tasks take no locks, and only the forest keeps them apart.
THEOREM NoRaces == Spec => []NoDataRace
<1>1. IndInv => NoDataRace
  <2> SUFFICES ASSUME IndInv, parallel,
                      NEW s \in Supernode, NEW t \in Supernode, s # t
               PROVE  Writes(s) \cap (Writes(t) \cup Reads(t)) = {}
    BY DEF NoDataRace
  <2>1. CASE phase = "forward"
    BY <2>1, ForwardNoRace
  <2>2. CASE phase = "backward"
    BY <2>2, BackwardNoRace
  <2>3. CASE phase \in {"returned", "diagonal"}
    <3>1. pc[s] \in {"idle", "done"}
      BY <2>3 DEF IndInv, BetweenInv
    <3> QED
      BY <2>3, <3>1 DEF Writes
  <2> QED
    BY <2>1, <2>2, <2>3 DEF IndInv, Control
<1> QED
  BY <1>1, IndInvHolds, PTL

\* Every solve, with tasks or with two sweeps, is a run of the abstract
\* triangular system: nothing is solved before what it depends on, nothing is
\* solved twice, and the call returns when everything is solved.
THEOREM SolvesInOrder == Spec => ImplementsTriangularSystem
<1>1. IndInv /\ [Next]_vars => [Abstract!AbsNext]_(Abstract!absVars)
  BY NextStep
<1>2. Init => Abstract!AbsInit
  BY InitHolds
<1> QED
  BY <1>1, <1>2, IndInvHolds, PTL
     DEF Spec, ImplementsTriangularSystem, Abstract!AbsSpec

-----------------------------------------------------------------------------
(***************************************************************************)
(* Groups.                                                                 *)
(***************************************************************************)
\* The recursion enters only what is below supernodes that are not serial.
GroupInv ==
    parallel /\ phase = "forward" =>
        /\ single => prepared
        /\ \A s \in Supernode : pc[s] # "idle" =>
              /\ \A a \in Ancestors[s] : ~ForwardSerial(a)
              /\ pc[s] = "serial" => ForwardSerial(s)

LEMMA GroupStart ==
    ASSUME StartSolve PROVE GroupInv'
<1>1. /\ parallel' /\ single' => prepared'
      /\ parallel' => pc' = [s \in Supernode |->
                                IF IsRoot(s) THEN "ready" ELSE "idle"]
  BY DEF StartSolve, RootsReady
<1>2. \A s \in Supernode : IsRoot(s) => Ancestors[s] = {}
  BY AncestorsAreClimbed DEF AncestorsClimb
<1> QED
  BY <1>1, <1>2 DEF GroupInv

LEMMA GroupSpawn ==
    ASSUME GroupInv, NEW s \in Supernode, ForwardSpawn(s)
    PROVE  GroupInv'
<1>1. /\ phase = "forward" /\ pc[s] = "ready" /\ ~ForwardSerial(s)
      /\ UNCHANGED <<parallel, phase, single, prepared>>
      /\ pc' = [t \in Supernode |-> IF t = s THEN "wait"
                                    ELSE IF t \in Children(s) THEN "ready"
                                    ELSE pc[t]]
  BY DEF ForwardSpawn, call
<1> SUFFICES ASSUME parallel, NEW t \in Supernode, pc'[t] # "idle"
             PROVE  /\ single => prepared
                    /\ \A a \in Ancestors[t] : ~ForwardSerial(a)
                    /\ pc'[t] = "serial" => ForwardSerial(t)
  BY <1>1 DEF GroupInv
<1>2. single => prepared
  BY <1>1 DEF GroupInv
<1>3. CASE t = s
  BY <1>1, <1>2, <1>3 DEF GroupInv
<1>4. CASE t # s /\ t \in Children(s)
  <2>1. Ancestors[t] = {s} \cup Ancestors[s]
    <3>1. Parent[t] = s /\ s # 0
      BY <1>4 DEF Children, Supernode
    <3>2. ~IsRoot(t)
      BY <3>1 DEF IsRoot
    <3> QED
      BY <3>1, <3>2, AncestorsAreClimbed DEF AncestorsClimb
  <2>2. pc'[t] = "ready"
    BY <1>1, <1>4
  <2> QED
    BY <1>1, <1>2, <2>1, <2>2 DEF GroupInv
<1>5. CASE t # s /\ t \notin Children(s)
  <2>1. pc'[t] = pc[t]
    BY <1>1, <1>5
  <2> QED
    BY <1>1, <1>2, <2>1 DEF GroupInv
<1> QED
  BY <1>3, <1>4, <1>5

LEMMA GroupFrame ==
    ASSUME Control, GroupInv, NEW s \in Supernode, phase = "forward",
           \/ ForwardMerge(s) \/ ForwardFinish(s) \/ ForwardSerialStart(s)
           \/ GroupStep(s) \/ ChainStep(s) \/ ForwardSerialDone(s)
    PROVE  GroupInv'
<1>1. /\ UNCHANGED <<parallel, phase, single, prepared>>
      /\ \/ pc' = pc
         \/ /\ pc[s] # "idle"
            /\ \E to : /\ pc' = [pc EXCEPT ![s] = to]
                       /\ to = "serial" => ForwardSerial(s)
  BY DEF ForwardMerge, ForwardFinish, ForwardSerialStart, GroupStep, ChainStep,
         ForwardSerialDone, Go, call
<1>2. ASSUME NEW t \in Supernode, pc'[t] # "idle"
      PROVE  /\ pc[t] # "idle"
             /\ pc'[t] = "serial" => pc[t] = "serial" \/ ForwardSerial(t)
  BY <1>1, <1>2 DEF Control
<1> QED
  BY <1>1, <1>2 DEF GroupInv

LEMMA GroupInvHolds == Spec => []GroupInv
<1>1. Init => GroupInv
  BY DEF Init, GroupInv
<1>2. ASSUME IndInv, GroupInv, [Next]_vars PROVE GroupInv'
  <2>1. CASE StartSolve
    BY <2>1, GroupStart
  <2>2. ASSUME NEW s \in Supernode, Frame(s) PROVE GroupInv'
    <3>1. CASE ForwardSpawn(s)
      BY <1>2, <3>1, GroupSpawn
    <3>2. CASE \/ ForwardMerge(s) \/ ForwardFinish(s) \/ ForwardSerialStart(s)
               \/ GroupStep(s) \/ ChainStep(s) \/ ForwardSerialDone(s)
      <4>1. phase = "forward"
        BY <3>2 DEF ForwardMerge, ForwardFinish, ForwardSerialStart, GroupStep,
                    ChainStep, ForwardSerialDone
      <4> QED
        BY <1>2, <3>2, <4>1, GroupFrame DEF IndInv
    <3>3. CASE \/ BackwardVisit(s) \/ BackwardSerialStep(s)
               \/ BackwardSerialDone(s)
      <4>1. phase' = "backward"
        BY <3>3 DEF BackwardVisit, BackwardSerialStep, BackwardSerialDone, call
      <4> QED
        BY <4>1 DEF GroupInv
    <3> QED
      BY <2>2, <3>1, <3>2, <3>3 DEF Frame
  <2>3. CASE ForwardSweep \/ BackwardSweep
    <3>1. ~parallel /\ parallel' = parallel
      BY <2>3 DEF ForwardSweep, BackwardSweep, call
    <3> QED
      BY <3>1 DEF GroupInv
  <2>4. CASE ForwardDone \/ DiagonalSolve \/ BackwardDone
    <3>1. phase' # "forward"
      BY <2>4 DEF ForwardDone, DiagonalSolve, BackwardDone
    <3> QED
      BY <3>1 DEF GroupInv
  <2>5. CASE UNCHANGED vars
    BY <1>2, <2>5 DEF vars, call, GroupInv
  <2> QED
    BY <1>2, <2>1, <2>2, <2>3, <2>4, <2>5 DEF Next, Driver, Terminated
<1> QED
  BY <1>1, <1>2, IndInvHolds, PTL DEF Spec

\* A serial subtree that is solved as a group was prepared as one, also in a
\* solve that follows others, and every row it does not keep has a place in
\* the boundary of its root.
THEOREM GroupsArePrepared == Spec => []GroupsPrepared
<1>1. ASSUME NEW s \in Supernode, NEW d \in SolveSubtree(s)
      PROVE  Structure[d] \ Owned(d, s) \subseteq Structure[s]
  <2> SUFFICES ASSUME NEW t \in Structure[d], t \notin Owned(d, s)
               PROVE  t \in Structure[s]
    OBVIOUS
  <2>1. d \in Supernode /\ t \in Supernode
    BY SubtreeFacts, StructureAbove
  <2>2. d = s \/ ~(t <= s)
    BY DEF Owned
  <2>3. CASE ~(t <= s)
    <3>1. t \notin SolveSubtree(s)
      BY <2>1, <2>3, Below DEF Supernode
    <3> QED
      BY <3>1, StructureInherited
  <2> QED
    BY <2>2, <2>3
<1>2. GroupInv => GroupsPrepared
  <2> SUFFICES ASSUME GroupInv, NEW s \in Supernode, phase = "forward",
                      parallel, single, pc[s] = "serial"
               PROVE  /\ prepared /\ s \in AccumulationRoots
                      /\ \A i \in solve_subtree_begin(s)..IndexOf(s) :
                            LET d == solve_postorder[i]
                            IN  Structure[d] \ Owned(d, s)
                                   \subseteq Structure[s]
    BY DEF GroupsPrepared
  <2>1. prepared /\ s \in AccumulationRoots
    BY DEF GroupInv, AccumulationRoots
  <2>2. \A i \in solve_subtree_begin(s)..IndexOf(s) :
           solve_postorder[i] \in SolveSubtree(s)
    BY SubtreeFacts
  <2> QED
    BY <1>1, <2>1, <2>2
<1> QED
  BY <1>2, GroupInvHolds, PTL

-----------------------------------------------------------------------------
(***************************************************************************)
(* Counting the updates.                                                   *)
(***************************************************************************)
Bit(b) == IF b THEN 1 ELSE 0

\* What updates t is solved in a group that adds the update directly.
Direct(t) ==
    /\ single
    /\ \E r \in Supernode : /\ ForwardSerial(r) /\ pc[r] # "idle"
                            /\ t \in SolveSubtree(r)

\* The buffer of s has the updates by its subtree.
Holds(s) ==
    \/ pc[s] \in {"finish", "done"}
    \/ single /\ pc[s] = "serial"
    \/ ~single /\ x[s] = "forward"

\* A subtree is serial, or its frame waits, as the thresholds say.
AsThresholds(s) ==
    /\ pc[s] \in {"wait", "finish"} => ~ForwardSerial(s)
    /\ pc[s] = "serial" => ForwardSerial(s)

\* With a supernode, everything below it has been solved.
Closed ==
    \A s \in Supernode :
        /\ x[s] \in {"given", "forward"}
        /\ x[s] = "forward" => \A d \in SolveSubtree(s) : x[d] = "forward"

RhsCount(u) ==
    rhs[u] = Bit(IF Direct(u[2]) THEN x[u[1]] = "forward"
                 ELSE pc[u[2]] = "finish" \/ x[u[2]] = "forward")

\* The buffer of s is told only for targets above s: what it once had for
\* others has no meaning any more.
BufferCount(s) ==
    Holds(s) =>
        \A u \in Update : u[2] \in Structure[s] =>
            buffer[s][u] = Bit(u[1] \in SolveSubtree(s) /\ x[u[1]] = "forward")

ForwardCounts ==
    /\ \A s \in Supernode : AsThresholds(s)
    /\ Closed
    /\ \A u \in Update : RhsCount(u)
    /\ \A s \in Supernode : BufferCount(s)

CountTypes ==
    /\ rhs \in [Update -> Nat]
    /\ buffer \in [Supernode -> [Update -> Nat]]

CountInv ==
    /\ CountTypes
    /\ phase = "forward" /\ parallel => ForwardCounts
    /\ phase = "forward" /\ ~parallel =>
          \A u \in Update : rhs[u] = Bit(x[u[1]] = "forward")
    /\ \/ phase \in {"diagonal", "backward"}
       \/ phase = "returned" /\ solves > 0
       => \A u \in Update : rhs[u] = 1

LEMMA UpdateFacts ==
    ASSUME NEW u \in Update
    PROVE  /\ u[1] \in Supernode /\ u[2] \in Supernode
           /\ u[2] \in Structure[u[1]]
           /\ u[1] \in SolveSubtree(u[2]) /\ u[1] # u[2]
<1>1. u[1] \in Supernode /\ u[2] \in Structure[u[1]]
  BY DEF Update
<1> QED
  BY <1>1, StructureAbove

\* What the children of s bring is, for s and for what s updates, one of each
\* update by what is below s.
LEMMA BroughtOnce ==
    ASSUME NEW s \in Supernode, NEW T, NEW u \in Update, u[2] \in T,
           u[2] = s \/ u[2] \in Structure[s],
           \A c \in Children(s) : u[2] \in Structure[c] =>
               buffer[c][u] = Bit(u[1] \in SolveSubtree(c))
    PROVE  Brought(Children(s), T)[u] = Bit(u[1] \in SolveSubtree(s) \ {s})
<1> DEFINE f == [c \in Children(s) |->
                    IF u[2] \in Structure[c] \cap T THEN buffer[c][u] ELSE 0]
<1>1. Brought(Children(s), T)[u] = SumOver(f, Children(s))
  BY DEF Brought
<1>2. /\ IsFiniteSet(Children(s))
      /\ \A c \in Children(s) :
            f[c] = IF u[2] \in Structure[c] THEN Bit(u[1] \in SolveSubtree(c))
                   ELSE 0
  BY FiniteForest
<1> HIDE DEF f
<1>3. /\ u[1] \in Supernode /\ u[2] \in Supernode /\ u[2] \in Structure[u[1]]
      /\ s \in SolveSubtree(u[2])
  BY UpdateFacts, StructureAbove, SubtreeFacts
<1>4. ASSUME NEW c \in Children(s)
      PROVE  /\ c \in Supernode /\ SolveSubtree(c) \subseteq SolveSubtree(s)
             /\ s \notin SolveSubtree(c) /\ u[2] \notin SolveSubtree(c)
  <2>1. /\ c \in Supernode /\ c # s /\ c \in SolveSubtree(s)
        /\ SolveSubtree(c) \subseteq SolveSubtree(s)
    BY ChildSubtree
  <2>2. s \notin SolveSubtree(c)
    <3> SUFFICES ASSUME s \in SolveSubtree(c) PROVE FALSE
      OBVIOUS
    <3>1. s < c /\ c < s
      BY <2>1, Below
    <3> QED
      BY <2>1, <3>1 DEF Supernode
  <2>3. u[2] \notin SolveSubtree(c)
    BY <1>3, <2>1, <2>2, SubtreeTransitive
  <2> QED
    BY <2>1, <2>2, <2>3
<1>5. CASE u[1] \in SolveSubtree(s) \ {s}
  <2>1. PICK c \in Children(s) : u[1] \in SolveSubtree(c)
    BY <1>5, ChildCover
  <2>2. u[2] \in Structure[c]
    BY <1>3, <1>4, <2>1, StructureInherited
  <2>3. f[c] = 1
    BY <1>2, <2>1, <2>2 DEF Bit
  <2>4. ASSUME NEW b \in Children(s) \ {c} PROVE u[1] \notin SolveSubtree(b)
    <3> SUFFICES ASSUME u[1] \in SolveSubtree(b) PROVE FALSE
      OBVIOUS
    <3>1. b \in SolveSubtree(c) \/ c \in SolveSubtree(b)
      BY <1>3, <1>4, <2>1, Laminar
    <3>2. Parent[b] = s /\ Parent[c] = s
      BY DEF Children
    <3> QED
      BY <1>4, <3>1, <3>2, ParentInSubtree
  <2>5. \A b \in Children(s) \ {c} : f[b] = 0
    BY <1>2, <2>4 DEF Bit
  <2>6. SumOver(f, Children(s)) = f[c]
    BY <1>2, <2>3, <2>5, SumOfOne
  <2> QED
    BY <1>1, <1>5, <2>3, <2>6 DEF Bit
<1>6. CASE u[1] \notin SolveSubtree(s) \ {s}
  <2>1. \A c \in Children(s) : f[c] = 0
    BY <1>2, <1>4, <1>6 DEF Bit
  <2>2. SumOver(f, Children(s)) = 0
    BY <1>2, <2>1, SumZero
  <2> QED
    BY <1>1, <1>6, <2>2 DEF Bit
<1> QED
  BY <1>5, <1>6

LEMMA BroughtNothing ==
    ASSUME NEW s, NEW T, NEW u \in Update, u[2] \notin T
    PROVE  Brought(Children(s), T)[u] = 0
<1> DEFINE f == [c \in Children(s) |->
                    IF u[2] \in Structure[c] \cap T THEN buffer[c][u] ELSE 0]
<1>1. Brought(Children(s), T)[u] = SumOver(f, Children(s))
  BY DEF Brought
<1>2. IsFiniteSet(Children(s)) /\ \A c \in Children(s) : f[c] = 0
  BY FiniteForest
<1> HIDE DEF f
<1> QED
  BY <1>1, <1>2, SumZero

LEMMA BroughtTyped ==
    ASSUME CountTypes, NEW s, NEW T
    PROVE  Brought(Children(s), T) \in [Update -> Nat]
<1> SUFFICES ASSUME NEW u \in Update PROVE Brought(Children(s), T)[u] \in Nat
  BY DEF Brought
<1> DEFINE f == [c \in Children(s) |->
                    IF u[2] \in Structure[c] \cap T THEN buffer[c][u] ELSE 0]
<1>1. Brought(Children(s), T)[u] = SumOver(f, Children(s))
  BY DEF Brought
<1>2. IsFiniteSet(Children(s)) /\ \A c \in Children(s) : f[c] \in Nat
  BY FiniteForest DEF CountTypes, Children
<1> HIDE DEF f
<1> QED
  BY <1>1, <1>2, SumNatural

LEMMA AddTyped ==
    ASSUME NEW f \in [Update -> Nat], NEW g \in [Update -> Nat]
    PROVE  /\ Add(f, g) \in [Update -> Nat]
           /\ \A u \in Update : Add(f, g)[u] = f[u] + g[u]
BY DEF Add

LEMMA OnceTyped ==
    ASSUME NEW S
    PROVE  /\ Once(S) \in [Update -> Nat]
           /\ \A u \in Update : Once(S)[u] = Bit(u \in S)
BY DEF Once, Bit

\* Inside a serial subtree that has been entered no frame but its root's works.
LEMMA SerialAlone ==
    ASSUME IndInv, parallel, phase = "forward", \A s \in Supernode : AsThresholds(s),
           NEW r \in Supernode, ForwardSerial(r), pc[r] # "idle",
           NEW s \in SolveSubtree(r), s # r
    PROVE  pc[s] \in {"idle", "done"}
<1>1. ForwardFrame(r) /\ AsThresholds(r) /\ Control
  BY DEF IndInv, TasksInv
<1>2. CASE pc[r] \in {"ready", "serial"}
  BY <1>1, <1>2 DEF ForwardFrame, Alone
<1>3. CASE pc[r] = "done"
  BY <1>1, <1>3 DEF ForwardFrame
<1> QED
  BY <1>1, <1>2, <1>3 DEF AsThresholds, Control

\* What a frame solves next is in no subtree with a complete buffer but its own.
LEMMA HeldOutside ==
    ASSUME IndInv, parallel, phase = "forward", Closed,
           NEW s \in Supernode, pc[s] \in {"finish", "serial"},
           NEW d \in SolveSubtree(s), d = s \/ Alone(s), x[d] = "given",
           NEW v \in Supernode, v # s, Holds(v)
    PROVE  d \notin SolveSubtree(v)
<1> SUFFICES ASSUME d \in SolveSubtree(v) PROVE FALSE
  OBVIOUS
<1>1. ForwardFrame(v) /\ \A c \in Children(v) : ForwardFrame(c) /\ c \in Supernode
  BY ChildSubtree DEF IndInv, TasksInv
<1>2. CASE x[v] = "forward"
  BY <1>2 DEF Closed
<1>3. CASE pc[v] = "done"
  BY <1>1, <1>3 DEF ForwardFrame
<1>4. CASE pc[v] = "finish"
  <2>1. d # v
    BY <1>4 DEF Alone
  <2>2. PICK c \in Children(v) : d \in SolveSubtree(c)
    BY <2>1, ChildCover
  <2> QED
    BY <1>1, <1>4, <2>2 DEF ForwardFrame
<1>5. CASE pc[v] = "serial"
  <2>1. Alone(v)
    BY <1>1, <1>5 DEF ForwardFrame
  <2> QED
    BY <1>5, <2>1, NotInside
<1> QED
  BY <1>2, <1>3, <1>4, <1>5 DEF Holds

LEMMA ClosedStep ==
    ASSUME Control, Closed, NEW d \in Supernode,
           \A e \in SolveSubtree(d) : e # d => x[e] = "forward",
           x' = [x EXCEPT ![d] = "forward"]
    PROVE  Closed'
<1>1. \A s \in Supernode : SolveSubtree(s) \subseteq Supernode
  BY SubtreeFacts
<1> QED
  BY <1>1 DEF Closed, Control

\* Steps of the forward substitution with tasks.
LEMMA InForwardCounts ==
    ASSUME parallel, phase = "forward", UNCHANGED <<parallel, phase>>,
           CountTypes', ForwardCounts'
    PROVE  CountInv'
BY DEF CountInv

LEMMA CountSpawn ==
    ASSUME IndInv, CountInv, parallel, NEW s \in Supernode, ForwardSpawn(s)
    PROVE  CountInv'
<1>1. /\ phase = "forward" /\ pc[s] = "ready" /\ ~ForwardSerial(s)
      /\ UNCHANGED <<parallel, phase, single, x, rhs, buffer>>
      /\ pc' = [t \in Supernode |-> IF t = s THEN "wait"
                                    ELSE IF t \in Children(s) THEN "ready"
                                    ELSE pc[t]]
  BY DEF ForwardSpawn, call, data
<1>2. /\ CountTypes /\ ForwardCounts /\ Control
      /\ \A t \in Supernode : ForwardFrame(t)
  BY <1>1 DEF CountInv, IndInv, TasksInv
<1>3. /\ SolveSubtree(s) \subseteq Supernode
      /\ Alone(s) /\ \A u \in SolveSubtree(s) : x[u] = "given"
      /\ \A c \in Children(s) :
            /\ c \in Supernode /\ c # s /\ pc[c] = "idle"
            /\ SolveSubtree(c) \subseteq SolveSubtree(s)
  BY <1>1, <1>2, SubtreeFacts, ChildSubtree DEF ForwardFrame, Alone
<1>4. ASSUME NEW t \in Supernode
      PROVE  /\ pc'[t] # pc[t] => pc[t] \in {"idle", "ready"}
             /\ pc'[t] # pc[t] => pc'[t] \in {"wait", "ready"}
             /\ pc'[t] = "wait" => pc[t] = "wait" \/ t = s
             /\ pc[t] # "idle" => pc'[t] # "idle"
             /\ pc'[t] # "idle" => pc[t] # "idle" \/ t \in Children(s)
  BY <1>1, <1>3
<1>5. \A t \in Supernode : AsThresholds(t)'
  BY <1>1, <1>2, <1>4 DEF ForwardCounts, AsThresholds, ForwardSerial
<1>6. \A t \in Supernode : BufferCount(t)'
  BY <1>1, <1>2, <1>4 DEF ForwardCounts, BufferCount, Holds
<1>7. ASSUME NEW u \in Update PROVE RhsCount(u)'
  <2>1. /\ u[1] \in Supernode /\ u[2] \in Supernode
        /\ u[1] \in SolveSubtree(u[2]) /\ RhsCount(u)
    BY <1>2, UpdateFacts DEF ForwardCounts
  <2>2. pc'[u[2]] = "finish" <=> pc[u[2]] = "finish"
    BY <1>4, <2>1
  <2>3. Direct(u[2]) => Direct(u[2])'
    BY <1>1, <1>4 DEF Direct, ForwardSerial
  <2>4. CASE Direct(u[2]) \/ ~Direct(u[2])'
    BY <1>1, <2>1, <2>2, <2>3, <2>4 DEF RhsCount
  <2>5. CASE ~Direct(u[2]) /\ Direct(u[2])'
    <3>1. PICK c \in Children(s) : u[2] \in SolveSubtree(c)
      BY <1>1, <1>4, <2>5 DEF Direct, ForwardSerial
    <3>2. u[2] \in SolveSubtree(s) /\ u[1] \in SolveSubtree(s)
      BY <1>3, <2>1, <3>1, SubtreeTransitive
    <3>3. x[u[1]] = "given" /\ x[u[2]] = "given" /\ pc[u[2]] # "finish"
      BY <1>1, <1>3, <3>2 DEF Alone
    <3> QED
      BY <1>1, <2>1, <2>2, <3>3 DEF RhsCount
  <2> QED
    BY <2>4, <2>5
<1>8. CountTypes' /\ ForwardCounts'
  BY <1>1, <1>2, <1>5, <1>6, <1>7 DEF CountTypes, ForwardCounts, Closed
<1> QED
  BY <1>1, <1>8, InForwardCounts

\* Where a frame moves on by itself.
LEMMA MovedOn ==
    ASSUME Control, NEW s \in Supernode, pc[s] # "idle",
           NEW to, to # "idle", pc' = [pc EXCEPT ![s] = to], single' = single
    PROVE  /\ pc'[s] = to /\ \A t \in Supernode : t # s => pc'[t] = pc[t]
           /\ \A t \in Supernode : Direct(t)' <=> Direct(t)
<1>1. pc'[s] = to /\ \A t \in Supernode : t # s => pc'[t] = pc[t]
  BY DEF Control
<1>2. \A t \in Supernode : pc'[t] # "idle" <=> pc[t] # "idle"
  BY <1>1
<1> QED
  BY <1>1, <1>2 DEF Direct, ForwardSerial

LEMMA CountMerge ==
    ASSUME IndInv, CountInv, parallel, NEW s \in Supernode, ForwardMerge(s)
    PROVE  CountInv'
<1>1. /\ phase = "forward" /\ pc[s] = "wait"
      /\ pc' = [pc EXCEPT ![s] = "finish"]
      /\ \A c \in Children(s) : pc[c] = "done"
      /\ UNCHANGED <<parallel, phase, single, x>>
      /\ rhs' = Add(rhs, ForParent(s))
      /\ buffer' = [buffer EXCEPT ![s] = ForBuffer(s)]
  BY DEF ForwardMerge, Go, call
<1>2. /\ CountTypes /\ ForwardCounts /\ Control
      /\ \A t \in Supernode : ForwardFrame(t)
  BY <1>1 DEF CountInv, IndInv, TasksInv
<1>3. /\ SolveSubtree(s) \subseteq Supernode /\ s \in SolveSubtree(s)
      /\ x[s] = "given" /\ AsThresholds(s) /\ ~ForwardSerial(s)
  BY <1>1, <1>2, SubtreeFacts DEF ForwardFrame, ForwardCounts, AsThresholds
<1>4. \A e \in SolveSubtree(s) : e # s => x[e] = "forward"
  <2> SUFFICES ASSUME NEW e \in SolveSubtree(s), e # s PROVE x[e] = "forward"
    OBVIOUS
  <2>1. PICK c \in Children(s) : e \in SolveSubtree(c)
    BY ChildCover
  <2> QED
    BY <1>1, <1>2, <2>1, ChildSubtree DEF ForwardFrame
<1>5. \A c \in Children(s), u \in Update : u[2] \in Structure[c] =>
         buffer[c][u] = Bit(u[1] \in SolveSubtree(c))
  <2> SUFFICES ASSUME NEW c \in Children(s), NEW u \in Update,
                      u[2] \in Structure[c]
               PROVE  buffer[c][u] = Bit(u[1] \in SolveSubtree(c))
    OBVIOUS
  <2>1. c \in Supernode /\ BufferCount(c) /\ Holds(c) /\ ForwardFrame(c)
    BY <1>1, <1>2, ChildSubtree DEF ForwardCounts, Holds
  <2>2. buffer[c][u] = Bit(u[1] \in SolveSubtree(c) /\ x[u[1]] = "forward")
    BY <2>1 DEF BufferCount
  <2>3. \A e \in SolveSubtree(c) : x[e] = "forward"
    BY <1>1, <2>1 DEF ForwardFrame
  <2> QED
    BY <2>2, <2>3 DEF Bit
<1>6. /\ pc'[s] = "finish" /\ \A t \in Supernode : t # s => pc'[t] = pc[t]
      /\ \A t \in Supernode : Direct(t)' <=> Direct(t)
  BY <1>1, <1>2, MovedOn
<1>7. ~Direct(s)
  <2> SUFFICES ASSUME NEW r \in Supernode, ForwardSerial(r), pc[r] # "idle",
                      s \in SolveSubtree(r)
               PROVE  FALSE
    BY DEF Direct
  <2>1. r # s
    BY <1>3
  <2> QED
    BY <1>1, <1>2, <2>1, SerialAlone DEF ForwardCounts
<1>8. CountTypes'
  <2>1. ForParent(s) \in [Update -> Nat] /\ ForBuffer(s) \in [Update -> Nat]
    BY <1>2, BroughtTyped DEF ForParent, ForBuffer
  <2> QED
    BY <1>1, <1>2, <2>1, AddTyped DEF CountTypes
<1>9. ASSUME NEW u \in Update PROVE RhsCount(u)'
  <2>1. /\ u[1] \in Supernode /\ u[2] \in Supernode /\ u[1] # u[2]
        /\ u[1] \in SolveSubtree(u[2]) /\ RhsCount(u) /\ rhs[u] \in Nat
    BY <1>2, UpdateFacts DEF ForwardCounts, CountTypes
  <2>2. rhs'[u] = rhs[u] + ForParent(s)[u]
    BY <1>1 DEF Add
  <2>3. CASE u[2] = s
    <3>1. ForParent(s)[u] = 1
      BY <1>5, <2>1, <2>3, BroughtOnce DEF ForParent, Bit
    <3>2. rhs[u] = 0
      BY <1>1, <1>3, <1>7, <2>1, <2>3 DEF RhsCount, Bit
    <3> QED
      BY <1>6, <1>7, <2>2, <2>3, <3>1, <3>2 DEF RhsCount, Bit
  <2>4. CASE u[2] # s
    <3>1. ForParent(s)[u] = 0
      BY <2>4, BroughtNothing DEF ForParent
    <3>2. rhs'[u] = rhs[u] /\ pc'[u[2]] = pc[u[2]]
          /\ (Direct(u[2])' <=> Direct(u[2]))
      BY <1>6, <2>1, <2>2, <2>4, <3>1
    <3> QED
      BY <1>1, <2>1, <3>2 DEF RhsCount
  <2> QED
    BY <2>3, <2>4
<1>10. ASSUME NEW v \in Supernode PROVE BufferCount(v)'
  <2>1. CASE v = s
    <3>1. ASSUME NEW u \in Update, u[2] \in Structure[s]
          PROVE  buffer'[s][u] = Bit(u[1] \in SolveSubtree(s) /\ x[u[1]] = "forward")
      <4>1. u[2] \in Supernode /\ u[2] # s
        BY <3>1, StructureAbove
      <4>2. buffer'[s][u] = ForBuffer(s)[u]
        BY <1>1, <1>2 DEF CountTypes
      <4>3. ForBuffer(s)[u] = Bit(u[1] \in SolveSubtree(s) \ {s})
        BY <1>5, <3>1, <4>1, BroughtOnce DEF ForBuffer
      <4>4. u[1] \in SolveSubtree(s) \ {s}
               <=> u[1] \in SolveSubtree(s) /\ x[u[1]] = "forward"
        BY <1>3, <1>4
      <4> QED
        BY <4>2, <4>3, <4>4 DEF Bit
    <3> QED
      BY <1>1, <2>1, <3>1 DEF BufferCount
  <2>2. CASE v # s
    <3>1. buffer'[v] = buffer[v] /\ pc'[v] = pc[v] /\ BufferCount(v)
      BY <1>1, <1>2, <1>6, <2>2 DEF CountTypes, ForwardCounts
    <3> QED
      BY <1>1, <3>1 DEF BufferCount, Holds
  <2> QED
    BY <2>1, <2>2
<1>11. \A t \in Supernode : AsThresholds(t)'
  BY <1>1, <1>2, <1>3, <1>6 DEF ForwardCounts, AsThresholds, ForwardSerial
<1>12. Closed'
  BY <1>1, <1>2 DEF ForwardCounts, Closed
<1> QED
  BY <1>1, <1>8, <1>9, <1>10, <1>11, <1>12, InForwardCounts DEF ForwardCounts

LEMMA CountFinish ==
    ASSUME IndInv, CountInv, parallel, NEW s \in Supernode, ForwardFinish(s)
    PROVE  CountInv'
<1>1. /\ phase = "forward" /\ pc[s] = "finish"
      /\ pc' = [pc EXCEPT ![s] = "done"]
      /\ x' = [x EXCEPT ![s] = "forward"]
      /\ UNCHANGED <<parallel, phase, single, rhs>>
      /\ buffer' = [buffer EXCEPT ![s] = Add(@, Once(UpdatesOf(s)))]
  BY DEF ForwardFinish, Go, call
<1>2. /\ CountTypes /\ ForwardCounts /\ Control
      /\ \A t \in Supernode : ForwardFrame(t)
  BY <1>1 DEF CountInv, IndInv, TasksInv
<1>3. /\ SolveSubtree(s) \subseteq Supernode /\ s \in SolveSubtree(s)
      /\ x[s] = "given" /\ AsThresholds(s) /\ ~ForwardSerial(s) /\ Closed
  BY <1>1, <1>2, SubtreeFacts DEF ForwardFrame, ForwardCounts, AsThresholds
<1>4. \A e \in SolveSubtree(s) : e # s => x[e] = "forward"
  <2> SUFFICES ASSUME NEW e \in SolveSubtree(s), e # s PROVE x[e] = "forward"
    OBVIOUS
  <2>1. PICK c \in Children(s) : e \in SolveSubtree(c)
    BY ChildCover
  <2>2. ForwardFrame(c) /\ pc[c] = "done"
    BY <1>1, <1>2, ChildSubtree DEF ForwardFrame
  <2> QED
    BY <2>1, <2>2 DEF ForwardFrame
<1>5. /\ x'[s] = "forward" /\ \A t \in Supernode : t # s => x'[t] = x[t]
      /\ pc'[s] = "done" /\ \A t \in Supernode : t # s => pc'[t] = pc[t]
      /\ \A t \in Supernode : Direct(t)' <=> Direct(t)
  <2>1. x'[s] = "forward" /\ \A t \in Supernode : t # s => x'[t] = x[t]
    BY <1>1, <1>2 DEF Control
  <2> QED
    BY <1>1, <1>2, <2>1, MovedOn
<1>6. \A t \in Supernode : s \in SolveSubtree(t) => ~Direct(t)
  <2> SUFFICES ASSUME NEW t \in Supernode, s \in SolveSubtree(t),
                      NEW r \in Supernode, ForwardSerial(r), pc[r] # "idle",
                      t \in SolveSubtree(r)
               PROVE  FALSE
    BY DEF Direct
  <2>1. s \in SolveSubtree(r) /\ r # s
    BY <1>3, SubtreeTransitive
  <2> QED
    BY <1>1, <1>2, <2>1, SerialAlone DEF ForwardCounts
<1>7. CountTypes'
  <2>1. Once(UpdatesOf(s)) \in [Update -> Nat] /\ buffer[s] \in [Update -> Nat]
    BY <1>2, OnceTyped DEF CountTypes
  <2> QED
    BY <1>1, <1>2, <2>1, AddTyped DEF CountTypes
<1>8. ASSUME NEW u \in Update PROVE RhsCount(u)'
  <2>1. /\ u[1] \in Supernode /\ u[2] \in Supernode /\ u[1] # u[2]
        /\ u[1] \in SolveSubtree(u[2]) /\ RhsCount(u)
    BY <1>2, UpdateFacts DEF ForwardCounts
  <2>2. CASE u[2] = s
    <3>1. ~Direct(s) /\ rhs[u] = 1
      BY <1>1, <1>3, <1>6, <2>1, <2>2 DEF RhsCount, Bit
    <3> QED
      BY <1>1, <1>5, <2>2, <3>1 DEF RhsCount, Bit
  <2>3. CASE u[2] # s
    <3>1. pc'[u[2]] = pc[u[2]] /\ x'[u[2]] = x[u[2]]
          /\ (Direct(u[2])' <=> Direct(u[2]))
      BY <1>5, <2>1, <2>3
    <3>2. Direct(u[2]) => x'[u[1]] = x[u[1]]
      BY <1>5, <1>6, <2>1
    <3> QED
      BY <1>1, <2>1, <3>1, <3>2 DEF RhsCount
  <2> QED
    BY <2>2, <2>3
<1>9. ASSUME NEW v \in Supernode PROVE BufferCount(v)'
  <2>1. CASE v = s
    <3>1. BufferCount(s) /\ Holds(s)
      BY <1>1, <1>2 DEF ForwardCounts, Holds
    <3>2. ASSUME NEW u \in Update, u[2] \in Structure[s]
          PROVE  buffer'[s][u] = Bit(u[1] \in SolveSubtree(s) /\ x'[u[1]] = "forward")
      <4>1. buffer[s][u] = Bit(u[1] \in SolveSubtree(s) /\ x[u[1]] = "forward")
        BY <3>1, <3>2 DEF BufferCount
      <4>2. buffer'[s][u] = buffer[s][u] + Bit(u[1] = s)
        <5>1. u \in UpdatesOf(s) <=> u[1] = s
          BY DEF UpdatesOf
        <5>2. buffer'[s] = Add(buffer[s], Once(UpdatesOf(s)))
          BY <1>1, <1>2 DEF CountTypes
        <5> QED
          BY <5>1, <5>2 DEF Add, Once, Bit
      <4> QED
        BY <1>3, <1>5, <4>1, <4>2 DEF Bit
    <3> QED
      BY <2>1, <3>2 DEF BufferCount
  <2>2. CASE v # s
    <3>1. buffer'[v] = buffer[v] /\ pc'[v] = pc[v] /\ BufferCount(v)
      BY <1>1, <1>2, <1>5, <2>2 DEF CountTypes, ForwardCounts
    <3>2. Holds(v)' <=> Holds(v)
      BY <1>1, <1>5, <2>2, <3>1 DEF Holds
    <3>3. Holds(v) => \A e \in SolveSubtree(v) : x'[e] = x[e]
      <4> SUFFICES ASSUME Holds(v) PROVE \A e \in SolveSubtree(v) : x'[e] = x[e]
        OBVIOUS
      <4>1. s \notin SolveSubtree(v)
        BY <1>1, <1>2, <1>3, <2>2, HeldOutside
      <4> QED
        BY <1>5, <4>1, SubtreeFacts
    <3> QED
      BY <3>1, <3>2, <3>3 DEF BufferCount, Bit
  <2> QED
    BY <2>1, <2>2
<1>10. \A t \in Supernode : AsThresholds(t)'
  BY <1>1, <1>2, <1>5 DEF ForwardCounts, AsThresholds, ForwardSerial
<1>11. Closed'
  BY <1>1, <1>2, <1>3, <1>4, ClosedStep
<1> QED
  BY <1>1, <1>7, <1>8, <1>9, <1>10, <1>11, InForwardCounts DEF ForwardCounts

LEMMA CountSerialStart ==
    ASSUME IndInv, CountInv, parallel, NEW s \in Supernode, ForwardSerialStart(s)
    PROVE  CountInv'
<1>1. /\ phase = "forward" /\ pc[s] = "ready" /\ ForwardSerial(s)
      /\ pc' = [pc EXCEPT ![s] = "serial"]
      /\ UNCHANGED <<parallel, phase, single, x, rhs>>
      /\ buffer' = IF single THEN [buffer EXCEPT ![s] = NoUpdates] ELSE buffer
  BY DEF ForwardSerialStart, Go, call
<1>2. /\ CountTypes /\ ForwardCounts /\ Control /\ ForwardFrame(s)
  BY <1>1 DEF CountInv, IndInv, TasksInv
<1>3. \A e \in SolveSubtree(s) : x[e] = "given"
  BY <1>1, <1>2 DEF ForwardFrame
<1>4. /\ pc'[s] = "serial" /\ \A t \in Supernode : t # s => pc'[t] = pc[t]
      /\ \A t \in Supernode : Direct(t)' <=> Direct(t)
  BY <1>1, <1>2, MovedOn
<1>5. /\ CountTypes'
      /\ \A v \in Supernode : v # s => buffer'[v] = buffer[v]
      /\ single => \A u \in Update : buffer'[s][u] = 0
  <2>1. NoUpdates \in [Update -> Nat] /\ \A u \in Update : NoUpdates[u] = 0
    BY DEF NoUpdates
  <2> QED
    BY <1>1, <1>2, <2>1 DEF CountTypes
<1>6. ASSUME NEW u \in Update PROVE RhsCount(u)'
  <2>1. u[2] \in Supernode /\ RhsCount(u)
    BY <1>2, UpdateFacts DEF ForwardCounts
  <2>2. pc'[u[2]] = "finish" <=> pc[u[2]] = "finish"
    BY <1>1, <1>4, <2>1
  <2> QED
    BY <1>1, <1>4, <2>1, <2>2 DEF RhsCount
<1>7. ASSUME NEW v \in Supernode PROVE BufferCount(v)'
  <2>1. CASE v = s
    <3>1. Holds(s)' => single
      BY <1>1, <1>3, <1>4, SubtreeFacts DEF Holds
    <3> QED
      BY <1>1, <1>3, <1>5, <2>1, <3>1 DEF BufferCount, Bit
  <2>2. CASE v # s
    <3>1. BufferCount(v) /\ (Holds(v)' <=> Holds(v))
      BY <1>1, <1>2, <1>4, <2>2 DEF ForwardCounts, Holds
    <3> QED
      BY <1>1, <1>5, <2>2, <3>1 DEF BufferCount
  <2> QED
    BY <2>1, <2>2
<1>8. \A t \in Supernode : AsThresholds(t)'
  BY <1>1, <1>2, <1>4 DEF ForwardCounts, AsThresholds, ForwardSerial
<1>9. Closed'
  BY <1>1, <1>2 DEF ForwardCounts, Closed
<1> QED
  BY <1>1, <1>5, <1>6, <1>7, <1>8, <1>9, InForwardCounts DEF ForwardCounts

LEMMA CountSerialDone ==
    ASSUME IndInv, CountInv, parallel, NEW s \in Supernode, ForwardSerialDone(s)
    PROVE  CountInv'
<1>1. /\ phase = "forward" /\ pc[s] = "serial" /\ at[s] = solve_subtree_end(s)
      /\ pc' = [pc EXCEPT ![s] = "done"]
      /\ UNCHANGED <<parallel, phase, single, x, rhs, buffer>>
  BY DEF ForwardSerialDone, Go, call, data
<1>2. /\ CountTypes /\ ForwardCounts /\ Control /\ ForwardFrame(s)
  BY <1>1 DEF CountInv, IndInv, TasksInv
<1>3. x[s] = "forward"
  <2>1. s \in SolveSubtree(s) /\ IndexOf(s) < at[s]
    BY <1>1, SubtreeFacts DEF solve_subtree_end
  <2> QED
    BY <1>1, <1>2, <2>1 DEF ForwardFrame
<1>4. /\ pc'[s] = "done" /\ \A t \in Supernode : t # s => pc'[t] = pc[t]
      /\ \A t \in Supernode : Direct(t)' <=> Direct(t)
  BY <1>1, <1>2, MovedOn
<1>5. ASSUME NEW u \in Update PROVE RhsCount(u)'
  <2>1. u[2] \in Supernode /\ RhsCount(u)
    BY <1>2, UpdateFacts DEF ForwardCounts
  <2>2. pc'[u[2]] = "finish" <=> pc[u[2]] = "finish"
    BY <1>1, <1>4, <2>1
  <2> QED
    BY <1>1, <1>4, <2>1, <2>2 DEF RhsCount
<1>6. ASSUME NEW v \in Supernode PROVE BufferCount(v)'
  <2>1. Holds(v)' => Holds(v)
    BY <1>1, <1>3, <1>4 DEF Holds
  <2>2. BufferCount(v)
    BY <1>2 DEF ForwardCounts
  <2> QED
    BY <1>1, <2>1, <2>2 DEF BufferCount
<1>7. \A t \in Supernode : AsThresholds(t)'
  BY <1>1, <1>2, <1>4 DEF ForwardCounts, AsThresholds, ForwardSerial
<1>8. Closed' /\ CountTypes'
  BY <1>1, <1>2 DEF ForwardCounts, Closed, CountTypes
<1> QED
  BY <1>1, <1>5, <1>6, <1>7, <1>8, InForwardCounts DEF ForwardCounts

\* The supernode that a serial loop solves next.
LEMMA SerialNext ==
    ASSUME IndInv, parallel, phase = "forward", NEW s \in Supernode,
           pc[s] = "serial", at[s] < solve_subtree_end(s),
           NEW d, d = solve_postorder[at[s]]
    PROVE  /\ Alone(s) /\ d \in SolveSubtree(s) /\ d \in Supernode
           /\ x[d] = "given"
           /\ \A e \in SolveSubtree(d) : e # d => x[e] = "forward"
           /\ at[s] \in 1..NumSupernodes
<1>1. ForwardFrame(s) /\ Control
  BY DEF IndInv, TasksInv
<1>2. /\ SolveSubtree(s) \subseteq Supernode /\ s \in SolveSubtree(s)
      /\ solve_subtree_begin(s) \in Nat /\ IndexOf(s) \in Nat
      /\ \A u \in SolveSubtree(s) : IndexOf(u) \in Nat
  BY SubtreeFacts
<1>3. /\ Alone(s)
      /\ at[s] \in solve_subtree_begin(s)..IndexOf(s)
      /\ \A u \in SolveSubtree(s) :
            x[u] = IF IndexOf(u) < at[s] THEN "forward" ELSE "given"
  BY <1>1, <1>2 DEF ForwardFrame, solve_subtree_end
<1>4. d \in SolveSubtree(s) /\ d \in Supernode /\ IndexOf(d) = at[s]
  BY <1>2, <1>3, SubtreeFacts
<1>5. x[d] = "given"
  BY <1>2, <1>3, <1>4
<1>6. ASSUME NEW e \in SolveSubtree(d), e # d PROVE x[e] = "forward"
  <2>1. e \in SolveSubtree(s)
    BY <1>4, SubtreeTransitive
  <2>2. IndexOf(e) < IndexOf(d)
    BY <1>4, <1>6, Below
  <2> QED
    BY <1>3, <1>4, <2>1, <2>2
<1>7. at[s] \in 1..NumSupernodes
  BY <1>4 DEF TraversalIsPostorder
<1> QED
  BY <1>3, <1>4, <1>5, <1>6, <1>7

\* Of what a supernode of a group updates, the group owns what is inside.
LEMMA OwnedIsInside ==
    ASSUME NEW s \in Supernode, NEW d \in SolveSubtree(s), NEW t \in Structure[d]
    PROVE  t \in Owned(d, s) <=> t \in SolveSubtree(s)
<1>1. /\ d \in Supernode /\ t \in Supernode /\ d \in SolveSubtree(t) /\ d # t
      /\ SolveSubtree(s) \subseteq Supernode
  BY SubtreeFacts, StructureAbove
<1>2. t \in Owned(d, s) => t \in SolveSubtree(s)
  BY OwnedInside
<1>3. ASSUME t \in SolveSubtree(s) PROVE t \in Owned(d, s)
  <2>1. t <= s
    BY <1>1, <1>3, Below DEF Supernode
  <2>2. d # s
    <3> SUFFICES ASSUME d = s PROVE FALSE
      OBVIOUS
    <3>1. d < t /\ t < d
      BY <1>1, <1>3, Below
    <3> QED
      BY <1>1, <3>1 DEF Supernode
  <2> QED
    BY <2>1, <2>2 DEF Owned
<1> QED
  BY <1>2, <1>3

\* Nothing that a frame at work solves updates directly what is outside.
LEMMA DirectInside ==
    ASSUME IndInv, parallel, phase = "forward", \A v \in Supernode : AsThresholds(v),
           NEW s \in Supernode, pc[s] = "serial",
           NEW d \in SolveSubtree(s), NEW t \in Supernode, d \in SolveSubtree(t)
    PROVE  Direct(t) <=> single /\ t \in SolveSubtree(s)
<1>1. ForwardSerial(s) /\ d \in Supernode
  BY SubtreeFacts DEF AsThresholds
<1>2. ASSUME NEW r \in Supernode, ForwardSerial(r), pc[r] # "idle",
             t \in SolveSubtree(r)
      PROVE  t \in SolveSubtree(s)
  <2>1. d \in SolveSubtree(r)
    BY <1>2, SubtreeTransitive
  <2>2. s \in SolveSubtree(r) \/ r \in SolveSubtree(s)
    BY <1>1, <2>1, Laminar
  <2>3. s \in SolveSubtree(r) => s = r
    BY <1>2, SerialAlone
  <2> QED
    BY <1>2, <2>2, <2>3, SubtreeTransitive
<1> QED
  BY <1>1, <1>2 DEF Direct

LEMMA CountGroup ==
    ASSUME IndInv, CountInv, parallel, NEW s \in Supernode, GroupStep(s)
    PROVE  CountInv'
<1> DEFINE d == solve_postorder[at[s]]
           owned == {u \in UpdatesOf(d) : u[2] \in Owned(d, s)}
<1>1. /\ phase = "forward" /\ single /\ pc[s] = "serial"
      /\ at[s] < solve_subtree_end(s)
      /\ x' = [x EXCEPT ![d] = "forward"]
      /\ UNCHANGED <<parallel, phase, single, pc>>
      /\ rhs' = Add(rhs, Once(owned))
      /\ buffer' = [buffer EXCEPT ![s] = Add(@, Once(UpdatesOf(d) \ owned))]
  BY DEF GroupStep, call
<1>2. /\ CountTypes /\ ForwardCounts /\ Control /\ Closed
      /\ \A v \in Supernode : AsThresholds(v)
  BY <1>1 DEF CountInv, ForwardCounts, IndInv
<1>3. /\ Alone(s) /\ d \in SolveSubtree(s) /\ d \in Supernode /\ x[d] = "given"
      /\ \A e \in SolveSubtree(d) : e # d => x[e] = "forward"
  BY <1>1, SerialNext
<1>4. \A u \in Update : u \in owned <=> u[1] = d /\ u[2] \in SolveSubtree(s)
  <2> SUFFICES ASSUME NEW u \in Update, u[1] = d
               PROVE  u[2] \in Owned(d, s) <=> u[2] \in SolveSubtree(s)
    BY DEF UpdatesOf
  <2> QED
    BY <1>3, UpdateFacts, OwnedIsInside
<1>5. \A u \in Update : u \in UpdatesOf(d) \ owned
                           <=> u[1] = d /\ u[2] \notin SolveSubtree(s)
  BY <1>4 DEF UpdatesOf
<1> HIDE DEF d, owned
<1>6. x'[d] = "forward" /\ \A t \in Supernode : t # d => x'[t] = x[t]
  BY <1>1, <1>2, <1>3 DEF Control
<1>7. \A t \in Supernode : Direct(t)' <=> Direct(t)
  BY <1>1 DEF Direct, ForwardSerial
<1>8. CountTypes'
  <2>1. /\ Once(owned) \in [Update -> Nat]
        /\ Once(UpdatesOf(d) \ owned) \in [Update -> Nat]
        /\ buffer[s] \in [Update -> Nat]
    BY <1>2, OnceTyped DEF CountTypes
  <2> QED
    BY <1>1, <1>2, <2>1, AddTyped DEF CountTypes
<1>9. ASSUME NEW u \in Update PROVE RhsCount(u)'
  <2>1. /\ u[1] \in Supernode /\ u[2] \in Supernode /\ u[1] # u[2]
        /\ u[1] \in SolveSubtree(u[2]) /\ RhsCount(u) /\ rhs[u] \in Nat
    BY <1>2, UpdateFacts DEF ForwardCounts, CountTypes
  <2>2. rhs'[u] = rhs[u] + Bit(u[1] = d /\ u[2] \in SolveSubtree(s))
    BY <1>1, <1>4 DEF Add, Once, Bit
  <2>3. CASE u[1] = d
    <3>1. Direct(u[2]) <=> u[2] \in SolveSubtree(s)
      BY <1>1, <1>2, <1>3, <2>1, <2>3, DirectInside
    <3>2. x'[u[2]] = x[u[2]]
      BY <1>6, <2>1, <2>3
    <3> QED
      BY <1>1, <1>3, <1>6, <1>7, <2>1, <2>2, <2>3, <3>1, <3>2
         DEF RhsCount, Bit
  <2>4. CASE u[1] # d
    <3>1. rhs'[u] = rhs[u] /\ x'[u[1]] = x[u[1]]
      BY <1>6, <2>1, <2>2, <2>4 DEF Bit
    <3>2. u[2] = d => Direct(u[2])
      <4>1. d \in SolveSubtree(d)
        BY <1>3, SubtreeFacts
      <4> QED
        BY <1>1, <1>2, <1>3, <4>1, DirectInside
    <3>3. ~Direct(u[2]) => x'[u[2]] = x[u[2]]
      BY <1>6, <2>1, <3>2
    <3> QED
      BY <1>1, <1>7, <2>1, <3>1, <3>3 DEF RhsCount
  <2> QED
    BY <2>3, <2>4
<1>10. ASSUME NEW v \in Supernode PROVE BufferCount(v)'
  <2>1. Holds(v)' <=> Holds(v)
    BY <1>1 DEF Holds
  <2>2. BufferCount(v)
    BY <1>2 DEF ForwardCounts
  <2>3. CASE v = s
    <3>1. Holds(s)
      BY <1>1 DEF Holds
    <3>2. ASSUME NEW u \in Update, u[2] \in Structure[s]
          PROVE  buffer'[s][u] = Bit(u[1] \in SolveSubtree(s) /\ x'[u[1]] = "forward")
      <4>1. buffer[s][u] = Bit(u[1] \in SolveSubtree(s) /\ x[u[1]] = "forward")
        BY <2>2, <2>3, <3>1, <3>2 DEF BufferCount
      <4>2. u[2] \notin SolveSubtree(s) /\ u[1] \in Supernode
        <5> SUFFICES ASSUME u[2] \in SolveSubtree(s) PROVE FALSE
          BY UpdateFacts
        <5>1. u[2] \in Supernode /\ s \in SolveSubtree(u[2]) /\ s # u[2]
          BY <3>2, StructureAbove
        <5>2. s < u[2] /\ u[2] < s
          BY <5>1, Below
        <5> QED
          BY <5>1, <5>2 DEF Supernode
      <4>3. buffer'[s] = Add(buffer[s], Once(UpdatesOf(d) \ owned))
        BY <1>1, <1>2 DEF CountTypes
      <4>4. buffer'[s][u] = buffer[s][u] + Bit(u[1] = d)
        BY <1>5, <4>2, <4>3 DEF Add, Once, Bit
      <4> QED
        BY <1>3, <1>6, <4>1, <4>2, <4>4 DEF Bit
    <3> QED
      BY <1>1, <2>3, <3>2 DEF BufferCount
  <2>4. CASE v # s
    <3>1. buffer'[v] = buffer[v]
      BY <1>1, <1>2, <2>4 DEF CountTypes
    <3>2. Holds(v) => \A e \in SolveSubtree(v) : x'[e] = x[e]
      <4> SUFFICES ASSUME Holds(v) PROVE \A e \in SolveSubtree(v) : x'[e] = x[e]
        OBVIOUS
      <4>1. d \notin SolveSubtree(v)
        BY <1>1, <1>2, <1>3, <2>4, HeldOutside
      <4> QED
        BY <1>6, <4>1, SubtreeFacts
    <3> QED
      BY <2>1, <2>2, <3>1, <3>2 DEF BufferCount, Bit
  <2> QED
    BY <2>3, <2>4
<1>11. \A t \in Supernode : AsThresholds(t)'
  BY <1>1, <1>2 DEF AsThresholds, ForwardSerial
<1>12. Closed'
  BY <1>1, <1>2, <1>3, ClosedStep
<1> QED
  BY <1>1, <1>8, <1>9, <1>10, <1>11, <1>12, InForwardCounts DEF ForwardCounts

LEMMA CountChain ==
    ASSUME IndInv, CountInv, parallel, NEW s \in Supernode, ChainStep(s)
    PROVE  CountInv'
<1> DEFINE d == solve_postorder[at[s]]
<1>1. /\ phase = "forward" /\ ~single /\ pc[s] = "serial"
      /\ at[s] < solve_subtree_end(s)
      /\ x' = [x EXCEPT ![d] = "forward"]
      /\ UNCHANGED <<parallel, phase, single, pc>>
      /\ rhs' = Add(rhs, ForParent(d))
      /\ buffer' = [buffer EXCEPT ![d] = Add(ForBuffer(d), Once(UpdatesOf(d)))]
  BY DEF ChainStep, call
<1>2. /\ CountTypes /\ ForwardCounts /\ Control /\ Closed
      /\ \A v \in Supernode : AsThresholds(v)
  BY <1>1 DEF CountInv, ForwardCounts, IndInv
<1>3. /\ Alone(s) /\ d \in SolveSubtree(s) /\ d \in Supernode /\ x[d] = "given"
      /\ \A e \in SolveSubtree(d) : e # d => x[e] = "forward"
  BY <1>1, SerialNext
<1> HIDE DEF d
<1>4. x'[d] = "forward" /\ \A t \in Supernode : t # d => x'[t] = x[t]
  BY <1>1, <1>2, <1>3 DEF Control
<1>5. \A t \in Supernode : ~Direct(t) /\ ~Direct(t)'
  BY <1>1 DEF Direct
<1>6. pc[d] \in {"idle", "serial"}
  BY <1>1, <1>3 DEF Alone
<1>7. \A c \in Children(d), u \in Update : u[2] \in Structure[c] =>
         buffer[c][u] = Bit(u[1] \in SolveSubtree(c))
  <2> SUFFICES ASSUME NEW c \in Children(d), NEW u \in Update,
                      u[2] \in Structure[c]
               PROVE  buffer[c][u] = Bit(u[1] \in SolveSubtree(c))
    OBVIOUS
  <2>1. /\ c \in Supernode /\ c \in SolveSubtree(c)
        /\ \A e \in SolveSubtree(c) : e \in SolveSubtree(d) /\ e # d
    <3>1. /\ c \in Supernode /\ c # d /\ c \in SolveSubtree(d)
          /\ SolveSubtree(c) \subseteq SolveSubtree(d)
      BY <1>3, ChildSubtree
    <3>2. d \notin SolveSubtree(c)
      <4> SUFFICES ASSUME d \in SolveSubtree(c) PROVE FALSE
        OBVIOUS
      <4>1. d < c /\ c < d
        BY <1>3, <3>1, Below
      <4> QED
        BY <1>3, <3>1, <4>1 DEF Supernode
    <3> QED
      BY <3>1, <3>2, SubtreeFacts
  <2>2. \A e \in SolveSubtree(c) : x[e] = "forward"
    BY <1>3, <2>1
  <2>3. Holds(c) /\ BufferCount(c)
    BY <1>1, <1>2, <2>1, <2>2 DEF ForwardCounts, Holds
  <2> QED
    BY <2>2, <2>3 DEF BufferCount, Bit
<1>8. CountTypes'
  <2>1. /\ ForParent(d) \in [Update -> Nat] /\ ForBuffer(d) \in [Update -> Nat]
        /\ Once(UpdatesOf(d)) \in [Update -> Nat]
    BY <1>2, BroughtTyped, OnceTyped DEF ForParent, ForBuffer
  <2> QED
    BY <1>1, <1>2, <2>1, AddTyped DEF CountTypes
<1>9. ASSUME NEW u \in Update PROVE RhsCount(u)'
  <2>1. /\ u[1] \in Supernode /\ u[2] \in Supernode /\ u[1] # u[2]
        /\ u[1] \in SolveSubtree(u[2]) /\ RhsCount(u) /\ rhs[u] \in Nat
    BY <1>2, UpdateFacts DEF ForwardCounts, CountTypes
  <2>2. rhs'[u] = rhs[u] + ForParent(d)[u]
    BY <1>1 DEF Add
  <2>3. CASE u[2] = d
    <3>1. ForParent(d)[u] = 1
      BY <1>3, <1>7, <2>1, <2>3, BroughtOnce DEF ForParent, Bit
    <3>2. rhs[u] = 0
      BY <1>3, <1>5, <1>6, <2>1, <2>3 DEF RhsCount, Bit
    <3> QED
      BY <1>3, <1>4, <1>5, <2>2, <2>3, <3>1, <3>2 DEF RhsCount, Bit
  <2>4. CASE u[2] # d
    <3>1. ForParent(d)[u] = 0
      BY <2>4, BroughtNothing DEF ForParent
    <3>2. rhs'[u] = rhs[u] /\ x'[u[2]] = x[u[2]]
      BY <1>4, <2>1, <2>2, <2>4, <3>1
    <3> QED
      BY <1>1, <1>5, <2>1, <3>2 DEF RhsCount
  <2> QED
    BY <2>3, <2>4
<1>10. ASSUME NEW v \in Supernode PROVE BufferCount(v)'
  <2>1. CASE v = d
    <3>1. ASSUME NEW u \in Update, u[2] \in Structure[d]
          PROVE  buffer'[d][u] = Bit(u[1] \in SolveSubtree(d) /\ x'[u[1]] = "forward")
      <4>1. u[2] \in Supernode /\ u[2] # d /\ u[1] \in Supernode
        BY <1>3, <3>1, StructureAbove, UpdateFacts
      <4>2. ForBuffer(d)[u] = Bit(u[1] \in SolveSubtree(d) \ {d})
        BY <1>3, <1>7, <3>1, <4>1, BroughtOnce DEF ForBuffer
      <4>3. buffer'[d] = Add(ForBuffer(d), Once(UpdatesOf(d)))
        BY <1>1, <1>2, <1>3 DEF CountTypes
      <4>4. buffer'[d][u] = ForBuffer(d)[u] + Bit(u[1] = d)
        BY <4>3 DEF Add, Once, UpdatesOf, Bit
      <4>5. d \in SolveSubtree(d)
        BY <1>3, SubtreeFacts
      <4>6. u[1] \in SolveSubtree(d) => x'[u[1]] = "forward"
        BY <1>3, <1>4, <4>1
      <4> QED
        BY <4>2, <4>4, <4>5, <4>6 DEF Bit
    <3> QED
      BY <1>1, <2>1, <3>1 DEF BufferCount
  <2>2. CASE v # d
    <3>1. buffer'[v] = buffer[v] /\ BufferCount(v) /\ (Holds(v)' <=> Holds(v))
      BY <1>1, <1>2, <1>4, <2>2 DEF CountTypes, ForwardCounts, Holds
    <3>2. Holds(v) => \A e \in SolveSubtree(v) : x'[e] = x[e]
      <4> SUFFICES ASSUME Holds(v) PROVE \A e \in SolveSubtree(v) : x'[e] = x[e]
        OBVIOUS
      <4>1. CASE v # s
        <5>1. d \notin SolveSubtree(v)
          BY <1>1, <1>2, <1>3, <4>1, HeldOutside
        <5> QED
          BY <1>4, <5>1, SubtreeFacts
      <4>2. CASE v = s
        BY <1>1, <1>2, <1>3, <4>2 DEF Holds, Closed
      <4> QED
        BY <4>1, <4>2
    <3> QED
      BY <3>1, <3>2 DEF BufferCount, Bit
  <2> QED
    BY <2>1, <2>2
<1>11. \A t \in Supernode : AsThresholds(t)'
  BY <1>1, <1>2 DEF AsThresholds, ForwardSerial
<1>12. Closed'
  BY <1>1, <1>2, <1>3, ClosedStep
<1> QED
  BY <1>1, <1>8, <1>9, <1>10, <1>11, <1>12, InForwardCounts DEF ForwardCounts

\* The other steps.
LEMMA CountStart ==
    ASSUME CountInv, StartSolve PROVE CountInv'
<1>1. /\ phase' = "forward" /\ x' = [s \in Supernode |-> "given"]
      /\ rhs' = NoUpdates /\ buffer' = buffer
      /\ pc' = IF parallel' THEN RootsReady ELSE [s \in Supernode |-> "idle"]
  BY DEF StartSolve
<1>2. rhs' \in [Update -> Nat] /\ \A u \in Update : rhs'[u] = 0
  BY <1>1 DEF NoUpdates
<1>3. \A s \in Supernode : pc'[s] \in {"idle", "ready"} /\ x'[s] = "given"
  BY <1>1 DEF RootsReady
<1>4. ASSUME NEW u \in Update PROVE RhsCount(u)' /\ rhs'[u] = Bit(x'[u[1]] = "forward")
  <2>1. u[1] \in Supernode /\ u[2] \in Supernode
    BY UpdateFacts
  <2>2. /\ x'[u[1]] # "forward" /\ x'[u[2]] # "forward" /\ pc'[u[2]] # "finish"
        /\ rhs'[u] = 0
    BY <1>2, <1>3, <2>1
  <2> QED
    BY <2>2 DEF RhsCount, Bit
<1>5. \A s \in Supernode : AsThresholds(s)' /\ BufferCount(s)'
  BY <1>3 DEF AsThresholds, BufferCount, Holds
<1>6. Closed'
  BY <1>3 DEF Closed
<1>7. CountTypes'
  BY <1>1, <1>2 DEF CountInv, CountTypes
<1> QED
  BY <1>1, <1>4, <1>5, <1>6, <1>7 DEF CountInv, ForwardCounts

LEMMA CountForwardSweep ==
    ASSUME IndInv, CountInv, ForwardSweep PROVE CountInv'
<1>1. /\ phase = "forward" /\ ~parallel /\ sweep <= NumSupernodes
      /\ x' = [x EXCEPT ![sweep] = "forward"]
      /\ rhs' = Add(rhs, Once(UpdatesOf(sweep)))
      /\ UNCHANGED <<phase, parallel, buffer>>
  BY DEF ForwardSweep, call
<1>2. /\ CountTypes /\ Control
      /\ \A u \in Update : rhs[u] = Bit(x[u[1]] = "forward")
  BY <1>1 DEF CountInv, IndInv
<1>3. sweep \in Supernode /\ x[sweep] = "given"
  <2>1. sweep \in 1..(NumSupernodes + 1)
    BY <1>1 DEF IndInv, SweepInv
  <2>2. sweep \in Supernode
    BY <1>1, <2>1, ForestAssumption DEF Supernode
  <2> QED
    BY <1>1, <2>2 DEF IndInv, SweepInv, Supernode
<1>4. x'[sweep] = "forward" /\ \A t \in Supernode : t # sweep => x'[t] = x[t]
  BY <1>1, <1>2, <1>3 DEF Control
<1>5. CountTypes'
  <2>1. Once(UpdatesOf(sweep)) \in [Update -> Nat]
    BY OnceTyped
  <2> QED
    BY <1>1, <1>2, <2>1, AddTyped DEF CountTypes
<1>6. ASSUME NEW u \in Update PROVE rhs'[u] = Bit(x'[u[1]] = "forward")
  <2>1. u[1] \in Supernode /\ rhs'[u] = rhs[u] + Bit(u[1] = sweep)
    BY <1>1, UpdateFacts DEF Add, Once, UpdatesOf, Bit
  <2> QED
    BY <1>2, <1>3, <1>4, <2>1 DEF Bit
<1> QED
  BY <1>1, <1>5, <1>6 DEF CountInv

LEMMA CountForwardDone ==
    ASSUME IndInv, CountInv, ForwardDone PROVE CountInv'
<1>1. /\ phase = "forward" /\ phase' = "diagonal"
      /\ UNCHANGED <<rhs, buffer, x>>
  BY DEF ForwardDone, data
<1>2. \A s \in Supernode : x[s] = "forward"
  <2>1. IndInv'
    BY ForwardDoneStep
  <2> QED
    BY <1>1, <2>1 DEF IndInv, BetweenInv
<1>3. ASSUME NEW u \in Update PROVE rhs[u] = 1
  <2>1. x[u[1]] = "forward" /\ x[u[2]] = "forward"
    BY <1>2, UpdateFacts
  <2>2. CASE parallel
    <3>1. RhsCount(u)
      BY <1>1, <2>2 DEF CountInv, ForwardCounts
    <3> QED
      BY <2>1, <3>1 DEF RhsCount, Bit
  <2>3. CASE ~parallel
    BY <1>1, <2>1, <2>3 DEF CountInv, Bit
  <2> QED
    BY <2>2, <2>3
<1> QED
  BY <1>1, <1>3 DEF CountInv, CountTypes

\* From then on the right-hand sides keep what they have been given.
LEMMA CountLater ==
    ASSUME IndInv, CountInv,
           \/ DiagonalSolve \/ BackwardSweep \/ BackwardDone
           \/ \E s \in Supernode : \/ BackwardVisit(s) \/ BackwardSerialStep(s)
                                   \/ BackwardSerialDone(s)
    PROVE  CountInv'
<1>1. phase \in {"diagonal", "backward"} /\ phase' \in {"backward", "returned"}
      /\ rhs' = rhs
  BY DEF DiagonalSolve, BackwardSweep, BackwardDone, BackwardVisit,
         BackwardSerialStep, BackwardSerialDone, call, data
<1>2. buffer' \in [Supernode -> [Update -> Nat]]
  <2>1. buffer \in [Supernode -> [Update -> Nat]]
    BY DEF CountInv, CountTypes
  <2>2. ASSUME NEW d PROVE Gathered(d) \subseteq [Supernode -> [Update -> Nat]]
    <3> DEFINE f == [u \in Update |-> 2]
               b == [buffer EXCEPT ![d] = f]
    <3>1. f \in [Update -> Nat]
      OBVIOUS
    <3> HIDE DEF f
    <3>2. b = [s \in Supernode |-> IF s = d THEN f ELSE buffer[s]]
      BY <2>1
    <3>3. b \in [Supernode -> [Update -> Nat]]
      BY <2>1, <3>1, <3>2
    <3> QED
      BY <2>1, <3>3 DEF Gathered, f
  <2>3. CASE \E s \in Supernode : BackwardVisit(s) \/ BackwardSerialStep(s)
    BY <2>2, <2>3 DEF BackwardVisit, BackwardSerialStep
  <2>4. CASE DiagonalSolve \/ BackwardSweep \/ BackwardDone
             \/ \E s \in Supernode : BackwardSerialDone(s)
    <3> buffer' = buffer
      BY <2>4 DEF DiagonalSolve, BackwardSweep, BackwardDone,
                  BackwardSerialDone, data
    <3> QED
      BY <2>1
  <2> QED
    BY <2>3, <2>4
<1> QED
  BY <1>1, <1>2 DEF CountInv, CountTypes

LEMMA CountInvHolds == Spec => []CountInv
<1>1. Init => CountInv
  <2> SUFFICES ASSUME Init PROVE CountInv
    OBVIOUS
  <2>1. NoUpdates \in [Update -> Nat]
    BY DEF NoUpdates
  <2> QED
    BY <2>1 DEF Init, CountInv, CountTypes
<1>2. ASSUME IndInv, CountInv, [Next]_vars PROVE CountInv'
  <2>1. CASE StartSolve
    BY <1>2, <2>1, CountStart
  <2>2. ASSUME NEW s \in Supernode, Frame(s) PROVE CountInv'
    <3>1. parallel
      <4>1. pc[s] # "idle" /\ phase \in {"forward", "backward"}
        BY <2>2 DEF Frame, ForwardSpawn, ForwardMerge, ForwardFinish,
               ForwardSerialStart, GroupStep, ChainStep, ForwardSerialDone,
               BackwardVisit, BackwardSerialStep, BackwardSerialDone, Go
      <4> QED
        BY <1>2, <4>1, FrameIsParallel
    <3>2. CASE \/ ForwardSpawn(s) \/ ForwardMerge(s) \/ ForwardFinish(s)
               \/ ForwardSerialStart(s) \/ ForwardSerialDone(s)
      BY <1>2, <3>1, <3>2, CountSpawn, CountMerge, CountFinish,
         CountSerialStart, CountSerialDone
    <3>3. CASE GroupStep(s) \/ ChainStep(s)
      BY <1>2, <3>1, <3>3, CountGroup, CountChain
    <3>4. CASE \/ BackwardVisit(s) \/ BackwardSerialStep(s)
               \/ BackwardSerialDone(s)
      BY <1>2, <3>4, CountLater
    <3> QED
      BY <2>2, <3>2, <3>3, <3>4 DEF Frame
  <2>3. CASE ForwardSweep
    BY <1>2, <2>3, CountForwardSweep
  <2>4. CASE ForwardDone
    BY <1>2, <2>4, CountForwardDone
  <2>5. CASE DiagonalSolve \/ BackwardSweep \/ BackwardDone
    BY <1>2, <2>5, CountLater
  <2>6. CASE UNCHANGED vars
    BY <1>2, <2>6 DEF vars, call, data, CountInv, CountTypes, ForwardCounts,
       AsThresholds, ForwardSerial, Closed, RhsCount, Direct, BufferCount, Holds
  <2> QED
    BY <1>2, <2>1, <2>2, <2>3, <2>4, <2>5, <2>6 DEF Next, Driver, Terminated
<1> QED
  BY <1>1, <1>2, IndInvHolds, PTL DEF Spec

\* However the tasks interleave, whichever subtrees are serial and whatever
\* earlier solves left in the buffers: when a supernode is solved, each update
\* by a descendant has been added to its right-hand side exactly once.
THEOREM UpdatesArriveOnce == Spec => []UpdatesExactlyOnce
<1>1. IndInv /\ CountInv => UpdatesExactlyOnce
  <2> SUFFICES ASSUME IndInv, CountInv, solves > 0, NEW u \in Update,
                      x[u[2]] # "given"
               PROVE  rhs[u] = 1
    BY DEF UpdatesExactlyOnce
  <2>1. /\ u[1] \in Supernode /\ u[2] \in Supernode
        /\ u[1] \in SolveSubtree(u[2]) /\ u[1] # u[2] /\ Control
    BY UpdateFacts DEF IndInv
  <2>2. CASE phase = "forward" /\ parallel
    <3>1. RhsCount(u) /\ Closed
      BY <2>2 DEF CountInv, ForwardCounts
    <3>2. x[u[2]] = "forward"
      BY <2>1, <3>1 DEF Closed
    <3>3. x[u[1]] = "forward"
      BY <2>1, <3>1, <3>2 DEF Closed
    <3> QED
      BY <3>1, <3>2, <3>3 DEF RhsCount, Bit
  <2>3. CASE phase = "forward" /\ ~parallel
    <3>1. \A s \in Supernode : x[s] = IF s < sweep THEN "forward" ELSE "given"
      BY <2>3 DEF IndInv, SweepInv
    <3>2. u[1] < u[2]
      BY <2>1, Below
    <3>3. sweep \in Nat
      BY <2>3, ForestAssumption DEF IndInv, SweepInv
    <3>4. x[u[1]] = "forward"
      BY <2>1, <3>1, <3>2, <3>3 DEF Supernode
    <3> QED
      BY <2>3, <3>4 DEF CountInv, Bit
  <2>4. CASE phase # "forward"
    BY <2>1, <2>4 DEF CountInv, Control
  <2> QED
    BY <2>2, <2>3, <2>4
<1> QED
  BY <1>1, IndInvHolds, CountInvHolds, PTL

-----------------------------------------------------------------------------
(***************************************************************************)
(* Types.                                                                  *)
(***************************************************************************)
RangeInv ==
    /\ single \in BOOLEAN /\ prepared \in BOOLEAN
    /\ at \in [Supernode -> 0..(NumSupernodes + 1)]
    /\ sweep \in 0..(NumSupernodes + 1)
    /\ solves \in 0..MaxSolves

\* Where a loop over a serial subtree begins, and where it goes on.
LEMMA AtInRange ==
    ASSUME IndInv, RangeInv, parallel, NEW s \in Supernode,
           \/ ForwardSerialStart(s) \/ GroupStep(s) \/ ChainStep(s)
           \/ BackwardVisit(s) \/ BackwardSerialStep(s)
    PROVE  at' \in [Supernode -> 0..(NumSupernodes + 1)]
<1>1. /\ NumSupernodes \in Nat /\ at \in [Supernode -> 0..(NumSupernodes + 1)]
      /\ IndexOf(s) \in 1..NumSupernodes
      /\ solve_subtree_begin(s) \in 1..IndexOf(s)
  BY ForestAssumption DEF RangeInv, TraversalIsPostorder
<1>2. CASE ForwardSerialStart(s)
  <2>1. at' = [at EXCEPT ![s] = solve_subtree_begin(s)]
    BY <1>2 DEF ForwardSerialStart
  <2>2. solve_subtree_begin(s) \in 0..(NumSupernodes + 1)
    BY <1>1
  <2> QED
    BY <1>1, <2>1, <2>2
<1>3. CASE GroupStep(s) \/ ChainStep(s)
  <2>1. /\ at[s] < solve_subtree_end(s) /\ pc[s] = "serial" /\ phase = "forward"
        /\ at' = [at EXCEPT ![s] = at[s] + 1]
    BY <1>3 DEF GroupStep, ChainStep
  <2>2. at[s] + 1 \in 0..(NumSupernodes + 1)
    <3> at[s] \in 1..NumSupernodes
      BY <2>1, SerialNext
    <3> QED
      BY <1>1
  <2> QED
    BY <1>1, <2>1, <2>2
<1>4. CASE BackwardVisit(s)
  <2>1. at' = at \/ at' = [at EXCEPT ![s] = solve_subtree_end(s) - 2]
    BY <1>4 DEF BackwardVisit
  <2>2. solve_subtree_end(s) - 2 \in 0..(NumSupernodes + 1)
    BY <1>1 DEF solve_subtree_end
  <2> QED
    BY <1>1, <2>1, <2>2
<1>5. CASE BackwardSerialStep(s)
  <2>1. at[s] >= solve_subtree_begin(s) /\ at' = [at EXCEPT ![s] = at[s] - 1]
    BY <1>5 DEF BackwardSerialStep
  <2>2. at[s] - 1 \in 0..(NumSupernodes + 1)
    <3> at[s] \in 0..(NumSupernodes + 1)
      BY <1>1
    <3> QED
      BY <1>1, <2>1
  <2> QED
    BY <1>1, <2>1, <2>2
<1> QED
  BY <1>2, <1>3, <1>4, <1>5

LEMMA RangeInvHolds == Spec => []RangeInv
<1>1. NumSupernodes \in Nat \ {0} /\ MaxSolves \in Nat
  BY ForestAssumption, StructureAssumption
<1>2. Init => RangeInv
  <2> SUFFICES ASSUME Init PROVE RangeInv
    OBVIOUS
  <2>1. single \in BOOLEAN /\ prepared \in BOOLEAN
    BY Zenon DEF Init
  <2> QED
    BY <1>1, <2>1 DEF Init, RangeInv
<1>3. ASSUME IndInv, RangeInv, [Next]_vars PROVE RangeInv'
  <2>1. CASE StartSolve
    <3>1. prepared' \in BOOLEAN /\ single' \in BOOLEAN
      BY <2>1, Zenon DEF StartSolve
    <3>2. solves' \in 0..MaxSolves
      BY <1>1, <1>3, <2>1 DEF StartSolve, RangeInv
    <3> QED
      BY <1>1, <1>3, <2>1, <3>1, <3>2 DEF StartSolve, RangeInv
  <2>2. ASSUME NEW s \in Supernode, Frame(s) PROVE RangeInv'
    <3>1. UNCHANGED <<single, prepared, sweep, solves>>
      BY <2>2 DEF Frame, ForwardSpawn, ForwardMerge, ForwardFinish,
         ForwardSerialStart, GroupStep, ChainStep, ForwardSerialDone,
         BackwardVisit, BackwardSerialStep, BackwardSerialDone, call
    <3>2. parallel
      <4>1. pc[s] # "idle" /\ phase \in {"forward", "backward"}
        BY <2>2 DEF Frame, ForwardSpawn, ForwardMerge, ForwardFinish,
               ForwardSerialStart, GroupStep, ChainStep, ForwardSerialDone,
               BackwardVisit, BackwardSerialStep, BackwardSerialDone, Go
      <4> QED
        BY <1>3, <4>1, FrameIsParallel
    <3>3. CASE \/ ForwardSerialStart(s) \/ GroupStep(s) \/ ChainStep(s)
               \/ BackwardVisit(s) \/ BackwardSerialStep(s)
      <4>1. at' \in [Supernode -> 0..(NumSupernodes + 1)]
        BY <1>3, <3>2, <3>3, AtInRange
      <4> QED
        BY <1>3, <3>1, <4>1 DEF RangeInv
    <3>4. CASE \/ ForwardSpawn(s) \/ ForwardMerge(s) \/ ForwardFinish(s)
               \/ ForwardSerialDone(s) \/ BackwardSerialDone(s)
      <4>1. at' = at
        BY <3>4 DEF ForwardSpawn, ForwardMerge, ForwardFinish,
                    ForwardSerialDone, BackwardSerialDone
      <4> QED
        BY <1>3, <3>1, <4>1 DEF RangeInv
    <3> QED
      BY <2>2, <3>3, <3>4 DEF Frame
  <2>3. CASE ForwardSweep \/ BackwardSweep
    <3>1. /\ UNCHANGED <<single, prepared, at, solves>>
          /\ \/ sweep <= NumSupernodes /\ sweep' = sweep + 1
             \/ sweep >= 1 /\ sweep' = sweep - 1
      BY <2>3 DEF ForwardSweep, BackwardSweep, call
    <3>2. sweep' \in 0..(NumSupernodes + 1)
      BY <1>1, <1>3, <3>1 DEF RangeInv
    <3> QED
      BY <1>3, <3>1, <3>2 DEF RangeInv
  <2>4. CASE ForwardDone \/ DiagonalSolve \/ BackwardDone
    <3>1. /\ UNCHANGED <<single, prepared, at, solves>>
          /\ sweep' \in {sweep, NumSupernodes}
      BY <2>4 DEF ForwardDone, DiagonalSolve, BackwardDone
    <3> QED
      BY <1>1, <1>3, <3>1 DEF RangeInv
  <2>5. CASE UNCHANGED vars
    BY <1>3, <2>5 DEF vars, call, RangeInv
  <2> QED
    BY <1>3, <2>1, <2>2, <2>3, <2>4, <2>5 DEF Next, Driver, Terminated
<1> QED
  BY <1>2, <1>3, IndInvHolds, PTL DEF Spec

\* The type invariant: no index of a loop leaves the traversal.
THEOREM TypeCorrect == Spec => []TypeOK
<1>1. IndInv /\ CountInv /\ RangeInv => TypeOK
  BY DEF IndInv, Control, CountInv, CountTypes, RangeInv, TypeOK
<1> QED
  BY <1>1, IndInvHolds, CountInvHolds, RangeInvHolds, PTL
=============================================================================
