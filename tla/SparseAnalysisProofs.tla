------------------------ MODULE SparseAnalysisProofs ------------------------
(***************************************************************************)
(* That both analyses return the elimination forest and the degrees of the *)
(* filled matrix, the sequential one with its compressed paths, postorder  *)
(* and skeleton; that the simple algorithm does, too; what the postorder   *)
(* and the fundamental supernodes of the forest are; and, with it, that    *)
(* what is built on them has room.                                         *)
(***************************************************************************)
EXTENDS SparseSolverProofs

-----------------------------------------------------------------------------
(***************************************************************************)
(* The elimination forest of a fill, and whose rows a column has.          *)
(***************************************************************************)
\* The parent of a column is its first row below the diagonal.
ForestOf(F, n) == [j \in 1..n |-> IF F[j] = {} THEN None ELSE Min(F[j])]

\* Every line goes up from a column through later ones.
LEMMA ForestClimbs ==
    ASSUME NEW n \in Nat, NEW F, NEW own, IsFill(F, own, n)
    PROVE  /\ Climbs(ForestOf(F, n), n)
           /\ \A j \in 1..n : F[j] = {} \/ ForestOf(F, n)[j] \in F[j]
           /\ \A j \in 1..n : \A i \in F[j] :
                  /\ ForestOf(F, n)[j] # None /\ ForestOf(F, n)[j] <= i
                  /\ i \in 1..n /\ i > j
<1>1. ASSUME NEW j \in 1..n, F[j] # {}
      PROVE  /\ Min(F[j]) \in F[j] /\ Min(F[j]) \in 1..n /\ Min(F[j]) > j
             /\ Min(F[j]) # None /\ \A i \in F[j] : Min(F[j]) <= i
  <2>1. F[j] \subseteq Nat /\ F[j] \subseteq 1..n /\ \A i \in F[j] : i > j
    BY DEF IsFill
  <2>2. Min(F[j]) \in F[j] /\ \A i \in F[j] : Min(F[j]) <= i
    BY <1>1, <2>1, MinFacts
  <2> QED
    BY <2>1, <2>2 DEF None
<1>2. \A j \in 1..n : \A i \in F[j] : i \in 1..n /\ i > j /\ F[j] # {}
  BY DEF IsFill
<1>3. \A j \in 1..n : ForestOf(F, n)[j] \in 0..n
  BY <1>1 DEF ForestOf, None
<1>4. ForestOf(F, n) \in [1..n -> 0..n]
  BY <1>3 DEF ForestOf
<1> QED
  BY <1>1, <1>2, <1>4 DEF ForestOf, Climbs

LEMMA LinesOfClimbing ==
    ASSUME NEW n \in Nat, NEW up, Climbs(up, n)
    PROVE  AreLines([s \in 1..n |-> Range(Path(up, s, {None}))], up, n)
<1>1. DOMAIN up = 1..n
  BY DEF Climbs
<1>2. \A s \in 1..n : up[s] = None \/ (up[s] \in 1..n /\ up[s] > s)
  BY DEF Climbs, None
<1> QED
  BY <1>1, <1>2, PathsAreLines

\* What is above a column of a line is on the line.
LEMMA LinesPass ==
    ASSUME NEW n \in Nat, NEW line, NEW up, AreLines(line, up, n),
           NEW s \in 1..n, NEW t \in line[s]
    PROVE  line[t] \subseteq line[s] /\ t \in 1..n
<1> DEFINE Wrong == {v \in 1..n : \E x \in line[v] : ~(line[x] \subseteq line[v])}
<1>1. \A v \in 1..n : v \in line[v] /\ line[v] \subseteq v..n
  BY LinesClimb
<1>2. ASSUME NEW v \in Wrong PROVE \E w \in Wrong : w > v
  <2>1. PICK x \in line[v] : ~(line[x] \subseteq line[v])
    OBVIOUS
  <2>2. x # v
    BY <2>1
  <2>3. /\ up[v] \in 1..n /\ up[v] > v /\ x \in line[up[v]]
        /\ line[up[v]] \subseteq line[v]
    BY <2>1, <2>2 DEF AreLines
  <2> QED
    BY <2>1, <2>3
<1>3. Wrong = {}
  <2> Wrong \subseteq 1..n
    OBVIOUS
  <2> HIDE DEF Wrong
  <2> QED
    BY <1>2, FromAbove
<1> QED
  BY <1>1, <1>3

\* The rows of a column are on its line.
LEMMA FillClimbs ==
    ASSUME NEW n \in Nat, NEW F, NEW own, IsFill(F, own, n),
           NEW line, AreLines(line, ForestOf(F, n), n)
    PROVE  \A j \in 1..n : F[j] \subseteq line[j]
<1> DEFINE up == ForestOf(F, n)
           Wrong == {j \in 1..n : \E i \in F[j] : i \notin line[j]}
<1>1. ASSUME NEW j \in Wrong PROVE \E k \in Wrong : k > j
  <2>1. PICK i \in F[j] : i \notin line[j]
    OBVIOUS
  <2> DEFINE p == up[j]
  <2>2. p # None /\ p \in 1..n /\ p > j /\ p \in F[j] /\ p <= i /\ i \in 1..n
    BY ForestClimbs DEF Climbs, None
  <2>3. p \in line[p] /\ line[p] \subseteq line[j]
    BY <2>2, LinesClimb DEF AreLines
  <2>4. i > p
    BY <2>1, <2>2, <2>3
  <2>5. i \in F[p]
    BY <2>2, <2>4 DEF IsFill
  <2> QED
    BY <2>1, <2>2, <2>3, <2>5
<1>2. Wrong = {}
  <2> Wrong \subseteq 1..n
    OBVIOUS
  <2> HIDE DEF Wrong
  <2> QED
    BY <1>1, FromAbove
<1> QED
  BY <1>2

\* A row that a column has from the matrix is in every column on the way.
LEMMA FillGoesUp ==
    ASSUME NEW n \in Nat, NEW F, NEW own, IsFill(F, own, n),
           NEW line, AreLines(line, ForestOf(F, n), n), NEW i \in Nat
    PROVE  \A r \in 1..n : i \in F[r] =>
               \A j \in line[r] : j < i => i \in F[j]
<1> DEFINE up == ForestOf(F, n)
           Wrong == {r \in 1..n : i \in F[r]
                        /\ \E j \in line[r] : j < i /\ i \notin F[j]}
<1>1. ASSUME NEW r \in Wrong PROVE \E k \in Wrong : k > r
  <2>1. PICK j \in line[r] : j < i /\ i \notin F[j]
    OBVIOUS
  <2> DEFINE p == up[r]
  <2>2. p # None /\ p \in 1..n /\ p > r /\ p \in F[r]
    BY ForestClimbs DEF Climbs, None
  <2>3. j \in line[p] /\ line[p] \subseteq p..n
    BY <2>1, <2>2, LinesClimb DEF AreLines
  <2>4. i > p
    BY <2>1, <2>2, <2>3
  <2>5. i \in F[p]
    BY <2>2, <2>4 DEF IsFill
  <2> QED
    BY <2>1, <2>2, <2>3, <2>5
<1>2. Wrong = {}
  <2> Wrong \subseteq 1..n
    OBVIOUS
  <2> HIDE DEF Wrong
  <2> QED
    BY <1>1, FromAbove
<1> QED
  BY <1>2

\* A column has the rows of the matrix that are in columns below it.
LEMMA RowSubtrees ==
    ASSUME NEW n \in Nat, NEW F, NEW own, IsFill(F, own, n),
           NEW line, AreLines(line, ForestOf(F, n), n)
    PROVE  \A j \in 1..n, i \in 1..n :
               i \in F[j] <=> i > j /\ \E r \in 1..n : j \in line[r] /\ i \in own[r]
<1> DEFINE up == ForestOf(F, n)
           Wrong == {j \in 1..n : \E i \in F[j] :
                        ~ \E r \in 1..n : j \in line[r] /\ i \in own[r]}
<1>1. Wrong = {}
  <2> SUFFICES ASSUME Wrong # {} PROVE FALSE
    OBVIOUS
  <2>1. PICK j \in Wrong : \A k \in Wrong : j <= k
    <3> Wrong \subseteq Nat
      OBVIOUS
    <3> HIDE DEF Wrong
    <3> QED
      BY LeastElement
  <2>2. PICK i \in F[j] : ~ \E r \in 1..n : j \in line[r] /\ i \in own[r]
    BY <2>1
  <2>3. j \in 1..n /\ j \in line[j] /\ i > j
    BY <2>2, LinesClimb DEF IsFill
  <2>4. i \notin own[j]
    BY <2>2, <2>3
  <2>5. PICK k \in Kids(F, n, j) : i \in F[k]
    BY <2>3, <2>4, ChildrenBringFill
  <2>6. k \in 1..n /\ k < j /\ up[k] = j
    BY <2>3, <2>5, KidFacts DEF Kids, ForestOf
  <2>7. PICK r \in 1..n : k \in line[r] /\ i \in own[r]
    BY <2>1, <2>3, <2>5, <2>6
  <2>8. j \in line[k]
    BY <2>3, <2>6 DEF AreLines, None
  <2>9. j \in line[r]
    BY <2>7, <2>8, LinesPass
  <2> QED
    BY <2>2, <2>7, <2>9
<1>2. \A r \in 1..n : own[r] \subseteq F[r]
  BY DEF IsFill
<1>3. \A j \in 1..n : \A i \in F[j] : i > j
  BY DEF IsFill
<1>4. ASSUME NEW j \in 1..n, NEW i \in 1..n, i > j,
             NEW r \in 1..n, j \in line[r], i \in own[r]
      PROVE  i \in F[j]
  BY <1>2, <1>4, FillGoesUp
<1> QED
  BY <1>1, <1>3, <1>4

\* What is in two lists that are joined.
LEMMA RangeOfJoined ==
    ASSUME NEW S, NEW p \in Seq(S), NEW q \in Seq(S)
    PROVE  Range(p \o q) = Range(p) \cup Range(q)
<1> DEFINE r == p \o q
<1>1. /\ Len(p) \in Nat /\ Len(q) \in Nat
      /\ DOMAIN p = 1..Len(p) /\ DOMAIN q = 1..Len(q)
      /\ DOMAIN r = 1..(Len(p) + Len(q))
      /\ \A i \in 1..Len(p) : r[i] = p[i]
      /\ \A i \in 1..Len(q) : r[Len(p) + i] = q[i]
  OBVIOUS
<1> HIDE DEF r
<1>2. ASSUME NEW x \in Range(r) PROVE x \in Range(p) \cup Range(q)
  <2>1. PICK i \in DOMAIN r : x = r[i]
    BY <1>2 DEF Range
  <2>2. CASE i \in 1..Len(p)
    BY <1>1, <2>1, <2>2 DEF Range
  <2>3. CASE i \notin 1..Len(p)
    <3>1. i - Len(p) \in 1..Len(q) /\ Len(p) + (i - Len(p)) = i
      BY <1>1, <2>3
    <3>2. q[i - Len(p)] = r[i]
      BY <1>1, <3>1
    <3> QED
      BY <1>1, <2>1, <3>1, <3>2 DEF Range
  <2> QED
    BY <2>2, <2>3
<1>3. ASSUME NEW x \in Range(p) PROVE x \in Range(r)
  <2>1. PICK i \in DOMAIN p : x = p[i]
    BY <1>3 DEF Range
  <2>2. i \in DOMAIN r /\ r[i] = x
    BY <1>1, <2>1
  <2> QED
    BY <2>2 DEF Range
<1>4. ASSUME NEW x \in Range(q) PROVE x \in Range(r)
  <2>1. PICK i \in DOMAIN q : x = q[i]
    BY <1>4 DEF Range
  <2>2. Len(p) + i \in DOMAIN r /\ r[Len(p) + i] = x
    BY <1>1, <2>1
  <2> QED
    BY <2>2 DEF Range
<1> QED
  BY <1>2, <1>3, <1>4 DEF r

\* A way up that ends where it meets certain indices.
LEMMA PathsStop ==
    ASSUME NEW n \in Nat, NEW up, Climbs(up, n), NEW stops, None \in stops
    PROVE  \A i \in 0..n :
               /\ Path(up, i, stops) \in Seq(1..n)
               /\ Path(up, i, stops)
                      = IF i \in stops THEN <<>>
                        ELSE <<i>> \o Path(up, up[i], stops)
               /\ i \notin stops => i \in 1..n /\ up[i] \in 0..n
               /\ i \in stops => Range(Path(up, i, stops)) = {}
               /\ i \notin stops =>
                      Range(Path(up, i, stops))
                          = {i} \cup Range(Path(up, up[i], stops))
<1> DEFINE D == 0..n
           V == Seq(1..n)
           Body(f) == [i \in D |-> IF i \in stops THEN <<>>
                                   ELSE <<i>> \o f[up[i]]]
           G == [f \in [D -> V] |-> Body(f)]
           rank == [i \in D |-> IF i = None THEN 0 ELSE n + 1 - i]
           K == n + 2
<1>1. /\ K \in Nat /\ rank \in [D -> Nat] /\ \A i \in D : rank[i] < K
      /\ None \in D
  BY DEF None
<1>2. \A i \in D : i \notin stops =>
          i \in 1..n /\ up[i] \in D /\ rank[up[i]] < rank[i]
  BY DEF None, Climbs
<1>3. G \in [[D -> V] -> [D -> V]]
  <2>1. ASSUME NEW f \in [D -> V], NEW i \in D, i \notin stops
        PROVE  <<i>> \o f[up[i]] \in Seq(1..n)
    <3>1. f[up[i]] \in Seq(1..n) /\ i \in 1..n
      BY <1>2, <2>1
    <3> QED
      BY <3>1
  <2>2. <<>> \in Seq(1..n)
    OBVIOUS
  <2>3. ASSUME NEW f \in [D -> V] PROVE Body(f) \in [D -> V]
    <3>1. \A i \in D : (IF i \in stops THEN <<>> ELSE <<i>> \o f[up[i]]) \in V
      BY <2>1, <2>2
    <3> HIDE DEF V, D
    <3> QED
      BY <3>1
  <2> HIDE DEF V, D, Body
  <2> QED
    BY <2>3
<1>4. ASSUME NEW f \in [D -> V], NEW g \in [D -> V], NEW i \in D,
             \A j \in D : rank[j] < rank[i] => f[j] = g[j]
      PROVE  G[f][i] = G[g][i]
  <2>1. i \notin stops => f[up[i]] = g[up[i]]
    BY <1>2, <1>4
  <2> QED
    BY <2>1
<1>5. PICK f \in [D -> V] : f = Body(f)
  <2>1. <<>> \in V
    OBVIOUS
  <2>2. Determined(D, V, rank, K, G)
    <3> HIDE DEF G, D, rank, K, V
    <3> QED
      BY <1>1, <1>3, <1>4 DEF Determined
  <2>3. \E f \in [D -> V] : f = G[f]
    <3> HIDE DEF G, D, rank, K, V
    <3> QED
      BY <2>1, <2>2, RecursionExists
  <2> QED
    BY <2>3
<1>6. D = DOMAIN up \cup {None}
  BY SMTT(30) DEF Climbs, None
<1> DEFINE path == CHOOSE g : g = Body(g)
<1>7. path = Body(path)
  BY <1>5
<1>8. \A i : Path(up, i, stops) = path[i]
  <2> HIDE DEF D
  <2> QED
    BY <1>6 DEF Path
<1> HIDE DEF path
<1>9. \A i \in D : path[i] = IF i \in stops THEN <<>> ELSE <<i>> \o path[up[i]]
  BY <1>7
<1>10. \A s \in D : path[s] = f[s]
  <2> DEFINE Wrong == {s \in 1..n : path[s] # f[s]}
  <2>1. ASSUME NEW s \in Wrong PROVE \E t \in Wrong : t > s
    <3>1. s \in D /\ s \notin stops
      BY <1>5, <1>9
    <3>2. /\ path[s] = <<s>> \o path[up[s]] /\ f[s] = <<s>> \o f[up[s]]
      BY <1>5, <1>9, <3>1
    <3>3. path[up[s]] # f[up[s]] /\ up[s] \in D
      BY <1>2, <2>1, <3>1, <3>2
    <3>4. path[None] = <<>> /\ f[None] = <<>>
      BY <1>1, <1>5, <1>9
    <3>5. up[s] # None
      BY <3>3, <3>4
    <3> QED
      BY <3>1, <3>3, <3>5 DEF Climbs, None
  <2>2. Wrong = {}
    <3> Wrong \subseteq 1..n
      OBVIOUS
    <3> HIDE DEF Wrong
    <3> QED
      BY <2>1, FromAbove
  <2>3. path[None] = f[None]
    BY <1>1, <1>5, <1>9
  <2>4. \A s \in D : s \in 1..n \/ s = None
    BY DEF None
  <2> HIDE DEF D
  <2> QED
    BY <2>2, <2>3, <2>4
<1>11. \A s \in D : path[s] \in V
  <2> HIDE DEF D, V, Body
  <2> QED
    BY <1>5, <1>10
<1>12. ASSUME NEW i \in D, i \notin stops
       PROVE  Range(path[i]) = {i} \cup Range(path[up[i]])
  <2>1. i \in 1..n /\ path[up[i]] \in Seq(1..n)
    <3> HIDE DEF D
    <3> QED
      BY <1>2, <1>11, <1>12
  <2>2. <<i>> \in Seq(1..n)
    BY <2>1
  <2>3. Range(<<i>>) = {i}
    BY DEF Range
  <2>4. path[i] = <<i>> \o path[up[i]]
    BY <1>9, <1>12
  <2>5. Range(<<i>> \o path[up[i]]) = Range(<<i>>) \cup Range(path[up[i]])
    BY ZenonT(40), <2>1, <2>2, RangeOfJoined
  <2> QED
    BY <2>3, <2>4, <2>5
<1>13. Range(<<>>) = {}
  BY DEF Range
<1> HIDE DEF Body, V
<1>14. \A i \in D :
           /\ i \in stops => Range(path[i]) = {}
           /\ i \notin stops => Range(path[i]) = {i} \cup Range(path[up[i]])
  BY <1>9, <1>12, <1>13
<1> QED
  BY <1>2, <1>8, <1>9, <1>11, <1>14 DEF D, V

\* What is on such a way: no stop, and a next index or a stop after each.
LEMMA PathFacts ==
    ASSUME NEW n \in Nat, NEW up, Climbs(up, n), NEW stops, None \in stops,
           NEW c \in 0..n
    PROVE  LET R == Range(Path(up, c, stops))
           IN  /\ R \subseteq 1..n /\ R \cap stops = {}
               /\ c \notin stops => c \in R
               /\ \A k \in R : up[k] \in R \cup stops
               /\ \A T : c \in T
                      /\ (\A k \in T : k \in 1..n /\ k \notin stops =>
                              up[k] \in T) => R \subseteq T
<1> DEFINE R(i) == Range(Path(up, i, stops))
<1>1. \A i \in 0..n :
          /\ i \notin stops => i \in 1..n /\ up[i] \in 0..n
          /\ i \in stops => R(i) = {}
          /\ i \notin stops => R(i) = {i} \cup R(up[i])
  BY PathsStop
<1> HIDE DEF R
<1> DEFINE Good(i) == /\ R(i) \subseteq 1..n /\ R(i) \cap stops = {}
                      /\ \A k \in R(i) : up[k] \in R(i) \cup stops
                      /\ \A T : i \in T
                             /\ (\A k \in T : k \in 1..n /\ k \notin stops =>
                                     up[k] \in T) => R(i) \subseteq T
           Wrong == {i \in 1..n : ~Good(i)}
<1>2. \A i \in 0..n : i \in stops => Good(i)
  BY <1>1
<1>3. ASSUME NEW i \in 1..n, i \notin stops, Good(up[i]) PROVE Good(i)
  <2>1. R(i) = {i} \cup R(up[i]) /\ up[i] \in 0..n
    BY <1>1, <1>3
  <2>2. up[i] \in R(i) \cup stops
    BY <1>1, <2>1
  <2>3. ASSUME NEW T, i \in T,
               \A k \in T : k \in 1..n /\ k \notin stops => up[k] \in T
        PROVE  R(i) \subseteq T
    BY <1>3, <2>1, <2>3
  <2> QED
    BY <1>3, <2>1, <2>2, <2>3
<1>4. ASSUME NEW i \in Wrong PROVE \E k \in Wrong : k > i
  <2>1. i \in 1..n /\ i \notin stops
    BY <1>2
  <2>2. up[i] \in 0..n /\ ~Good(up[i])
    BY <1>1, <1>3, <2>1
  <2>3. up[i] # None
    BY <1>2, <2>2
  <2>4. up[i] \in 1..n /\ up[i] > i
    BY <2>1, <2>2, <2>3 DEF Climbs, None
  <2> HIDE DEF Good
  <2> QED
    BY <2>2, <2>4
<1>5. Wrong = {}
  <2> Wrong \subseteq 1..n
    OBVIOUS
  <2> HIDE DEF Wrong
  <2> QED
    BY <1>4, FromAbove
<1>6. Good(c)
  <2>1. c \in 1..n \/ c = None
    BY DEF None
  <2> HIDE DEF Good
  <2> QED
    BY <1>2, <1>5, <2>1
<1>7. c \notin stops => c \in R(c)
  BY <1>1
<1> QED
  BY <1>6, <1>7 DEF R

-----------------------------------------------------------------------------
(***************************************************************************)
(* The elimination forest that comes from the rows of the matrix, with its *)
(* paths compressed.                                                       *)
(***************************************************************************)
ForestStates(n) == [parents : [1..n -> 0..n], ancestors : [1..n -> 0..n]]

\* What the way up from a column meets before this row.
Met(s, row, c) == Range(Path(s.ancestors, c, {None, row}))

\* What an entry of the matrix changes.
LEMMA EdgeFacts ==
    ASSUME NEW n \in Nat, NEW s \in ForestStates(n), NEW row \in 1..n, NEW c
    PROVE  LET t == ProcessEdge(s, row, c)
               R == Met(s, row, c)
           IN  /\ t \in ForestStates(n)
               /\ \A i \in 1..n :
                      /\ i \notin R => t.parents[i] = s.parents[i]
                      /\ s.ancestors[i] # None => t.parents[i] = s.parents[i]
                      /\ i \in R => t.ancestors[i] = row
                      /\ i \in R /\ s.ancestors[i] = None =>
                             t.parents[i] = row
                      /\ i \notin R => t.ancestors[i] = s.ancestors[i]
<1> DEFINE R == Met(s, row, c)
           ps == [i \in 1..n |-> IF i \in R /\ s.ancestors[i] = None
                                 THEN row ELSE s.parents[i]]
           as == [i \in 1..n |-> IF i \in R THEN row ELSE s.ancestors[i]]
           tops == {i \in R : s.ancestors[i] = None}
<1>1. DOMAIN s.parents = 1..n
  BY DEF ForestStates
<1>2. ProcessEdge(s, row, c)
          = [parents |-> <<>> \o [i \in 1..n |->
                 IF i \in tops THEN row ELSE s.parents[i]],
             ancestors |-> <<>> \o as]
  BY <1>1 DEF ProcessEdge, Met
<1>3. [i \in 1..n |-> IF i \in tops THEN row ELSE s.parents[i]] = ps
  OBVIOUS
<1>4. ps \in [1..n -> 0..n] /\ as \in [1..n -> 0..n]
  BY DEF ForestStates
<1>5. /\ \A i \in 1..n : ps[i] = IF i \in R /\ s.ancestors[i] = None
                                 THEN row ELSE s.parents[i]
      /\ \A i \in 1..n : as[i] = IF i \in R THEN row ELSE s.ancestors[i]
  OBVIOUS
<1> HIDE DEF ps, as
<1>6. <<>> \o ps = ps /\ <<>> \o as = as
  <2>1. ps = [i \in 1..n |-> ps[i]] /\ as = [i \in 1..n |-> as[i]]
    BY <1>4
  <2> QED
    BY <2>1, WrittenDown
<1>7. ProcessEdge(s, row, c) = [parents |-> ps, ancestors |-> as]
  BY <1>2, <1>3, <1>6
<1> HIDE DEF R
<1>8. [parents |-> ps, ancestors |-> as] \in ForestStates(n)
  BY <1>4 DEF ForestStates
<1>9. [parents |-> ps, ancestors |-> as].parents = ps
      /\ [parents |-> ps, ancestors |-> as].ancestors = as
  OBVIOUS
<1> QED
  BY <1>5, <1>7, <1>8, <1>9 DEF R

\* The entries of a row, one after the other.
RowEdges(s, row, columns) ==
    Through(columns, s, LAMBDA t, column : ProcessEdge(t, row, column))
LEMMA RowEdgesLoop ==
    ASSUME NEW n \in Nat, NEW t \in ForestStates(n), NEW row \in 1..n,
           NEW columns \in Seq(1..n)
    PROVE  \E g \in [0..Len(columns) -> ForestStates(n)] :
               /\ g[0] = t /\ Len(columns) \in Nat
               /\ \A k \in 1..Len(columns) :
                      /\ g[k] = ProcessEdge(g[k - 1], row, columns[k])
                      /\ columns[k] \in 1..n
               /\ RowEdges(t, row, columns) = g[Len(columns)]
<1> DEFINE E == 1..n
           V == ForestStates(n)
           s == columns
           first == t
           next(x, e) == ProcessEdge(x, row, e)
<1>1. s \in Seq(E)
  OBVIOUS
<1>2. first \in V
  OBVIOUS
<1>3. \A x \in V, e \in E : next(x, e) \in V
  BY EdgeFacts
<1>4. RowEdges(t, row, columns) = Through(s, first, LAMBDA x, e : next(x, e))
  BY DEF RowEdges, Through
<1> DEFINE step == [xe \in V \X E |-> next(xe[1], xe[2])]
           Body(h) == [k \in 0..Len(s) |-> IF k = 0 THEN first
                                           ELSE next(h[k - 1], s[k])]
           g == CHOOSE h : h = Body(h)
<1> HIDE DEF E, V, s, first, next
<1>5. \A x \in V, e \in E :
          <<x, e>> \in V \X E /\ step[<<x, e>>] = next(x, e)
  OBVIOUS
<1>6. IsStep(step, V, E)
  <2>1. \A xe \in V \X E : next(xe[1], xe[2]) \in V
    BY <1>3
  <2> QED
    BY <2>1 DEF IsStep
<1> HIDE DEF step
<1>7. g = Body(g)
  <2>1. PICK f \in [0..Len(s) -> V] : IsLoop(f, s, first, step)
    BY <1>1, <1>2, <1>6, LoopExists
  <2>2. \A k \in 0..Len(s) : k # 0 => f[k - 1] \in V /\ s[k] \in E
    BY SMTT(30), <1>1
  <2>3. \A k \in 0..Len(s) :
            (IF k = 0 THEN first ELSE step[<<f[k - 1], s[k]>>])
                = (IF k = 0 THEN first ELSE next(f[k - 1], s[k]))
    BY <1>5, <2>2
  <2>4. f = Body(f)
    BY <2>1, <2>3 DEF IsLoop
  <2> QED
    BY <2>4
<1>8. Through(s, first, LAMBDA x, e : next(x, e)) = g[Len(s)]
  BY DEF Through
<1> HIDE DEF g
<1>9. /\ g[0] = first /\ Len(s) \in Nat
      /\ \A k \in 1..Len(s) : g[k] = next(g[k - 1], s[k]) /\ s[k] \in E
  <2>1. \A k \in 1..Len(s) : s[k] \in E /\ k \in 0..Len(s) /\ k # 0
    BY <1>1
  <2>2. 0 \in 0..Len(s) /\ Len(s) \in Nat
    BY <1>1
  <2> HIDE DEF Body
  <2>3. \A k \in 0..Len(s) : Body(g)[k] = IF k = 0 THEN first
                                        ELSE next(g[k - 1], s[k])
    BY DEF Body
  <2> QED
    BY <1>7, <2>1, <2>2, <2>3
<1>10. \A k \in 0..Len(s) : g[k] \in V
  <2> DEFINE S == {k \in 0..Len(s) : g[k] \in V}
  <2>1. 0 \in S
    BY <1>2, <1>9
  <2>2. ASSUME NEW k \in 1..Len(s), k - 1 \in S PROVE k \in S
    <3>1. k \in 0..Len(s) /\ g[k - 1] \in V /\ s[k] \in E
      BY <1>9, <2>2
    <3>2. g[k] = next(g[k - 1], s[k])
      BY <1>9
    <3>3. next(g[k - 1], s[k]) \in V
      BY <1>3, <3>1
    <3> QED
      BY <3>1, <3>2, <3>3
  <2>3. 0..Len(s) \subseteq S
    <3> HIDE DEF S
    <3> QED
      BY <1>9, <2>1, <2>2, CountsUp
  <2> QED
    BY <2>3
<1>11. g \in [0..Len(s) -> V]
  BY <1>7, <1>10
<1> QED
  BY <1>4, <1>8, <1>9, <1>11 DEF E, V, s, first, next

\* The rows of a matrix, one after the other.
LEMMA ForestLoop ==
    ASSUME NEW m, NEW o, m.rows \in Nat,
           \A row \in 1..m.rows : LowerColumns(m, o, row) \in Seq(1..m.rows)
    PROVE  \E g \in [0..m.rows -> ForestStates(m.rows)] :
               /\ g[0] = [parents |-> [i \in 1..m.rows |-> None],
                          ancestors |-> [i \in 1..m.rows |-> None]]
               /\ \A row \in 1..m.rows :
                      g[row] = RowEdges(g[row - 1], row, LowerColumns(m, o, row))
               /\ EliminationForest(m, o) = g[m.rows].parents
<1> DEFINE n == m.rows
           E == 1..n
           V == ForestStates(n)
           s == Indices(n)
           first == [parents |-> Constant(n, None), ancestors |-> Constant(n, None)]
           next(x, e) == RowEdges(x, e, LowerColumns(m, o, e))
<1>1. s \in Seq(E)
  BY IndicesAreTyped
<1>2. first \in V
  <2>1. Constant(n, None) = [i \in 1..n |-> None]
    BY ConstantFacts
  <2>2. [i \in 1..n |-> None] \in [1..n -> 0..n]
    BY DEF None
  <2> QED
    BY <2>1, <2>2 DEF ForestStates
<1>3. \A x \in V, e \in E : next(x, e) \in V
  <2> TAKE x \in V, e \in E
  <2>1. LowerColumns(m, o, e) \in Seq(1..n)
    OBVIOUS
  <2>2. PICK g \in [0..Len(LowerColumns(m, o, e)) -> ForestStates(n)] :
            /\ Len(LowerColumns(m, o, e)) \in Nat
            /\ next(x, e) = g[Len(LowerColumns(m, o, e))]
    BY <2>1, RowEdgesLoop
  <2> QED
    BY <2>2
<1>4. EliminationForest(m, o)
          = Through(s, first, LAMBDA x, e : next(x, e)).parents
  BY DEF EliminationForest, RowEdges, Through
<1> DEFINE step == [xe \in V \X E |-> next(xe[1], xe[2])]
           Body(h) == [k \in 0..Len(s) |-> IF k = 0 THEN first
                                           ELSE next(h[k - 1], s[k])]
           g == CHOOSE h : h = Body(h)
<1> HIDE DEF E, V, s, first, next
<1>5. \A x \in V, e \in E :
          <<x, e>> \in V \X E /\ step[<<x, e>>] = next(x, e)
  OBVIOUS
<1>6. IsStep(step, V, E)
  <2>1. \A xe \in V \X E : next(xe[1], xe[2]) \in V
    BY <1>3
  <2> QED
    BY <2>1 DEF IsStep
<1> HIDE DEF step
<1>7. g = Body(g)
  <2>1. PICK f \in [0..Len(s) -> V] : IsLoop(f, s, first, step)
    BY <1>1, <1>2, <1>6, LoopExists
  <2>2. \A k \in 0..Len(s) : k # 0 => f[k - 1] \in V /\ s[k] \in E
    BY <1>1
  <2>3. \A k \in 0..Len(s) :
            (IF k = 0 THEN first ELSE step[<<f[k - 1], s[k]>>])
                = (IF k = 0 THEN first ELSE next(f[k - 1], s[k]))
    BY <1>5, <2>2
  <2>4. f = Body(f)
    BY <2>1, <2>3 DEF IsLoop
  <2> QED
    BY <2>4
<1>8. Through(s, first, LAMBDA x, e : next(x, e)) = g[Len(s)]
  BY DEF Through
<1> HIDE DEF g
<1>9. /\ g[0] = first /\ Len(s) \in Nat
      /\ \A k \in 1..Len(s) : g[k] = next(g[k - 1], s[k]) /\ s[k] \in E
  <2>1. \A k \in 1..Len(s) : s[k] \in E /\ k \in 0..Len(s) /\ k # 0
    BY <1>1
  <2>2. 0 \in 0..Len(s) /\ Len(s) \in Nat
    BY <1>1
  <2> HIDE DEF Body
  <2>3. \A k \in 0..Len(s) : Body(g)[k] = IF k = 0 THEN first
                                        ELSE next(g[k - 1], s[k])
    BY DEF Body
  <2> QED
    BY <1>7, <2>1, <2>2, <2>3
<1>10. \A k \in 0..Len(s) : g[k] \in V
  <2> DEFINE S == {k \in 0..Len(s) : g[k] \in V}
  <2>1. 0 \in S
    BY <1>2, <1>9
  <2>2. ASSUME NEW k \in 1..Len(s), k - 1 \in S PROVE k \in S
    <3>1. k \in 0..Len(s) /\ g[k - 1] \in V /\ s[k] \in E
      BY <1>9, <2>2
    <3>2. g[k] = next(g[k - 1], s[k])
      BY <1>9
    <3>3. next(g[k - 1], s[k]) \in V
      BY <1>3, <3>1
    <3> QED
      BY <3>1, <3>2, <3>3
  <2>3. 0..Len(s) \subseteq S
    <3> HIDE DEF S
    <3> QED
      BY <1>9, <2>1, <2>2, CountsUp
  <2> QED
    BY <2>3
<1>11. g \in [0..Len(s) -> V]
  BY <1>7, <1>10
<1>12. Len(s) = n /\ \A k \in 1..n : s[k] = k
  BY IndicesFacts DEF s
<1>13. first = [parents |-> [i \in 1..n |-> None],
                ancestors |-> [i \in 1..n |-> None]]
  BY ConstantFacts DEF first
<1>14. g \in [0..n -> V]
  BY <1>11, <1>12
<1>15. \A k \in 1..n : g[k] = RowEdges(g[k - 1], k, LowerColumns(m, o, k))
  BY <1>9, <1>12 DEF next
<1>16. EliminationForest(m, o) = g[n].parents
  BY <1>4, <1>8, <1>12
<1> QED
  BY <1>9, <1>13, <1>14, <1>15, <1>16 DEF V, n

\* What is known of the forest in the middle of a row: a column that has a
\* parent has the right one, and all that have rows before this one have one;
\* an ancestor is on the line of its column; and the way up to this row is
\* known for whatever points there.
IsForestSoFar(s, F, line, n, row) ==
    /\ s \in ForestStates(n)
    /\ \A j \in 1..n :
           /\ s.parents[j] \in {None, ForestOf(F, n)[j]}
           /\ s.ancestors[j] = None <=> s.parents[j] = None
           /\ s.ancestors[j] # None =>
                  /\ s.ancestors[j] \in line[j]
                  /\ j < s.ancestors[j] /\ s.ancestors[j] <= row
           /\ (\E r \in F[j] : r < row) => s.parents[j] # None
           /\ s.ancestors[j] = row =>
                  \A k \in line[j] : k < row => s.parents[k] # None

\* An entry of the row completes the way from its column to the row.
LEMMA EdgeFits ==
    ASSUME NEW n \in Nat, NEW F, NEW own, IsFill(F, own, n),
           NEW line, AreLines(line, ForestOf(F, n), n),
           NEW row \in 1..n, NEW s, IsForestSoFar(s, F, line, n, row),
           NEW c \in 1..n, row \in own[c]
    PROVE  LET t == ProcessEdge(s, row, c)
           IN  /\ IsForestSoFar(t, F, line, n, row)
               /\ \A j \in 1..n : s.parents[j] # None => t.parents[j] # None
               /\ \A k \in line[c] : k < row => t.parents[k] # None
<1> DEFINE tree == ForestOf(F, n)
           up == s.ancestors
           stops == {None, row}
           R == Met(s, row, c)
           t == ProcessEdge(s, row, c)
<1>1. /\ s \in ForestStates(n) /\ up \in [1..n -> 0..n]
      /\ s.parents \in [1..n -> 0..n]
  BY DEF IsForestSoFar, ForestStates
<1>2. Climbs(up, n)
  BY <1>1 DEF IsForestSoFar, Climbs
<1>3. /\ t \in ForestStates(n)
      /\ \A i \in 1..n :
             /\ i \notin R => t.parents[i] = s.parents[i]
             /\ up[i] # None => t.parents[i] = s.parents[i]
             /\ i \in R => t.ancestors[i] = row
             /\ i \in R /\ up[i] = None => t.parents[i] = row
             /\ i \notin R => t.ancestors[i] = up[i]
  <2> HIDE DEF up
  <2>1. t \in ForestStates(n)
    BY <1>1, EdgeFacts
  <2>2. \A i \in 1..n : i \in R => t.ancestors[i] = row
    BY <1>1, EdgeFacts
  <2>3. \A i \in 1..n : i \notin R => t.ancestors[i] = up[i]
    BY <1>1, EdgeFacts DEF up
  <2>4. \A i \in 1..n : i \in R /\ up[i] = None => t.parents[i] = row
    BY <1>1, EdgeFacts DEF up
  <2>5. \A i \in 1..n : i \notin R => t.parents[i] = s.parents[i]
    BY <1>1, EdgeFacts
  <2>6. \A i \in 1..n : up[i] # None => t.parents[i] = s.parents[i]
    BY <1>1, EdgeFacts DEF up
  <2> HIDE DEF t, R
  <2> QED
    BY <2>1, <2>2, <2>3, <2>4, <2>5, <2>6
<1>15. /\ R \subseteq 1..n /\ R \cap stops = {}
       /\ c \notin stops => c \in R
       /\ \A k \in R : up[k] \in R \cup stops
       /\ \A T : c \in T
              /\ (\A k \in T : k \in 1..n /\ k \notin stops => up[k] \in T)
                  => R \subseteq T
  <2>1. None \in stops /\ c \in 0..n
    OBVIOUS
  <2>2. R = Range(Path(up, c, stops))
    BY DEF Met
  <2> HIDE DEF stops, R
  <2> QED
    BY <1>2, <2>1, <2>2, PathFacts
<1>4. /\ R \subseteq 1..n /\ R \cap stops = {}
      /\ c \notin stops => c \in R
      /\ \A k \in R : up[k] \in R \cup stops
  BY <1>15
<1>5. /\ \A j \in 1..n : j \in line[j] /\ line[j] \subseteq j..n
      /\ \A j \in 1..n : \A k \in line[j] : line[k] \subseteq line[j]
  BY LinesClimb, LinesPass
<1>6. row \in F[c] /\ c < row
  BY DEF IsFill
<1>7. \A k \in line[c] : k < row => row \in F[k]
  BY <1>6, FillGoesUp
<1>8. \A k \in line[c] : k < row =>
          tree[k] # None /\ tree[k] <= row /\ tree[k] \in line[c]
  <2> TAKE k \in line[c]
  <2> HAVE k < row
  <2>1. k \in 1..n /\ row \in F[k]
    BY <1>5, <1>7
  <2>2. tree[k] # None /\ tree[k] <= row /\ tree[k] \in F[k]
    BY <2>1, ForestClimbs
  <2>3. tree[k] \in line[k]
    BY <2>1, <2>2, FillClimbs
  <2> QED
    BY <1>5, <2>1, <2>2, <2>3
<1>9. R \subseteq line[c] /\ \A k \in R : k < row
  <2> DEFINE T == {k \in line[c] : k < row} \cup stops
  <2>1. c \in T
    BY <1>5, <1>6
  <2>2. ASSUME NEW k \in T, k \in 1..n, k \notin stops PROVE up[k] \in T
    <3>1. k \in line[c] /\ k < row
      BY <2>2
    <3>2. CASE up[k] = None
      BY <3>2
    <3>3. CASE up[k] # None
      <4>1. up[k] \in line[k] /\ up[k] <= row
        BY <2>2, <3>3 DEF IsForestSoFar
      <4>2. up[k] \in line[c]
        BY <1>5, <2>2, <3>1, <4>1
      <4>3. up[k] \in 1..n
        BY <1>1, <2>2, <3>3 DEF None
      <4> QED
        BY <4>1, <4>2, <4>3
    <3> QED
      BY <3>2, <3>3
  <2>3. R \subseteq T
    <3> HIDE DEF T, R, stops
    <3> QED
      BY <1>15, <2>1, <2>2
  <2> QED
    BY <1>4, <2>3
<1> HIDE DEF R, t
<1>10. \A k \in R : up[k] = None => tree[k] = row
  <2> TAKE k \in R
  <2> HAVE up[k] = None
  <2>1. /\ k \in 1..n /\ tree[k] # None /\ tree[k] <= row /\ row \in F[k]
        /\ tree[k] \in 1..n
    BY <1>4, <1>7, <1>8, <1>9, ForestClimbs DEF Climbs, None
  <2>2. s.parents[k] = None
    BY <2>1 DEF IsForestSoFar
  <2>3. tree[k] \in F[k]
    BY <2>1, ForestClimbs
  <2>4. ~(tree[k] < row)
    BY <2>1, <2>2, <2>3 DEF IsForestSoFar
  <2> QED
    BY <2>1, <2>4
<1>11. \A j \in 1..n : s.parents[j] # None => t.parents[j] # None
  BY <1>3 DEF None
<1>12. \A k \in line[c] : k < row => t.parents[k] # None
  <2> SUFFICES ASSUME NEW k \in line[c], k < row, t.parents[k] = None
               PROVE  FALSE
    OBVIOUS
  <2>1. /\ k \in 1..n /\ tree[k] # None /\ tree[k] \in 1..n /\ tree[k] <= row
        /\ tree[k] \in F[k]
    <3>1. k \in 1..n /\ row \in F[k] /\ tree[k] <= row
      BY <1>5, <1>7, <1>8
    <3>2. tree[k] \in F[k] /\ tree[k] # None
      BY <3>1, ForestClimbs
    <3> QED
      BY <3>1, <3>2 DEF IsFill, None
  <2>2. s.parents[k] = None /\ up[k] = None
    BY <1>11, <2>1 DEF IsForestSoFar
  <2>3. tree[k] = row
    BY <2>1, <2>2 DEF IsForestSoFar
  <2>4. k \notin R
    BY <1>3, <2>1, <2>2 DEF None
  <2> DEFINE T == {l \in R : l < k}
  <2>5. ASSUME NEW l \in line[c], l < row PROVE l <= k
    <3>1. CASE l <= k
      BY <3>1
    <3>2. CASE k <= l
      <4>1. l \in line[k] /\ l \in 1..n
        BY <1>5, <2>5, <3>2, LinesNest
      <4>2. l # k => l \in line[row] /\ l >= row
        <5>1. line[k] = {k} \cup line[row]
          BY <2>1, <2>3 DEF AreLines
        <5> QED
          BY <1>5, <4>1, <5>1
      <4> QED
        BY <2>5, <4>1, <4>2
    <3> QED
      BY <1>5, <3>1, <3>2
  <2>6. c \in T
    BY <1>4, <1>5, <1>6, <2>4, <2>5 DEF None
  <2>7. ASSUME NEW l \in T PROVE up[l] \in T
    <3>1. /\ l \in 1..n /\ l \in line[c] /\ l < k /\ up[l] \in R \cup stops
          /\ k \in line[l]
      <4>1. l \in R /\ l < k
        BY <2>7
      <4>2. l \in 1..n /\ l \in line[c] /\ up[l] \in R \cup stops
        BY <1>4, <1>9, <4>1
      <4> HIDE DEF T, stops
      <4>3. k \in line[l]
        BY <2>1, <4>1, <4>2, LinesNest
      <4> QED
        BY <4>1, <4>2, <4>3
    <3>2. up[l] # None
      <4>1. tree[l] # None /\ tree[l] \in line[c] /\ tree[l] \in 1..n
        BY <1>5, <1>8, <2>1, <3>1
      <4>2. tree[l] \in F[l] /\ tree[l] \in line[l]
        <5>1. tree[l] \in F[l]
          BY <3>1, <4>1, ForestClimbs DEF ForestOf
        <5> QED
          BY <3>1, <5>1, FillClimbs
      <4>3. tree[l] <= k
        <5>1. line[l] = {l} \cup line[tree[l]]
          BY <3>1, <4>1 DEF AreLines
        <5>2. k \in line[tree[l]]
          BY <3>1, <5>1
        <5> QED
          BY <1>5, <4>1, <5>2
      <4>4. tree[l] < row
        BY <2>1, <4>1, <4>3
      <4>5. s.parents[l] # None
        BY <3>1, <4>2, <4>4 DEF IsForestSoFar
      <4> QED
        BY <3>1, <4>5 DEF IsForestSoFar
    <3>3. up[l] # row
      <4>1. up[l] = row => s.parents[k] # None
        BY <3>1, <2>1 DEF IsForestSoFar
      <4> QED
        BY <2>2, <4>1
    <3>4. up[l] \in R
      BY <3>1, <3>2, <3>3
    <3>5. up[l] <= k /\ up[l] # k
      BY <1>9, <2>4, <2>5, <3>4
    <3>6. up[l] \in 1..n /\ k \in 1..n
      BY <1>4, <2>1, <3>4
    <3> QED
      BY <3>4, <3>5, <3>6
  <2>8. \E l \in T : \A i \in T : i <= l
    <3>1. T \subseteq R /\ R \subseteq 0..n /\ T # {}
      BY <1>4, <2>6
    <3> HIDE DEF T
    <3> QED
      BY <3>1, LargestIndex
  <2>9. PICK l \in T : \A i \in T : i <= l
    BY <2>8
  <2>10. up[l] \in T /\ up[l] > l
    <3>1. up[l] \in T /\ l \in 1..n
      BY <1>4, <2>7
    <3>2. up[l] # None
      BY <1>4, <3>1
    <3> QED
      BY <3>1, <3>2 DEF IsForestSoFar
  <2>11. l \in 1..n /\ up[l] \in 1..n /\ up[l] <= l
    BY <1>4, <2>9, <2>10
  <2> QED
    BY <2>10, <2>11
<1>13. ASSUME NEW j \in 1..n
       PROVE  /\ t.parents[j] \in {None, tree[j]}
              /\ t.ancestors[j] = None <=> t.parents[j] = None
              /\ t.ancestors[j] # None =>
                     /\ t.ancestors[j] \in line[j]
                     /\ j < t.ancestors[j] /\ t.ancestors[j] <= row
              /\ (\E r \in F[j] : r < row) => t.parents[j] # None
              /\ t.ancestors[j] = row =>
                     \A k \in line[j] : k < row => t.parents[k] # None
  <2>1. CASE j \in R
    <3>1. /\ j \in line[c] /\ j < row /\ line[j] \subseteq line[c]
          /\ t.ancestors[j] = row /\ row # None
      BY <1>3, <1>5, <1>9, <2>1 DEF None
    <3>2. row \in line[j]
      BY <1>7, <3>1, FillClimbs
    <3>3. t.parents[j] \in {None, tree[j]}
      BY <1>3, <1>10, <2>1 DEF IsForestSoFar
    <3>4. t.parents[j] # None
      BY <1>12, <3>1
    <3>5. \A k \in line[j] : k < row => t.parents[k] # None
      BY <1>12, <3>1
    <3> QED
      BY <3>1, <3>2, <3>3, <3>4, <3>5
  <2>2. CASE j \notin R
    <3>1. t.parents[j] = s.parents[j] /\ t.ancestors[j] = up[j]
      BY <1>3, <2>2
    <3>2. up[j] = row => \A k \in line[j] : k < row => t.parents[k] # None
      BY <1>5, <1>11 DEF IsForestSoFar
    <3> QED
      BY <3>1, <3>2 DEF IsForestSoFar
  <2> QED
    BY <2>1, <2>2
<1>14. IsForestSoFar(t, F, line, n, row)
  BY <1>3, <1>13 DEF IsForestSoFar
<1> QED
  BY <1>11, <1>12, <1>14 DEF t

\* All entries of a row give a parent to every column that has the row.
LEMMA RowFits ==
    ASSUME NEW n \in Nat, NEW F, NEW own, IsFill(F, own, n),
           NEW line, AreLines(line, ForestOf(F, n), n),
           NEW row \in 1..n, NEW s, IsForestSoFar(s, F, line, n, row),
           NEW columns \in Seq(1..n),
           \A c \in 1..n : c \in Range(columns) <=> row \in own[c]
    PROVE  IsForestSoFar(RowEdges(s, row, columns), F, line, n, row + 1)
<1> DEFINE len == Len(columns)
<1>1. PICK g \in [0..len -> ForestStates(n)] :
          /\ g[0] = s /\ len \in Nat
          /\ \A k \in 1..len :
                 /\ g[k] = ProcessEdge(g[k - 1], row, columns[k])
                 /\ columns[k] \in 1..n
          /\ RowEdges(s, row, columns) = g[len]
  <2>1. s \in ForestStates(n)
    BY DEF IsForestSoFar
  <2> QED
    BY ZenonT(40), <2>1, RowEdgesLoop
<1>2. \A k \in 1..len : row \in own[columns[k]]
  <2>1. \A k \in 1..len : columns[k] \in Range(columns)
    BY DEF Range
  <2> QED
    BY <1>1, <2>1
<1> DEFINE Done(k) == \A l \in 1..k : \A j \in line[columns[l]] :
                          j < row => g[k].parents[j] # None
           S == {k \in 0..len : IsForestSoFar(g[k], F, line, n, row) /\ Done(k)}
<1>3. 0 \in S
  BY <1>1
<1>4. ASSUME NEW k \in 1..len, k - 1 \in S PROVE k \in S
  <2>1. /\ columns[k] \in 1..n /\ row \in own[columns[k]]
        /\ g[k] = ProcessEdge(g[k - 1], row, columns[k])
        /\ IsForestSoFar(g[k - 1], F, line, n, row) /\ Done(k - 1)
    BY <1>1, <1>2, <1>4
  <2>2. /\ IsForestSoFar(g[k], F, line, n, row)
        /\ \A j \in 1..n : g[k - 1].parents[j] # None => g[k].parents[j] # None
        /\ \A j \in line[columns[k]] : j < row => g[k].parents[j] # None
    BY <2>1, EdgeFits
  <2>3. ASSUME NEW l \in 1..k, NEW j \in line[columns[l]], j < row
        PROVE  g[k].parents[j] # None
    <3>1. CASE l = k
      BY <2>2, <2>3, <3>1
    <3>2. CASE l # k
      <4>1. l \in 1..(k - 1) /\ columns[l] \in 1..n
        BY <1>1, <3>2
      <4>2. g[k - 1].parents[j] # None
        BY <2>1, <2>3, <4>1
      <4>3. j \in 1..n
        BY <4>1, LinesClimb
      <4> QED
        BY <2>2, <4>2, <4>3
    <3> QED
      BY <3>1, <3>2
  <2> QED
    BY <2>2, <2>3
<1>5. len \in S
  <2>1. 0..len \subseteq S
    <3> HIDE DEF S
    <3> QED
      BY <1>1, <1>3, <1>4, CountsUp
  <2> QED
    BY <1>1, <2>1
<1> DEFINE t == RowEdges(s, row, columns)
<1>6. /\ IsForestSoFar(t, F, line, n, row)
      /\ \A l \in 1..len : \A j \in line[columns[l]] :
             j < row => t.parents[j] # None
  BY <1>1, <1>5
<1> HIDE DEF t
<1>7. ASSUME NEW j \in 1..n, row \in F[j] PROVE t.parents[j] # None
  <2>1. PICK c \in 1..n : j \in line[c] /\ row \in own[c]
    BY <1>7, RowSubtrees
  <2>2. PICK l \in 1..len : columns[l] = c
    BY <2>1 DEF Range
  <2>3. j < row
    BY <1>7 DEF IsFill
  <2> QED
    BY <1>6, <2>1, <2>2, <2>3
<1>8. t.ancestors \in [1..n -> 0..n]
  BY <1>6 DEF IsForestSoFar, ForestStates
<1>9. ASSUME NEW j \in 1..n
      PROVE  /\ t.parents[j] \in {None, ForestOf(F, n)[j]}
             /\ t.ancestors[j] = None <=> t.parents[j] = None
             /\ t.ancestors[j] # None =>
                    /\ t.ancestors[j] \in line[j]
                    /\ j < t.ancestors[j] /\ t.ancestors[j] <= row + 1
             /\ (\E r \in F[j] : r < row + 1) => t.parents[j] # None
             /\ t.ancestors[j] = row + 1 =>
                    \A k \in line[j] : k < row + 1 => t.parents[k] # None
  <2>1. /\ t.parents[j] \in {None, ForestOf(F, n)[j]}
        /\ t.ancestors[j] = None <=> t.parents[j] = None
        /\ t.ancestors[j] # None =>
               /\ t.ancestors[j] \in line[j]
               /\ j < t.ancestors[j] /\ t.ancestors[j] <= row
    BY <1>6 DEF IsForestSoFar
  <2>2. ASSUME NEW r \in F[j], r < row + 1 PROVE t.parents[j] # None
    <3>1. r \in Nat /\ (r < row \/ r = row)
      BY <2>2 DEF IsFill
    <3>2. r < row => t.parents[j] # None
      BY <1>6 DEF IsForestSoFar
    <3> QED
      BY <1>7, <3>1, <3>2
  <2>3. t.ancestors[j] # row + 1
    BY <1>8, <2>1 DEF None
  <2>4. t.ancestors[j] # None => t.ancestors[j] <= row + 1
    BY <1>8, <2>1
  <2> QED
    BY <2>1, <2>2, <2>3, <2>4
<1>10. t \in ForestStates(n)
  BY <1>6 DEF IsForestSoFar
<1>11. IsForestSoFar(t, F, line, n, row + 1)
  BY <1>9, <1>10 DEF IsForestSoFar
<1> QED
  BY <1>11 DEF t

\* So all rows give every column its parent.
LEMMA EliminationForestFits ==
    ASSUME NEW m, NEW o, m.rows \in Nat, NEW F, NEW own, IsFill(F, own, m.rows),
           \A row \in 1..m.rows :
               /\ LowerColumns(m, o, row) \in Seq(1..m.rows)
               /\ \A c \in 1..m.rows :
                      c \in Range(LowerColumns(m, o, row)) <=> row \in own[c]
    PROVE  EliminationForest(m, o) = ForestOf(F, m.rows)
<1> DEFINE n == m.rows
           tree == ForestOf(F, n)
<1>1. PICK line : AreLines(line, tree, n)
  BY ForestClimbs, LinesOfClimbing
<1>2. PICK g \in [0..n -> ForestStates(n)] :
          /\ g[0] = [parents |-> [i \in 1..n |-> None],
                     ancestors |-> [i \in 1..n |-> None]]
          /\ \A row \in 1..n :
                 g[row] = RowEdges(g[row - 1], row, LowerColumns(m, o, row))
          /\ EliminationForest(m, o) = g[n].parents
  BY ForestLoop
<1> DEFINE S == {k \in 0..n : IsForestSoFar(g[k], F, line, n, k + 1)}
<1>3. 0 \in S
  <2>1. g[0] \in ForestStates(n)
    BY <1>2
  <2>2. ASSUME NEW j \in 1..n
        PROVE  g[0].parents[j] = None /\ g[0].ancestors[j] = None
    BY <1>2
  <2>3. \A j \in 1..n : ~ \E r \in F[j] : r < 0 + 1
    BY DEF IsFill
  <2>4. IsForestSoFar(g[0], F, line, n, 0 + 1)
    BY <2>1, <2>2, <2>3 DEF IsForestSoFar, None
  <2> QED
    BY <2>4
<1>4. ASSUME NEW k \in 1..n, k - 1 \in S PROVE k \in S
  <2>1. (k - 1) + 1 = k
    OBVIOUS
  <2>2. IsForestSoFar(g[k - 1], F, line, n, k)
    BY <1>4, <2>1
  <2>3. IsForestSoFar(RowEdges(g[k - 1], k, LowerColumns(m, o, k)), F, line,
                      n, k + 1)
    BY <1>1, <2>2, RowFits
  <2> QED
    BY <1>2, <2>3
<1>5. n \in S
  <2>1. 0..n \subseteq S
    <3> HIDE DEF S
    <3> QED
      BY <1>3, <1>4, CountsUp
  <2> QED
    BY <2>1
<1> DEFINE ps == g[n].parents
<1>6. /\ ps \in [1..n -> 0..n]
      /\ \A j \in 1..n : /\ ps[j] \in {None, tree[j]}
                         /\ (\E r \in F[j] : r < n + 1) => ps[j] # None
  BY <1>5 DEF IsForestSoFar, ForestStates
<1> HIDE DEF ps, S
<1>7. tree = [j \in 1..n |-> tree[j]]
  BY DEF ForestOf
<1>8. ASSUME NEW j \in 1..n PROVE ps[j] = tree[j]
  <2>1. CASE tree[j] = None
    BY <1>6, <2>1
  <2>2. CASE tree[j] # None
    <3>1. F[j] # {}
      BY <2>2 DEF ForestOf
    <3>2. PICK r \in F[j] : TRUE
      BY <3>1
    <3>3. r < n + 1
      BY <3>2 DEF IsFill
    <3> QED
      BY <1>6, <3>2, <3>3
  <2> QED
    BY <2>1, <2>2
<1> HIDE DEF tree
<1>9. ps = tree
  BY <1>6, <1>7, <1>8
<1> QED
  BY <1>2, <1>9 DEF ps, tree

-----------------------------------------------------------------------------
(***************************************************************************)
(* Postorders.                                                             *)
(***************************************************************************)
\* What is in a list with one element more.
LEMMA AppendFacts ==
    ASSUME NEW S, NEW q \in Seq(S), NEW x \in S
    PROVE  /\ Append(q, x) \in Seq(S) /\ Len(Append(q, x)) = Len(q) + 1
           /\ \A k \in 1..Len(q) : Append(q, x)[k] = q[k]
           /\ Append(q, x)[Len(q) + 1] = x
           /\ Range(Append(q, x)) = Range(q) \cup {x}
<1> DEFINE r == Append(q, x)
<1>1. /\ r \in Seq(S) /\ Len(r) = Len(q) + 1 /\ Len(q) \in Nat
      /\ \A k \in 1..Len(q) : r[k] = q[k]
      /\ r[Len(q) + 1] = x
      /\ DOMAIN r = 1..(Len(q) + 1) /\ DOMAIN q = 1..Len(q)
  OBVIOUS
<1> HIDE DEF r
<1>2. \A k \in DOMAIN r : k \in DOMAIN q \/ k = Len(q) + 1
  BY <1>1
<1>3. \A k \in DOMAIN q : k \in DOMAIN r /\ r[k] = q[k]
  BY <1>1
<1>4. Len(q) + 1 \in DOMAIN r
  BY <1>1
<1>5. Range(r) = Range(q) \cup {x}
  BY <1>1, <1>2, <1>3, <1>4 DEF Range
<1> QED
  BY <1>1, <1>5 DEF r

\* A list in which nothing is twice.
IsInjectiveList(q) == \A k, l \in 1..Len(q) : q[k] = q[l] => k = l

\* The indices with p above them, all of them and once.
LEMMA FilteredAll ==
    ASSUME NEW n \in Nat, NEW up, NEW p
    PROVE  LET q == Filtered(Indices(n), LAMBDA i : up[i] = p)
           IN  /\ q \in Seq(1..n) /\ IsInjectiveList(q)
               /\ Range(q) = {i \in 1..n : up[i] = p}
<1> DEFINE E == 1..n
           V == Seq(1..n)
           s == Indices(n)
           first == <<>>
           next(x, e) == IF up[e] = p THEN Append(x, e) ELSE x
<1>1. s \in Seq(E)
  BY IndicesAreTyped
<1>2. first \in V
  OBVIOUS
<1>3. \A x \in V, e \in E : next(x, e) \in V
  <2>1. \A x \in V, e \in E : Append(x, e) \in V
    OBVIOUS
  <2> HIDE DEF V
  <2> QED
    BY <2>1
<1>4. Filtered(Indices(n), LAMBDA i : up[i] = p)
          = Through(s, first, LAMBDA x, e : next(x, e))
  BY DEF Filtered, Through
<1>12. Len(s) = n /\ \A k \in 1..n : s[k] = k
  BY IndicesFacts
<1> DEFINE step == [xe \in V \X E |-> next(xe[1], xe[2])]
           Body(h) == [k \in 0..Len(s) |-> IF k = 0 THEN first
                                           ELSE next(h[k - 1], s[k])]
           g == CHOOSE h : h = Body(h)
<1> HIDE DEF E, V, s, first, next
<1>5. \A x \in V, e \in E :
          <<x, e>> \in V \X E /\ step[<<x, e>>] = next(x, e)
  OBVIOUS
<1>6. IsStep(step, V, E)
  <2>1. \A xe \in V \X E : next(xe[1], xe[2]) \in V
    BY <1>3
  <2> QED
    BY <2>1 DEF IsStep
<1> HIDE DEF step
<1>7. g = Body(g)
  <2>1. PICK f \in [0..Len(s) -> V] : IsLoop(f, s, first, step)
    BY <1>1, <1>2, <1>6, LoopExists
  <2>2. \A k \in 0..Len(s) : k # 0 => f[k - 1] \in V /\ s[k] \in E
    <3>1. Len(s) \in Nat /\ \A k \in 1..Len(s) : s[k] \in E
      BY <1>1
    <3>2. \A k \in 0..Len(s) : k # 0 => k \in 1..Len(s) /\ k - 1 \in 0..Len(s)
      BY <3>1
    <3> QED
      BY <3>1, <3>2
  <2>3. \A k \in 0..Len(s) :
            (IF k = 0 THEN first ELSE step[<<f[k - 1], s[k]>>])
                = (IF k = 0 THEN first ELSE next(f[k - 1], s[k]))
    BY <1>5, <2>2
  <2>4. f = Body(f)
    BY <2>1, <2>3 DEF IsLoop
  <2> QED
    BY <2>4
<1>8. Through(s, first, LAMBDA x, e : next(x, e)) = g[Len(s)]
  BY DEF Through
<1> HIDE DEF g
<1>9. /\ g[0] = first /\ Len(s) \in Nat
      /\ \A k \in 1..Len(s) : g[k] = next(g[k - 1], s[k]) /\ s[k] \in E
  <2>1. \A k \in 1..Len(s) : s[k] \in E /\ k \in 0..Len(s) /\ k # 0
    BY <1>1
  <2>2. 0 \in 0..Len(s) /\ Len(s) \in Nat
    BY <1>1
  <2> HIDE DEF Body
  <2>3. \A k \in 0..Len(s) : Body(g)[k] = IF k = 0 THEN first
                                        ELSE next(g[k - 1], s[k])
    BY DEF Body
  <2> QED
    BY <1>7, <2>1, <2>2, <2>3
<1>10. \A k \in 0..Len(s) : g[k] \in V
  <2> DEFINE S == {k \in 0..Len(s) : g[k] \in V}
  <2>1. 0 \in S
    BY <1>2, <1>9
  <2>2. ASSUME NEW k \in 1..Len(s), k - 1 \in S PROVE k \in S
    <3>1. k \in 0..Len(s) /\ g[k - 1] \in V /\ s[k] \in E
      BY <1>9, <2>2
    <3>2. g[k] = next(g[k - 1], s[k])
      BY <1>9
    <3>3. next(g[k - 1], s[k]) \in V
      BY <1>3, <3>1
    <3> QED
      BY <3>1, <3>2, <3>3
  <2>3. 0..Len(s) \subseteq S
    <3> HIDE DEF S
    <3> QED
      BY <1>9, <2>1, <2>2, CountsUp
  <2> QED
    BY <2>3
<1>11. g \in [0..Len(s) -> V]
  BY <1>7, <1>10
<1>13. /\ g[0] = <<>> /\ g \in [0..n -> Seq(1..n)]
       /\ \A k \in 1..n : g[k] = next(g[k - 1], k)
  BY <1>9, <1>11, <1>12 DEF V, first
<1> DEFINE Good(k) == /\ IsInjectiveList(g[k])
                      /\ Range(g[k]) = {i \in 1..k : up[i] = p}
           S == {k \in 0..n : Good(k)}
<1>14. 0 \in S
  <2>1. Range(<<>>) = {} /\ IsInjectiveList(<<>>)
    BY DEF Range, IsInjectiveList
  <2> QED
    BY <1>13, <2>1
<1>15. ASSUME NEW k \in 1..n, k - 1 \in S PROVE k \in S
  <2> DEFINE q == g[k - 1]
  <2>1. /\ q \in Seq(1..n) /\ IsInjectiveList(q)
        /\ Range(q) = {i \in 1..(k - 1) : up[i] = p} /\ g[k] = next(q, k)
    BY <1>13, <1>15
  <2> HIDE DEF q
  <2>2. CASE up[k] = p
    <3>1. g[k] = Append(q, k)
      BY <2>1, <2>2 DEF next
    <3> DEFINE r == Append(q, k)
    <3>2. /\ Len(r) = Len(q) + 1 /\ Len(q) \in Nat
          /\ \A l \in 1..Len(q) : r[l] = q[l]
          /\ r[Len(q) + 1] = k /\ Range(r) = Range(q) \cup {k}
      BY <2>1, AppendFacts
    <3> HIDE DEF r
    <3>3. \A l \in 1..Len(q) : q[l] # k
      <4>1. \A l \in 1..Len(q) : q[l] \in Range(q)
        BY <2>1 DEF Range
      <4> QED
        BY <2>1, <4>1
    <3>4. \A l \in 1..Len(r) : l \in 1..Len(q) \/ l = Len(q) + 1
      BY <3>2
    <3>5. IsInjectiveList(r)
      BY SMTT(30), <2>1, <3>2, <3>3, <3>4 DEF IsInjectiveList
    <3>6. Range(r) = {i \in 1..k : up[i] = p}
      BY <2>1, <2>2, <3>2
    <3>7. Good(k)
      BY <3>1, <3>5, <3>6 DEF r
    <3> QED
      BY <3>7
  <2>3. CASE up[k] # p
    <3>1. g[k] = q
      BY <2>1, <2>3 DEF next
    <3>2. {i \in 1..(k - 1) : up[i] = p} = {i \in 1..k : up[i] = p}
      BY <2>3
    <3> QED
      BY <2>1, <3>1, <3>2
  <2> QED
    BY <2>2, <2>3
<1>16. n \in S
  <2>1. 0..n \subseteq S
    <3> HIDE DEF S
    <3> QED
      BY <1>14, <1>15, CountsUp
  <2> QED
    BY <2>1
<1>17. /\ g[n] \in Seq(1..n) /\ IsInjectiveList(g[n])
       /\ Range(g[n]) = {i \in 1..n : up[i] = p}
  BY <1>13, <1>16
<1> QED
  BY <1>4, <1>8, <1>12, <1>17

\* A column and those below it.
Subtree(line, n, s) == {d \in 1..n : s \in line[d]}

\* A list in which every column comes right after those below it.
IsPostordered(q, line, n) ==
    /\ q \in Seq(1..n) /\ IsInjectiveList(q)
    /\ \A x \in Range(q) : Subtree(line, n, x) \subseteq Range(q)
    /\ \A k, l \in 1..Len(q) : q[k] \in line[q[l]] => l <= k
    /\ \A k, l, i \in 1..Len(q) :
           q[k] \in line[q[l]] /\ l <= i /\ i <= k => q[k] \in line[q[i]]

\* Two such lists with nothing in common, one after the other.
Apart(p, q) == Range(p) \cap Range(q) = {}
LEMMA PostordersJoin ==
    ASSUME NEW n \in Nat, NEW line, NEW p, IsPostordered(p, line, n),
           NEW q, IsPostordered(q, line, n), Apart(p, q)
    PROVE  /\ IsPostordered(p \o q, line, n)
           /\ Range(p \o q) = Range(p) \cup Range(q)
<1> DEFINE r == p \o q
           a == Len(p)
           b == Len(q)
<1>1. p \in Seq(1..n) /\ q \in Seq(1..n)
  BY DEF IsPostordered
<1>2. /\ r \in Seq(1..n) /\ a \in Nat /\ b \in Nat /\ Len(r) = a + b
      /\ \A k \in 1..a : r[k] = p[k]
      /\ \A k \in 1..b : r[a + k] = q[k]
  BY <1>1
<1>3. /\ Range(r) = Range(p) \cup Range(q)
      /\ Range(p) \cap Range(q) = {}
  BY <1>1, RangeOfJoined DEF Apart
<1>4. /\ \A k \in 1..a : p[k] \in Range(p) /\ p[k] \in 1..n
      /\ \A k \in 1..b : q[k] \in Range(q) /\ q[k] \in 1..n
  BY <1>1 DEF Range
<1> HIDE DEF r, a, b
<1>5. \A k \in 1..Len(r) :
          \/ k \in 1..a /\ r[k] = p[k]
          \/ k > a /\ k - a \in 1..b /\ r[k] = q[k - a]
  <2> TAKE k \in 1..Len(r)
  <2>1. CASE k > a
    <3>1. k - a \in 1..b /\ a + (k - a) = k
      BY <1>2, <2>1
    <3> QED
      BY <1>2, <2>1, <3>1
  <2>2. CASE ~(k > a)
    BY <1>2, <2>2
  <2> QED
    BY <2>1, <2>2
<1>6. /\ \A k, l \in 1..a : p[k] = p[l] => k = l
      /\ \A k, l \in 1..b : q[k] = q[l] => k = l
  BY DEF IsPostordered, IsInjectiveList, a, b
<1>7. \A k, l \in 1..Len(r) : r[k] = r[l] => k = l
  <2> TAKE k, l \in 1..Len(r)
  <2> HAVE r[k] = r[l]
  <2>1. CASE k \in 1..a /\ r[k] = p[k]
    <3>1. l \in 1..a /\ r[l] = p[l]
      BY <1>3, <1>4, <1>5, <2>1
    <3> QED
      BY <1>6, <2>1, <3>1
  <2>2. CASE k > a /\ k - a \in 1..b /\ r[k] = q[k - a]
    <3>1. l > a /\ l - a \in 1..b /\ r[l] = q[l - a]
      BY <1>3, <1>4, <1>5, <2>2
    <3>2. k - a = l - a
      BY <1>6, <2>2, <3>1
    <3> QED
      BY <1>2, <3>2
  <2> QED
    BY <1>5, <2>1, <2>2
<1>8. /\ \A x \in Range(p) : Subtree(line, n, x) \subseteq Range(p)
      /\ \A x \in Range(q) : Subtree(line, n, x) \subseteq Range(q)
  BY DEF IsPostordered
<1>9. /\ \A k \in 1..a : \A d \in 1..n : p[k] \in line[d] => d \in Range(p)
      /\ \A k \in 1..b : \A d \in 1..n : q[k] \in line[d] => d \in Range(q)
  BY <1>4, <1>8 DEF Subtree
<1>10. ASSUME NEW k \in 1..Len(r), NEW l \in 1..Len(r), r[k] \in line[r[l]]
       PROVE  \/ /\ k \in 1..a /\ r[k] = p[k] /\ l \in 1..a /\ r[l] = p[l]
              \/ /\ k > a /\ k - a \in 1..b /\ r[k] = q[k - a]
                 /\ l > a /\ l - a \in 1..b /\ r[l] = q[l - a]
  <2>1. CASE k \in 1..a /\ r[k] = p[k]
    <3>1. r[l] \in Range(p)
      BY <1>4, <1>5, <1>9, <1>10, <2>1
    <3> QED
      BY <1>3, <1>4, <1>5, <2>1, <3>1
  <2>2. CASE k > a /\ k - a \in 1..b /\ r[k] = q[k - a]
    <3>1. r[l] \in Range(q)
      BY <1>4, <1>5, <1>9, <1>10, <2>2
    <3> QED
      BY <1>3, <1>4, <1>5, <2>2, <3>1
  <2> QED
    BY <1>5, <2>1, <2>2
<1>11. /\ \A k, l \in 1..a : p[k] \in line[p[l]] => l <= k
       /\ \A k, l \in 1..b : q[k] \in line[q[l]] => l <= k
       /\ \A k, l, i \in 1..a :
              p[k] \in line[p[l]] /\ l <= i /\ i <= k => p[k] \in line[p[i]]
       /\ \A k, l, i \in 1..b :
              q[k] \in line[q[l]] /\ l <= i /\ i <= k => q[k] \in line[q[i]]
  BY DEF IsPostordered, a, b
<1>12. \A k, l \in 1..Len(r) : r[k] \in line[r[l]] => l <= k
  <2> TAKE k, l \in 1..Len(r)
  <2> HAVE r[k] \in line[r[l]]
  <2>1. k \in 1..a /\ r[k] = p[k] /\ l \in 1..a /\ r[l] = p[l] => l <= k
    BY <1>11
  <2>2. ASSUME k > a, k - a \in 1..b, r[k] = q[k - a],
               l > a, l - a \in 1..b, r[l] = q[l - a]
        PROVE  l - a <= k - a
    <3>1. q[k - a] \in line[q[l - a]]
      BY <2>2
    <3> DEFINE x == k - a
               y == l - a
    <3>2. x \in 1..b /\ y \in 1..b /\ q[x] \in line[q[y]]
      BY <2>2, <3>1
    <3> HIDE DEF x, y
    <3>3. y <= x
      BY <1>11, <3>2
    <3> QED
      BY <3>3 DEF x, y
  <2>3. l - a <= k - a => l <= k
    BY <1>2
  <2> QED
    BY <1>10, <2>1, <2>2, <2>3
<1>13. \A k, l, i \in 1..Len(r) :
           r[k] \in line[r[l]] /\ l <= i /\ i <= k => r[k] \in line[r[i]]
  <2> TAKE k, l, i \in 1..Len(r)
  <2> HAVE r[k] \in line[r[l]] /\ l <= i /\ i <= k
  <2>1. CASE k \in 1..a /\ r[k] = p[k] /\ l \in 1..a /\ r[l] = p[l]
    <3>1. i \in 1..a
      BY <1>2, <2>1
    <3>2. r[i] = p[i]
      BY <1>2, <3>1
    <3> QED
      BY <1>11, <2>1, <3>1, <3>2
  <2>2. CASE /\ k > a /\ k - a \in 1..b /\ r[k] = q[k - a]
             /\ l > a /\ l - a \in 1..b /\ r[l] = q[l - a]
    <3>1. i > a /\ i - a \in 1..b /\ l - a <= i - a /\ i - a <= k - a
      BY <1>2, <2>2
    <3>2. r[i] = q[i - a]
      BY <1>2, <1>5, <3>1
    <3> QED
      BY <1>11, <2>2, <3>1, <3>2
  <2> QED
    BY <1>10, <2>1, <2>2
<1>14. \A x \in Range(r) : Subtree(line, n, x) \subseteq Range(r)
  BY <1>3, <1>8
<1>15. IsPostordered(r, line, n)
  BY <1>2, <1>7, <1>12, <1>13, <1>14 DEF IsPostordered, IsInjectiveList
<1> QED
  BY <1>3, <1>15 DEF r

\* What is below a column, and then the column.
LEMMA PostorderEnds ==
    ASSUME NEW n \in Nat, NEW line, NEW up, AreLines(line, up, n),
           NEW q, IsPostordered(q, line, n), NEW s \in 1..n,
           Range(q) = Subtree(line, n, s) \ {s}
    PROVE  /\ IsPostordered(Append(q, s), line, n)
           /\ Range(Append(q, s)) = Subtree(line, n, s)
<1> DEFINE r == Append(q, s)
           b == Len(q)
<1>1. q \in Seq(1..n)
  BY DEF IsPostordered
<1>2. /\ r \in Seq(1..n) /\ b \in Nat /\ Len(r) = b + 1
      /\ \A k \in 1..b : r[k] = q[k]
      /\ r[b + 1] = s /\ Range(r) = Range(q) \cup {s}
  BY <1>1, AppendFacts
<1>3. \A k \in 1..b : /\ q[k] \in Range(q) /\ q[k] \in 1..n
                      /\ q[k] # s /\ s \in line[q[k]]
  <2>1. \A k \in 1..b : q[k] \in Range(q)
    BY <1>1 DEF Range
  <2> QED
    BY <2>1 DEF Subtree
<1>4. s \in line[s]
  BY LinesClimb
<1>5. Range(r) = Subtree(line, n, s)
  BY <1>2, <1>4 DEF Subtree
<1> HIDE DEF r, b
<1>6. \A k \in 1..Len(r) : k \in 1..b \/ k = b + 1
  BY <1>2
<1>7. \A k \in 1..b : q[k] \notin line[s]
  <2> SUFFICES ASSUME NEW k \in 1..b, q[k] \in line[s] PROVE FALSE
    OBVIOUS
  <2>1. q[k] \in s..n /\ s \in q[k]..n
    BY <1>3, LinesClimb
  <2> QED
    BY <1>3, <2>1
<1>8. /\ \A k, l \in 1..b : q[k] = q[l] => k = l
      /\ \A k, l \in 1..b : q[k] \in line[q[l]] => l <= k
      /\ \A k, l, i \in 1..b :
             q[k] \in line[q[l]] /\ l <= i /\ i <= k => q[k] \in line[q[i]]
  BY DEF IsPostordered, IsInjectiveList, b
<1>9. \A k, l \in 1..Len(r) : r[k] = r[l] => k = l
  BY <1>2, <1>3, <1>6, <1>8
<1>10. \A k, l \in 1..Len(r) : r[k] \in line[r[l]] => l <= k
  <2> TAKE k, l \in 1..Len(r)
  <2> HAVE r[k] \in line[r[l]]
  <2>1. CASE k = b + 1
    BY <1>2, <2>1
  <2>2. CASE k \in 1..b
    <3>1. l \in 1..b
      BY <1>2, <1>6, <1>7, <2>2
    <3> QED
      BY <1>2, <1>8, <2>2, <3>1
  <2> QED
    BY <1>6, <2>1, <2>2
<1>11. \A k, l, i \in 1..Len(r) :
           r[k] \in line[r[l]] /\ l <= i /\ i <= k => r[k] \in line[r[i]]
  <2> TAKE k, l, i \in 1..Len(r)
  <2> HAVE r[k] \in line[r[l]] /\ l <= i /\ i <= k
  <2>1. CASE k = b + 1
    BY <1>2, <1>3, <1>4, <1>6, <2>1
  <2>2. CASE k \in 1..b
    <3>1. l \in 1..b /\ i \in 1..b
      BY <1>2, <2>2
    <3> QED
      BY <1>2, <1>8, <2>2, <3>1
  <2> QED
    BY <1>6, <2>1, <2>2
<1>12. \A x \in Range(r) : Subtree(line, n, x) \subseteq Range(r)
  <2> TAKE x \in Range(r)
  <2>1. x \in 1..n /\ s \in line[x]
    BY <1>5 DEF Subtree
  <2>2. ASSUME NEW d \in 1..n, x \in line[d] PROVE s \in line[d]
    BY <2>1, <2>2, LinesPass
  <2> QED
    BY <1>5, <2>2 DEF Subtree
<1>13. IsPostordered(r, line, n)
  BY <1>2, <1>9, <1>10, <1>11, <1>12 DEF IsPostordered, IsInjectiveList
<1> QED
  BY <1>5, <1>13 DEF r

\* Lists that are joined, one after the other.
Chained(t, part) == Through(t, <<>>, LAMBDA done, c : done \o part[c])
AreParts(part, t, n) == \A c \in Range(t) : part[c] \in Seq(1..n)
LEMMA ChainLoop ==
    ASSUME NEW n \in Nat, NEW t \in Seq(1..n), NEW part, AreParts(part, t, n)
    PROVE  \E g \in [0..Len(t) -> Seq(1..n)] :
               /\ g[0] = <<>> /\ Len(t) \in Nat
               /\ \A k \in 1..Len(t) : /\ g[k] = g[k - 1] \o part[t[k]]
                                       /\ t[k] \in Range(t)
               /\ Chained(t, part) = g[Len(t)]
<1> DEFINE E == Range(t)
           V == Seq(1..n)
           s == t
           first == <<>>
           next(x, e) == x \o part[e]
<1>1. s \in Seq(E)
  <2>1. DOMAIN t = 1..Len(t) /\ Len(t) \in Nat
    OBVIOUS
  <2>2. \A k \in 1..Len(t) : t[k] \in Range(t)
    BY <2>1 DEF Range
  <2> QED
    BY <2>2
<1>2. first \in V
  OBVIOUS
<1>3. \A x \in V, e \in E : next(x, e) \in V
  BY DEF AreParts
<1>4. Chained(t, part) = Through(s, first, LAMBDA x, e : next(x, e))
  BY DEF Chained, Through
<1> DEFINE step == [xe \in V \X E |-> next(xe[1], xe[2])]
           Body(h) == [k \in 0..Len(s) |-> IF k = 0 THEN first
                                           ELSE next(h[k - 1], s[k])]
           g == CHOOSE h : h = Body(h)
<1> HIDE DEF E, V, s, first, next
<1>5. \A x \in V, e \in E :
          <<x, e>> \in V \X E /\ step[<<x, e>>] = next(x, e)
  OBVIOUS
<1>6. IsStep(step, V, E)
  <2>1. \A xe \in V \X E : next(xe[1], xe[2]) \in V
    BY <1>3
  <2> QED
    BY <2>1 DEF IsStep
<1> HIDE DEF step
<1>7. g = Body(g)
  <2>1. PICK f \in [0..Len(s) -> V] : IsLoop(f, s, first, step)
    BY <1>1, <1>2, <1>6, LoopExists
  <2>2. \A k \in 0..Len(s) : k # 0 => f[k - 1] \in V /\ s[k] \in E
    <3>1. Len(s) \in Nat /\ \A k \in 1..Len(s) : s[k] \in E
      BY <1>1
    <3>2. \A k \in 0..Len(s) : k # 0 => k \in 1..Len(s) /\ k - 1 \in 0..Len(s)
      BY <3>1
    <3> QED
      BY <3>1, <3>2
  <2>3. \A k \in 0..Len(s) :
            (IF k = 0 THEN first ELSE step[<<f[k - 1], s[k]>>])
                = (IF k = 0 THEN first ELSE next(f[k - 1], s[k]))
    BY <1>5, <2>2
  <2>4. f = Body(f)
    BY <2>1, <2>3 DEF IsLoop
  <2> QED
    BY <2>4
<1>8. Through(s, first, LAMBDA x, e : next(x, e)) = g[Len(s)]
  BY DEF Through
<1> HIDE DEF g
<1>9. /\ g[0] = first /\ Len(s) \in Nat
      /\ \A k \in 1..Len(s) : g[k] = next(g[k - 1], s[k]) /\ s[k] \in E
  <2>1. \A k \in 1..Len(s) : s[k] \in E /\ k \in 0..Len(s) /\ k # 0
    BY <1>1
  <2>2. 0 \in 0..Len(s) /\ Len(s) \in Nat
    BY <1>1
  <2> HIDE DEF Body
  <2>3. \A k \in 0..Len(s) : Body(g)[k] = IF k = 0 THEN first
                                        ELSE next(g[k - 1], s[k])
    BY DEF Body
  <2> QED
    BY <1>7, <2>1, <2>2, <2>3
<1>10. \A k \in 0..Len(s) : g[k] \in V
  <2> DEFINE S == {k \in 0..Len(s) : g[k] \in V}
  <2>1. 0 \in S
    BY <1>2, <1>9
  <2>2. ASSUME NEW k \in 1..Len(s), k - 1 \in S PROVE k \in S
    <3>1. k \in 0..Len(s) /\ g[k - 1] \in V /\ s[k] \in E
      BY <1>9, <2>2
    <3>2. g[k] = next(g[k - 1], s[k])
      BY <1>9
    <3>3. next(g[k - 1], s[k]) \in V
      BY <1>3, <3>1
    <3> QED
      BY <3>1, <3>2, <3>3
  <2>3. 0..Len(s) \subseteq S
    <3> HIDE DEF S
    <3> QED
      BY <1>9, <2>1, <2>2, CountsUp
  <2> QED
    BY <2>3
<1>11. g \in [0..Len(s) -> V]
  BY <1>7, <1>10
<1> QED
  BY <1>4, <1>8, <1>9, <1>11 DEF E, V, s, first, next

\* They only depend on what is joined.
LEMMA ChainsAgree ==
    ASSUME NEW n \in Nat, NEW t \in Seq(1..n), NEW f, NEW h,
           AreParts(f, t, n), \A c \in Range(t) : h[c] = f[c]
    PROVE  Chained(t, f) = Chained(t, h)
<1>0. AreParts(h, t, n)
  BY DEF AreParts
<1>1. PICK g \in [0..Len(t) -> Seq(1..n)] :
          /\ g[0] = <<>> /\ Len(t) \in Nat
          /\ \A k \in 1..Len(t) : g[k] = g[k - 1] \o f[t[k]] /\ t[k] \in Range(t)
          /\ Chained(t, f) = g[Len(t)]
  BY ZenonT(40), ChainLoop
<1>2. PICK d \in [0..Len(t) -> Seq(1..n)] :
          /\ d[0] = <<>> /\ Len(t) \in Nat
          /\ \A k \in 1..Len(t) : d[k] = d[k - 1] \o h[t[k]] /\ t[k] \in Range(t)
          /\ Chained(t, h) = d[Len(t)]
  BY ZenonT(40), <1>0, ChainLoop
<1> DEFINE len == Len(t)
           S == {k \in 0..len : g[k] = d[k]}
<1>3. 0 \in S
  BY <1>1, <1>2
<1>4. ASSUME NEW k \in 1..len, k - 1 \in S PROVE k \in S
  <2>1. /\ g[k] = g[k - 1] \o f[t[k]] /\ t[k] \in Range(t)
        /\ d[k] = d[k - 1] \o h[t[k]] /\ g[k - 1] = d[k - 1]
    BY <1>1, <1>2, <1>4
  <2>2. g[k] = d[k]
    BY <2>1
  <2> QED
    BY <2>2
<1>5. 0..len \subseteq S
  <2> HIDE DEF S
  <2> QED
    BY <1>1, <1>3, <1>4, CountsUp
<1> QED
  BY <1>1, <1>2, <1>5

\* Columns with the same parent, or without one, have nothing below both.
LEMMA SubtreesApart ==
    ASSUME NEW n \in Nat, NEW line, NEW up, AreLines(line, up, n),
           NEW c \in 1..n, NEW d \in 1..n, c # d, up[c] = up[d]
    PROVE  Subtree(line, n, c) \cap Subtree(line, n, d) = {}
<1> SUFFICES ASSUME NEW x \in 1..n, c \in line[x], d \in line[x] PROVE FALSE
  BY DEF Subtree
<1>1. ASSUME NEW a \in 1..n, NEW b \in 1..n, a < b, up[a] = up[b],
             a \in line[x], b \in line[x]
      PROVE  FALSE
  <2>1. b \in line[a]
    BY <1>1, LinesNest
  <2>2. up[b] # None /\ b \in line[up[b]] /\ up[b] \in 1..n /\ up[b] > b
    BY <1>1, <2>1 DEF AreLines
  <2>3. line[up[b]] \subseteq up[b]..n
    BY <2>2, LinesClimb
  <2> QED
    BY <2>2, <2>3
<1>2. c < d \/ d < c
  OBVIOUS
<1> QED
  BY <1>1, <1>2

\* Below a column are its children and what is below them.
AreChildren(C, up, n, s) == C = {i \in 1..n : up[i] = s}
SubtreesOf(line, n, C) == UNION {Subtree(line, n, c) : c \in C}
LEMMA SubtreeOfChildren ==
    ASSUME NEW n \in Nat, NEW line, NEW up, AreLines(line, up, n),
           NEW s \in 1..n, NEW C, AreChildren(C, up, n, s)
    PROVE  SubtreesOf(line, n, C) = Subtree(line, n, s) \ {s}
<1>1. ASSUME NEW c \in 1..n, up[c] = s, NEW x \in Subtree(line, n, c)
      PROVE  x \in Subtree(line, n, s) /\ x # s
  <2>1. x \in 1..n /\ c \in line[x]
    BY <1>1 DEF Subtree
  <2>2. s > c /\ s \in line[s] /\ line[s] \subseteq line[c]
    BY <1>1, LinesClimb DEF AreLines, None
  <2>3. line[c] \subseteq line[x]
    BY <2>1, LinesPass
  <2>4. s \in line[x]
    BY <2>2, <2>3
  <2>5. x # s
    BY <2>1, <2>2, LinesClimb
  <2> QED
    BY <2>1, <2>4, <2>5 DEF Subtree
<1>2. ASSUME NEW x \in Subtree(line, n, s), x # s
      PROVE  \E c \in 1..n : up[c] = s /\ x \in Subtree(line, n, c)
  <2>1. x \in 1..n /\ s \in line[x]
    BY <1>2 DEF Subtree
  <2>2. PICK c \in 1..n : up[c] = s /\ c \in line[x]
    BY <1>2, <2>1, LinesArrive
  <2> QED
    BY <2>1, <2>2 DEF Subtree
<1> QED
  BY <1>1, <1>2 DEF SubtreesOf, AreChildren

\* The postorders of several subtrees, one after the other.
AreSiblings(t, up, p) == \A c \in Range(t) : up[c] = p
ArePostorders(f, t, line, n) ==
    \A c \in Range(t) : /\ IsPostordered(f[c], line, n)
                        /\ Range(f[c]) = Subtree(line, n, c)
LEMMA PostordersChain ==
    ASSUME NEW n \in Nat, NEW line, NEW up, AreLines(line, up, n), NEW p,
           NEW t \in Seq(1..n), IsInjectiveList(t), AreSiblings(t, up, p),
           NEW f, ArePostorders(f, t, line, n)
    PROVE  /\ IsPostordered(Chained(t, f), line, n)
           /\ Range(Chained(t, f))
                  = SubtreesOf(line, n, Range(t))
<1> DEFINE len == Len(t)
<1>1. AreParts(f, t, n) /\ \A c \in Range(t) : c \in 1..n
  <2>1. \A c \in Range(t) : f[c] \in Seq(1..n)
    BY DEF ArePostorders, IsPostordered
  <2>2. \A c \in Range(t) : c \in 1..n
    BY DEF Range
  <2> QED
    BY <2>1, <2>2 DEF AreParts
<1>2. PICK g \in [0..len -> Seq(1..n)] :
          /\ g[0] = <<>> /\ len \in Nat
          /\ \A k \in 1..len : g[k] = g[k - 1] \o f[t[k]] /\ t[k] \in Range(t)
          /\ Chained(t, f) = g[len]
  <2> HIDE DEF len
  <2> QED
    BY ZenonT(40), <1>1, ChainLoop DEF len
<1>3. Range(t) = {t[k] : k \in 1..len}
  BY DEF Range
<1>4. \A k, l \in 1..len : t[k] = t[l] => k = l
  BY DEF IsInjectiveList
<1> HIDE DEF len
<1> DEFINE Before(k) == UNION {Subtree(line, n, t[l]) : l \in 1..k}
           S == {k \in 0..len : /\ IsPostordered(g[k], line, n)
                                /\ Range(g[k]) = Before(k)}
<1>5. 0 \in S
  <2>1. Range(<<>>) = {} /\ IsPostordered(<<>>, line, n)
    BY DEF Range, IsPostordered, IsInjectiveList
  <2>2. Before(0) = {}
    OBVIOUS
  <2> QED
    BY <1>2, <2>1, <2>2
<1>6. ASSUME NEW k \in 1..len, k - 1 \in S PROVE k \in S
  <2>1. /\ IsPostordered(g[k - 1], line, n) /\ Range(g[k - 1]) = Before(k - 1)
        /\ g[k] = g[k - 1] \o f[t[k]] /\ t[k] \in Range(t) /\ t[k] \in 1..n
    BY <1>1, <1>2, <1>6
  <2>2. Before(k - 1) \cap Subtree(line, n, t[k]) = {}
    <3>1. ASSUME NEW l \in 1..(k - 1)
          PROVE  Subtree(line, n, t[l]) \cap Subtree(line, n, t[k]) = {}
      <4>1. l \in 1..len /\ l # k
        BY <1>2
      <4>2. t[l] # t[k] /\ t[l] \in Range(t) /\ t[l] \in 1..n
        BY <1>1, <1>2, <1>4, <4>1
      <4> QED
        BY <2>1, <4>2, SubtreesApart DEF AreSiblings
    <3> QED
      BY <3>1
  <2>3. Before(k) = Before(k - 1) \cup Subtree(line, n, t[k])
    <3>1. \A l \in 1..k : l \in 1..(k - 1) \/ l = k
      OBVIOUS
    <3>2. \A l \in 1..(k - 1) : l \in 1..k
      OBVIOUS
    <3> QED
      BY <3>1, <3>2
  <2> HIDE DEF Before
  <2>4. /\ IsPostordered(f[t[k]], line, n)
        /\ Range(f[t[k]]) = Subtree(line, n, t[k])
    BY <2>1 DEF ArePostorders
  <2> DEFINE x == g[k - 1]
             y == f[t[k]]
  <2>5. /\ IsPostordered(x, line, n) /\ IsPostordered(y, line, n)
        /\ Apart(x, y) /\ g[k] = x \o y
        /\ Range(x) = Before(k - 1) /\ Range(y) = Subtree(line, n, t[k])
    BY <2>1, <2>2, <2>4 DEF Apart
  <2> HIDE DEF x, y
  <2>6. /\ IsPostordered(x \o y, line, n)
        /\ Range(x \o y) = Range(x) \cup Range(y)
    BY <2>5, PostordersJoin
  <2> QED
    <3>1. Range(g[k]) = Before(k)
      BY <2>3, <2>5, <2>6, Zenon
    <3>2. IsPostordered(g[k], line, n)
      BY <2>5, <2>6, Zenon
    <3> QED
      BY <3>1, <3>2
<1>7. len \in S
  <2>1. 0..len \subseteq S
    <3> HIDE DEF S
    <3> QED
      BY <1>2, <1>5, <1>6, CountsUp
  <2> QED
    BY <1>2, <2>1
<1>8. Before(len) = SubtreesOf(line, n, Range(t))
  BY <1>3 DEF SubtreesOf
<1> QED
  BY <1>2, <1>7, <1>8

\* The children of a column, and the columns without a parent.
LEMMA ForestLists ==
    ASSUME NEW n \in Nat, NEW up \in [1..n -> 0..n]
    PROVE  LET forest == FillFromParents(up)
           IN  /\ forest.parents = up
               /\ \A p \in 1..n :
                      /\ forest.children[p] \in Seq(1..n)
                      /\ IsInjectiveList(forest.children[p])
                      /\ Range(forest.children[p]) = {i \in 1..n : up[i] = p}
               /\ forest.roots \in Seq(1..n) /\ IsInjectiveList(forest.roots)
               /\ Range(forest.roots) = {i \in 1..n : up[i] = None}
<1> DEFINE list(p) == Filtered(Indices(n), LAMBDA i : up[i] = p)
           lists == [p \in 1..n |-> list(p)]
<1>1. up = [i \in 1..n |-> up[i]]
  OBVIOUS
<1>2. Len(up) = n /\ DOMAIN up = 1..n
  BY <1>1, WrittenDown
<1>3. FillFromParents(up)
          = [parents |-> up, children |-> <<>> \o lists, roots |-> list(None),
             postorder |-> <<>>, firsts |-> <<>>]
  BY <1>2 DEF FillFromParents
<1>4. \A p : /\ list(p) \in Seq(1..n) /\ IsInjectiveList(list(p))
             /\ Range(list(p)) = {i \in 1..n : up[i] = p}
  BY FilteredAll
<1> HIDE DEF list
<1>5. <<>> \o lists = lists
  <2>1. lists = [p \in 1..n |-> lists[p]]
    OBVIOUS
  <2> HIDE DEF lists
  <2> QED
    BY <2>1, WrittenDown
<1> QED
  BY <1>3, <1>4, <1>5

\* The postorder of a subtree.
LEMMA PostorderOfSubtree ==
    ASSUME NEW n \in Nat, NEW up, Climbs(up, n), NEW line, AreLines(line, up, n)
    PROVE  \E part :
               /\ \A s : FillPostorderImpl(s, FillFromParents(up)) = part[s]
               /\ \A s \in 1..n : /\ IsPostordered(part[s], line, n)
                                  /\ Range(part[s]) = Subtree(line, n, s)
<1> DEFINE D == 1..n
           V == Seq(1..n)
           forest == FillFromParents(up)
           kids(s) == forest.children[s]
           Body(f) == [s \in D |-> Append(Chained(kids(s), f), s)]
           G == [f \in [D -> V] |-> Body(f)]
           rank == [s \in D |-> s]
           K == n + 1
<1>1. /\ up \in [1..n -> 0..n]
      /\ \A s \in 1..n : up[s] = None \/ up[s] > s
  BY DEF Climbs
<1>2. /\ DOMAIN forest.parents = D
      /\ \A s \in D : /\ kids(s) \in Seq(1..n) /\ IsInjectiveList(kids(s))
                      /\ Range(kids(s)) = {i \in 1..n : up[i] = s}
                      /\ \A c \in Range(kids(s)) : c \in D /\ c < s
  <2>1. /\ DOMAIN forest.parents = D
        /\ \A s \in D : /\ kids(s) \in Seq(1..n) /\ IsInjectiveList(kids(s))
                        /\ Range(kids(s)) = {i \in 1..n : up[i] = s}
    BY <1>1, ForestLists
  <2>2. \A s \in D : \A i \in 1..n : up[i] = s => i < s
    BY <1>1 DEF None
  <2> HIDE DEF forest, D
  <2> QED
    BY <2>1, <2>2 DEF D
<1> HIDE DEF forest, kids
<1>3. \A f \in [D -> V], s \in D : AreParts(f, kids(s), n)
  BY <1>2 DEF AreParts
<1>4. \A f \in [D -> V], s \in D : Append(Chained(kids(s), f), s) \in V
  <2> TAKE f \in [D -> V], s \in D
  <2> DEFINE t == kids(s)
  <2>1. t \in Seq(1..n) /\ AreParts(f, t, n)
    BY <1>2, <1>3
  <2> HIDE DEF t, D, V
  <2>2. PICK g \in [0..Len(t) -> Seq(1..n)] :
            /\ g[0] = <<>> /\ Len(t) \in Nat
            /\ \A k \in 1..Len(t) : /\ g[k] = g[k - 1] \o f[t[k]]
                                    /\ t[k] \in Range(t)
            /\ Chained(t, f) = g[Len(t)]
    BY ZenonT(40), <2>1, ChainLoop
  <2>3. Chained(t, f) \in Seq(1..n)
    BY <2>2
  <2>4. Append(Chained(t, f), s) \in V
    BY <2>3 DEF D, V
  <2> QED
    BY <2>4 DEF t
<1>5. ASSUME NEW f \in [D -> V], NEW g \in [D -> V], NEW s \in D,
             \A e \in D : rank[e] < rank[s] => f[e] = g[e]
      PROVE  G[f][s] = G[g][s]
  <2>1. AreParts(f, kids(s), n) /\ \A c \in Range(kids(s)) : g[c] = f[c]
    BY <1>2, <1>3, <1>5
  <2>2. Chained(kids(s), f) = Chained(kids(s), g)
    BY <1>2, <2>1, ChainsAgree
  <2> QED
    BY <2>2
<1>6. G \in [[D -> V] -> [D -> V]]
  <2>1. ASSUME NEW f \in [D -> V] PROVE Body(f) \in [D -> V]
    <3> HIDE DEF D, V
    <3> QED
      BY <1>4
  <2> HIDE DEF Body, D, V
  <2> QED
    BY <2>1
<1>7. PICK f \in [D -> V] : f = Body(f)
  <2>1. <<>> \in V
    OBVIOUS
  <2>2. K \in Nat /\ rank \in [D -> Nat] /\ \A d \in D : rank[d] < K
    OBVIOUS
  <2>3. Determined(D, V, rank, K, G)
    <3> HIDE DEF G, D, rank, K, V
    <3> QED
      BY <1>5, <1>6, <2>2 DEF Determined
  <2>4. \E f \in [D -> V] : f = G[f]
    <3> HIDE DEF G, D, rank, K, V
    <3> QED
      BY <2>1, <2>3, RecursionExists
  <2> QED
    BY <2>4
<1> DEFINE sub == CHOOSE h : h = Body(h)
<1>8. sub = Body(sub)
  BY <1>7
<1>9. \A s : FillPostorderImpl(s, forest) = sub[s]
  BY <1>2 DEF FillPostorderImpl, Chained, kids
<1> HIDE DEF sub
<1>10. \A s \in D : sub[s] = Append(Chained(kids(s), sub), s)
  BY <1>8
<1> DEFINE Good(s) == /\ IsPostordered(sub[s], line, n)
                      /\ Range(sub[s]) = Subtree(line, n, s)
           Wrong == {s \in D : ~Good(s)}
<1>11. ASSUME NEW s \in D, \A c \in D : c < s => Good(c) PROVE Good(s)
  <2> DEFINE t == kids(s)
  <2>1. /\ t \in Seq(1..n) /\ IsInjectiveList(t)
        /\ Range(t) = {i \in 1..n : up[i] = s}
        /\ \A c \in Range(t) : c \in D /\ c < s
    BY <1>2
  <2>2. sub[s] = Append(Chained(t, sub), s)
    BY <1>10
  <2> HIDE DEF t
  <2>3. ArePostorders(sub, t, line, n)
    BY <1>11, <2>1 DEF ArePostorders
  <2>4. AreSiblings(t, up, s)
    BY <2>1 DEF AreSiblings
  <2> DEFINE q == Chained(t, sub)
  <2>5. /\ IsPostordered(q, line, n)
        /\ Range(q) = SubtreesOf(line, n, Range(t))
    <3>1. IsPostordered(q, line, n)
      BY <2>1, <2>3, <2>4, PostordersChain
    <3>2. Range(q) = SubtreesOf(line, n, Range(t))
      <4>1. t \in Seq(1..n) /\ IsInjectiveList(t)
        BY <2>1
      <4> HIDE DEF q
      <4>2. Range(Chained(t, sub)) = SubtreesOf(line, n, Range(t))
        BY <4>1, <2>3, <2>4, PostordersChain, Zenon
      <4> QED
        BY <4>2 DEF q
    <3> QED
      BY <3>1, <3>2
  <2>6. SubtreesOf(line, n, Range(t)) = Subtree(line, n, s) \ {s}
    <3>1. AreChildren(Range(t), up, n, s)
      BY <2>1 DEF AreChildren
    <3> QED
      BY <3>1, SubtreeOfChildren
  <2>7. sub[s] = Append(q, s)
    BY <2>2
  <2> HIDE DEF q
  <2> QED
    BY <2>5, <2>6, <2>7, PostorderEnds
<1>12. Wrong = {}
  <2> SUFFICES ASSUME Wrong # {} PROVE FALSE
    OBVIOUS
  <2>1. PICK s \in Wrong : \A c \in Wrong : s <= c
    <3> Wrong \subseteq Nat
      OBVIOUS
    <3> HIDE DEF Wrong
    <3> QED
      BY LeastElement
  <2>2. s \in D /\ ~Good(s) /\ \A c \in D : c < s => Good(c)
    <3> HIDE DEF Good
    <3> QED
      BY <2>1
  <2> HIDE DEF Good
  <2> QED
    BY <1>11, <2>2
<1>13. \A s \in 1..n : Good(s)
  BY <1>12
<1>14. \A s : FillPostorderImpl(s, FillFromParents(up)) = sub[s]
  BY <1>9 DEF forest
<1> QED
  BY <1>13, <1>14

\* All that are below columns without a parent, one subtree after the other.
ArePosts(part, up) ==
    \A s : FillPostorderImpl(s, FillFromParents(up)) = part[s]
LEMMA PostorderChains ==
    ASSUME NEW n \in Nat, NEW up, Climbs(up, n), NEW part,
           ArePosts(part, up),
           AreParts(part, FillFromParents(up).roots, n)
    PROVE  PostorderFromEliminationForest(up)
               = Chained(FillFromParents(up).roots, part)
<1> DEFINE forest == FillFromParents(up)
           E == Range(forest.roots)
           V == Seq(1..n)
           s == forest.roots
           first == <<>>
           next(x, e) == x \o FillPostorderImpl(e, forest)
<1>0. /\ s \in Seq(1..n) /\ AreParts(part, s, n)
      /\ \A e : FillPostorderImpl(e, forest) = part[e]
  BY ForestLists DEF Climbs, ArePosts
<1> HIDE DEF forest
<1>1. s \in Seq(E)
  <2> DEFINE t == s
  <2>1. t \in Seq(1..n)
    BY <1>0
  <2> HIDE DEF t
  <2>2. DOMAIN t = 1..Len(t) /\ Len(t) \in Nat
    BY <2>1
  <2>3. \A k \in 1..Len(t) : t[k] \in Range(t)
    BY <2>2 DEF Range
  <2>4. t \in Seq(Range(t))
    BY <2>1, <2>3
  <2> QED
    BY <2>4 DEF t
<1>2. first \in V
  OBVIOUS
<1>3. \A x \in V, e \in E : next(x, e) \in V
  <2>1. \A e \in E : FillPostorderImpl(e, forest) \in Seq(1..n)
    BY <1>0 DEF AreParts
  <2> QED
    BY <2>1
<1>4. PostorderFromEliminationForest(up)
          = Through(s, first, LAMBDA x, e : next(x, e))
  BY DEF PostorderFromEliminationForest, Through, forest
<1>12. \A x, e : next(x, e) = x \o part[e]
  BY <1>0
<1>13. s \in Seq(1..n) /\ AreParts(part, s, n)
  BY <1>0
<1> DEFINE step == [xe \in V \X E |-> next(xe[1], xe[2])]
           Body(h) == [k \in 0..Len(s) |-> IF k = 0 THEN first
                                           ELSE next(h[k - 1], s[k])]
           g == CHOOSE h : h = Body(h)
<1> HIDE DEF E, V, s, first, next
<1>5. \A x \in V, e \in E :
          <<x, e>> \in V \X E /\ step[<<x, e>>] = next(x, e)
  OBVIOUS
<1>6. IsStep(step, V, E)
  <2>1. \A xe \in V \X E : next(xe[1], xe[2]) \in V
    BY <1>3
  <2> QED
    BY <2>1 DEF IsStep
<1> HIDE DEF step
<1>7. g = Body(g)
  <2>1. PICK f \in [0..Len(s) -> V] : IsLoop(f, s, first, step)
    BY <1>1, <1>2, <1>6, LoopExists
  <2>2. \A k \in 0..Len(s) : k # 0 => f[k - 1] \in V /\ s[k] \in E
    <3>1. Len(s) \in Nat /\ \A k \in 1..Len(s) : s[k] \in E
      BY <1>1
    <3>2. \A k \in 0..Len(s) : k # 0 => k \in 1..Len(s) /\ k - 1 \in 0..Len(s)
      BY <3>1
    <3> QED
      BY <3>1, <3>2
  <2>3. \A k \in 0..Len(s) :
            (IF k = 0 THEN first ELSE step[<<f[k - 1], s[k]>>])
                = (IF k = 0 THEN first ELSE next(f[k - 1], s[k]))
    BY <1>5, <2>2
  <2>4. f = Body(f)
    BY <2>1, <2>3 DEF IsLoop
  <2> QED
    BY <2>4
<1>8. Through(s, first, LAMBDA x, e : next(x, e)) = g[Len(s)]
  BY DEF Through
<1> HIDE DEF g
<1>9. /\ g[0] = first /\ Len(s) \in Nat
      /\ \A k \in 1..Len(s) : g[k] = next(g[k - 1], s[k]) /\ s[k] \in E
  <2>1. \A k \in 1..Len(s) : s[k] \in E /\ k \in 0..Len(s) /\ k # 0
    BY <1>1
  <2>2. 0 \in 0..Len(s) /\ Len(s) \in Nat
    BY <1>1
  <2> HIDE DEF Body
  <2>3. \A k \in 0..Len(s) : Body(g)[k] = IF k = 0 THEN first
                                        ELSE next(g[k - 1], s[k])
    BY DEF Body
  <2> QED
    BY <1>7, <2>1, <2>2, <2>3
<1>10. \A k \in 0..Len(s) : g[k] \in V
  <2> DEFINE S == {k \in 0..Len(s) : g[k] \in V}
  <2>1. 0 \in S
    BY <1>2, <1>9
  <2>2. ASSUME NEW k \in 1..Len(s), k - 1 \in S PROVE k \in S
    <3>1. k \in 0..Len(s) /\ g[k - 1] \in V /\ s[k] \in E
      BY <1>9, <2>2
    <3>2. g[k] = next(g[k - 1], s[k])
      BY <1>9
    <3>3. next(g[k - 1], s[k]) \in V
      BY <1>3, <3>1
    <3> QED
      BY <3>1, <3>2, <3>3
  <2>3. 0..Len(s) \subseteq S
    <3> HIDE DEF S
    <3> QED
      BY <1>9, <2>1, <2>2, CountsUp
  <2> QED
    BY <2>3
<1>11. g \in [0..Len(s) -> V]
  BY <1>7, <1>10
<1>14. PICK d \in [0..Len(s) -> Seq(1..n)] :
           /\ d[0] = <<>> /\ Len(s) \in Nat
           /\ \A k \in 1..Len(s) : /\ d[k] = d[k - 1] \o part[s[k]]
                                   /\ s[k] \in Range(s)
           /\ Chained(s, part) = d[Len(s)]
  <2>1. \A t \in Seq(1..n) : AreParts(part, t, n) =>
            \E h \in [0..Len(t) -> Seq(1..n)] :
                /\ h[0] = <<>> /\ Len(t) \in Nat
                /\ \A k \in 1..Len(t) : /\ h[k] = h[k - 1] \o part[t[k]]
                                        /\ t[k] \in Range(t)
                /\ Chained(t, part) = h[Len(t)]
    BY ZenonT(40), ChainLoop
  <2> QED
    BY <1>13, <2>1
<1> DEFINE S == {k \in 0..Len(s) : g[k] = d[k]}
<1>15. 0 \in S
  BY <1>9, <1>14 DEF first
<1>16. ASSUME NEW k \in 1..Len(s), k - 1 \in S PROVE k \in S
  <2>1. g[k] = next(g[k - 1], s[k]) /\ g[k - 1] = d[k - 1]
    BY <1>9, <1>16
  <2>2. d[k] = d[k - 1] \o part[s[k]]
    BY <1>14
  <2>3. next(g[k - 1], s[k]) = g[k - 1] \o part[s[k]]
    BY <1>12
  <2>4. g[k] = d[k]
    BY <2>1, <2>2, <2>3, Zenon
  <2> QED
    BY <2>4
<1>17. 0..Len(s) \subseteq S
  <2> HIDE DEF S
  <2> QED
    BY <1>14, <1>15, <1>16, CountsUp
<1>18. g[Len(s)] = d[Len(s)]
  BY <1>14, <1>17
<1>19. PostorderFromEliminationForest(up) = Chained(s, part)
  BY <1>4, <1>8, <1>14, <1>18
<1> QED
  BY <1>19 DEF s, forest

\* Every column once, and in a postorder.
LEMMA PostorderFits ==
    ASSUME NEW n \in Nat, NEW up, Climbs(up, n), NEW line, AreLines(line, up, n)
    PROVE  LET q == PostorderFromEliminationForest(up)
           IN  /\ IsPostordered(q, line, n)
               /\ Range(q) = 1..n /\ Len(q) = n
<1> DEFINE forest == FillFromParents(up)
           t == forest.roots
           q == PostorderFromEliminationForest(up)
<1>1. /\ t \in Seq(1..n) /\ IsInjectiveList(t)
      /\ Range(t) = {i \in 1..n : up[i] = None}
  BY ForestLists DEF Climbs
<1>2. PICK part :
          /\ \A s : FillPostorderImpl(s, forest) = part[s]
          /\ \A s \in 1..n : /\ IsPostordered(part[s], line, n)
                             /\ Range(part[s]) = Subtree(line, n, s)
  BY PostorderOfSubtree
<1>3. ArePostorders(part, t, line, n) /\ AreParts(part, t, n)
  <2>1. ArePostorders(part, t, line, n)
    BY <1>1, <1>2 DEF ArePostorders
  <2> QED
    BY <2>1 DEF ArePostorders, IsPostordered, AreParts
<1>4. AreSiblings(t, up, None)
  BY <1>1 DEF AreSiblings
<1>5. q = Chained(t, part)
  BY <1>2, <1>3, PostorderChains DEF ArePosts
<1> HIDE DEF t, q
<1>6. IsPostordered(q, line, n)
  <2>1. t \in Seq(1..n) /\ IsInjectiveList(t)
    BY <1>1
  <2>2. IsPostordered(Chained(t, part), line, n)
    BY <2>1, <1>3, <1>4, PostordersChain
  <2> QED
    BY <1>5, <2>2
<1>7. Range(q) = SubtreesOf(line, n, Range(t))
  <2>1. t \in Seq(1..n) /\ IsInjectiveList(t)
    BY <1>1
  <2>2. Range(Chained(t, part)) = SubtreesOf(line, n, Range(t))
    BY <2>1, <1>3, <1>4, PostordersChain, Zenon
  <2> QED
    BY <1>5, <2>2
<1>8. \A x \in 1..n : \E r \in 1..n : up[r] = None /\ r \in line[x]
  <2> DEFINE Wrong == {x \in 1..n :
                 ~\E r \in 1..n : up[r] = None /\ r \in line[x]}
  <2>1. ASSUME NEW x \in Wrong PROVE \E y \in Wrong : y > x
    <3>1. x \in 1..n /\ x \in line[x]
      BY LinesClimb
    <3>2. up[x] # None
      BY <2>1, <3>1
    <3>3. up[x] \in 1..n /\ up[x] > x /\ line[up[x]] \subseteq line[x]
      BY <3>1, <3>2 DEF AreLines
    <3> QED
      BY <2>1, <3>3
  <2>2. Wrong = {}
    <3> Wrong \subseteq 1..n
      OBVIOUS
    <3> HIDE DEF Wrong
    <3> QED
      BY <2>1, FromAbove
  <2> QED
    BY <2>2
<1>9. Range(q) = 1..n
  <2>1. \A x : x \in SubtreesOf(line, n, Range(t)) <=> x \in 1..n
    <3>1. \A x \in SubtreesOf(line, n, Range(t)) : x \in 1..n
      BY DEF SubtreesOf, Subtree
    <3>2. ASSUME NEW x \in 1..n PROVE x \in SubtreesOf(line, n, Range(t))
      <4>1. PICK r \in 1..n : up[r] = None /\ r \in line[x]
        BY <1>8
      <4>2. r \in Range(t) /\ x \in Subtree(line, n, r)
        BY <1>1, <4>1 DEF Subtree
      <4> QED
        BY <4>2 DEF SubtreesOf
    <3> QED
      BY <3>1, <3>2
  <2> QED
    BY <1>7, <2>1
<1>10. Len(q) = n
  <2>1. /\ q \in Seq(1..n) /\ IsInjectiveList(q) /\ Len(q) \in Nat
        /\ DOMAIN q = 1..Len(q)
    BY <1>6 DEF IsPostordered
  <2>2. q \in Bijection(1..Len(q), 1..n)
    <3>1. q \in [1..Len(q) -> 1..n]
      BY <2>1
    <3>2. \A a, b \in 1..Len(q) : q[a] = q[b] => a = b
      BY <2>1 DEF IsInjectiveList
    <3>3. \A x \in 1..n : \E k \in 1..Len(q) : q[k] = x
      BY <1>9, <2>1 DEF Range
    <3> QED
      BY <3>1, <3>2, <3>3 DEF Bijection, Injection, Surjection, IsInjective
  <2>3. Cardinality(1..n) = Len(q)
    BY <2>1, <2>2, FS_CountingElements DEF ExistsBijection
  <2>4. Cardinality(1..n) = n
    BY FS_Interval
  <2> QED
    BY <2>3, <2>4
<1> QED
  BY <1>6, <1>9, <1>10 DEF q

-----------------------------------------------------------------------------
(***************************************************************************)
(* The first descendants of the columns.                                   *)
(***************************************************************************)
\* A set that has the parents of all that it has, has the whole lines.
LEMMA LineWithin ==
    ASSUME NEW n \in Nat, NEW line, NEW up, AreLines(line, up, n),
           NEW U, \A x \in U : x \in 1..n /\ (up[x] = None \/ up[x] \in U)
    PROVE  \A x \in U : line[x] \subseteq U
<1> DEFINE Wrong == {x \in U : ~(line[x] \subseteq U)}
<1>1. ASSUME NEW x \in Wrong PROVE \E y \in Wrong : y > x
  <2>1. x \in U /\ x \in 1..n
    OBVIOUS
  <2>2. up[x] # None
    BY <1>1, <2>1 DEF AreLines
  <2>3. up[x] \in U /\ up[x] > x /\ line[x] = {x} \cup line[up[x]]
    BY <2>1, <2>2 DEF AreLines
  <2> QED
    BY <1>1, <2>1, <2>3
<1>2. Wrong = {}
  <2> Wrong \subseteq 1..n
    OBVIOUS
  <2> HIDE DEF Wrong
  <2> QED
    BY <1>1, FromAbove
<1> QED
  BY <1>2

\* All columns in a postorder.
IsWholePostorder(q, line, n) ==
    IsPostordered(q, line, n) /\ Range(q) = 1..n /\ Len(q) = n
LEMMA WholePostorder ==
    ASSUME NEW n \in Nat, NEW line, NEW q, IsWholePostorder(q, line, n)
    PROVE  /\ \A k \in 1..n : q[k] \in 1..n
           /\ \A k, l \in 1..n : q[k] = q[l] => k = l
           /\ \A x \in 1..n : \E k \in 1..n : q[k] = x
           /\ \A k, l \in 1..n : q[k] \in line[q[l]] => l <= k
           /\ \A k, l, i \in 1..n :
                  q[k] \in line[q[l]] /\ l <= i /\ i <= k => q[k] \in line[q[i]]
<1>1. q \in Seq(1..n) /\ Len(q) = n /\ Range(q) = 1..n
  BY DEF IsWholePostorder, IsPostordered
<1>2. DOMAIN q = 1..n
  BY <1>1
<1>3. \A x \in 1..n : \E k \in 1..n : q[k] = x
  BY <1>1, <1>2 DEF Range
<1>4. \A k \in 1..n : q[k] \in 1..n
  BY <1>1, <1>2
<1>5. /\ \A k, l \in 1..n : q[k] = q[l] => k = l
      /\ \A k, l \in 1..n : q[k] \in line[q[l]] => l <= k
      /\ \A k, l, i \in 1..n :
             q[k] \in line[q[l]] /\ l <= i /\ i <= k => q[k] \in line[q[i]]
  BY <1>1 DEF IsWholePostorder, IsPostordered, IsInjectiveList
<1> QED
  BY <1>3, <1>4, <1>5

\* Parent by parent, a walk meets the columns of the line and then none.
Walk(up, t) ==
    Through(Indices(Len(up)), <<t>>, LAMBDA line, i :
        IF Last(line) = None THEN line ELSE Append(line, up[Last(line)]))
LEMMA WalkFacts ==
    ASSUME NEW n \in Nat, NEW up, Climbs(up, n), NEW line, AreLines(line, up, n),
           NEW t \in 1..n
    PROVE  \A x \in 1..n : x \in Range(Walk(up, t)) <=> x \in line[t]
<1> DEFINE E == 1..n
           V == Seq(0..n) \ {<<>>}
           s == Indices(Len(up))
           first == <<t>>
           next(x, e) == IF Last(x) = None THEN x ELSE Append(x, up[Last(x)])
<1>0. /\ up \in [1..n -> 0..n] /\ Len(up) = n
  <2>1. up \in [1..n -> 0..n]
    BY DEF Climbs
  <2>2. up = [i \in 1..n |-> up[i]]
    BY <2>1
  <2> QED
    BY <2>1, <2>2, WrittenDown
<1>1. s \in Seq(E)
  BY <1>0, IndicesAreTyped
<1>2. first \in V
  <2>1. first \in Seq(0..n) /\ first # <<>>
    OBVIOUS
  <2> QED
    BY <2>1
<1>3. \A x \in V, e \in E : next(x, e) \in V
  <2> TAKE x \in V, e \in E
  <2>1. x \in Seq(0..n) /\ x # <<>>
    OBVIOUS
  <2>2. Last(x) \in 0..n
    BY <2>1 DEF Last
  <2>3. CASE Last(x) # None
    <3>1. up[Last(x)] \in 0..n
      BY <1>0, <2>2, <2>3 DEF None
    <3>2. Append(x, up[Last(x)]) \in Seq(0..n)
      BY <2>1, <3>1
    <3>3. Append(x, up[Last(x)]) # <<>>
      BY <2>1, <3>1
    <3> QED
      BY <2>3, <3>2, <3>3
  <2> QED
    BY <2>3
<1>4. Walk(up, t) = Through(s, first, LAMBDA x, e : next(x, e))
  BY DEF Walk, Through
<1>12. Len(s) = n
  BY <1>0, IndicesFacts
<1>13. first = <<t>> /\ V = Seq(0..n) \ {<<>>}
  OBVIOUS
<1>14. \A x, e : next(x, e) = IF Last(x) = None THEN x ELSE Append(x, up[Last(x)])
  OBVIOUS
<1> DEFINE step == [xe \in V \X E |-> next(xe[1], xe[2])]
           Body(h) == [k \in 0..Len(s) |-> IF k = 0 THEN first
                                           ELSE next(h[k - 1], s[k])]
           g == CHOOSE h : h = Body(h)
<1> HIDE DEF E, V, s, first, next
<1>5. \A x \in V, e \in E :
          <<x, e>> \in V \X E /\ step[<<x, e>>] = next(x, e)
  OBVIOUS
<1>6. IsStep(step, V, E)
  <2>1. \A xe \in V \X E : next(xe[1], xe[2]) \in V
    BY <1>3
  <2> QED
    BY <2>1 DEF IsStep
<1> HIDE DEF step
<1>7. g = Body(g)
  <2>1. PICK f \in [0..Len(s) -> V] : IsLoop(f, s, first, step)
    BY <1>1, <1>2, <1>6, LoopExists
  <2>2. \A k \in 0..Len(s) : k # 0 => f[k - 1] \in V /\ s[k] \in E
    <3>1. Len(s) \in Nat /\ \A k \in 1..Len(s) : s[k] \in E
      BY <1>1
    <3>2. \A k \in 0..Len(s) : k # 0 => k \in 1..Len(s) /\ k - 1 \in 0..Len(s)
      BY <3>1
    <3> QED
      BY <3>1, <3>2
  <2>3. \A k \in 0..Len(s) :
            (IF k = 0 THEN first ELSE step[<<f[k - 1], s[k]>>])
                = (IF k = 0 THEN first ELSE next(f[k - 1], s[k]))
    BY <1>5, <2>2
  <2>4. f = Body(f)
    BY <2>1, <2>3 DEF IsLoop
  <2> QED
    BY <2>4
<1>8. Through(s, first, LAMBDA x, e : next(x, e)) = g[Len(s)]
  BY DEF Through
<1> HIDE DEF g
<1>9. /\ g[0] = first /\ Len(s) \in Nat
      /\ \A k \in 1..Len(s) : g[k] = next(g[k - 1], s[k]) /\ s[k] \in E
  <2>1. \A k \in 1..Len(s) : s[k] \in E /\ k \in 0..Len(s) /\ k # 0
    BY <1>1
  <2>2. 0 \in 0..Len(s) /\ Len(s) \in Nat
    BY <1>1
  <2> HIDE DEF Body
  <2>3. \A k \in 0..Len(s) : Body(g)[k] = IF k = 0 THEN first
                                        ELSE next(g[k - 1], s[k])
    BY DEF Body
  <2> QED
    BY <1>7, <2>1, <2>2, <2>3
<1>10. \A k \in 0..Len(s) : g[k] \in V
  <2> DEFINE S == {k \in 0..Len(s) : g[k] \in V}
  <2>1. 0 \in S
    BY <1>2, <1>9
  <2>2. ASSUME NEW k \in 1..Len(s), k - 1 \in S PROVE k \in S
    <3>1. k \in 0..Len(s) /\ g[k - 1] \in V /\ s[k] \in E
      BY <1>9, <2>2
    <3>2. g[k] = next(g[k - 1], s[k])
      BY <1>9
    <3>3. next(g[k - 1], s[k]) \in V
      BY <1>3, <3>1
    <3> QED
      BY <3>1, <3>2, <3>3
  <2>3. 0..Len(s) \subseteq S
    <3> HIDE DEF S
    <3> QED
      BY <1>9, <2>1, <2>2, CountsUp
  <2> QED
    BY <2>3
<1>11. g \in [0..Len(s) -> V]
  BY <1>7, <1>10
<1>15. /\ g \in [0..n -> Seq(0..n) \ {<<>>}] /\ g[0] = <<t>>
       /\ \A k \in 1..n :
              g[k] = IF Last(g[k - 1]) = None THEN g[k - 1]
                     ELSE Append(g[k - 1], up[Last(g[k - 1])])
  BY <1>9, <1>11, <1>12, <1>13, <1>14
<1> DEFINE Good(k) ==
               /\ \A x \in Range(g[k]) : x \in line[t] \/ x = None
               /\ \A x \in line[t] :
                      \/ x \in Range(g[k])
                      \/ Last(g[k]) # None /\ x \in line[Last(g[k])]
               /\ Last(g[k]) = None
                      \/ (Last(g[k]) \in line[t] /\ Last(g[k]) >= t + k)
           S == {k \in 0..n : Good(k)}
<1>16. 0 \in S
  <2>1. Range(<<t>>) = {t} /\ Last(<<t>>) = t
    BY DEF Range, Last
  <2>2. t \in line[t]
    BY LinesClimb
  <2>3. Range(g[0]) = {t} /\ Last(g[0]) = t
    BY <1>15, <2>1
  <2>4. t # None /\ t >= t + 0
    BY DEF None
  <2> QED
    BY <2>2, <2>3, <2>4
<1>17. ASSUME NEW k \in 1..n, k - 1 \in S PROVE k \in S
  <2> DEFINE q == g[k - 1]
             c == Last(q)
  <2>1. q \in Seq(0..n) /\ q # <<>>
    <3>1. k - 1 \in 0..n
      OBVIOUS
    <3>2. g[k - 1] \in Seq(0..n) \ {<<>>}
      BY <1>15, <3>1
    <3> QED
      BY <3>2
  <2>2. /\ \A x \in Range(q) : x \in line[t] \/ x = None
        /\ \A x \in line[t] : x \in Range(q) \/ (c # None /\ x \in line[c])
        /\ c = None \/ (c \in line[t] /\ c >= t + (k - 1))
    BY <1>17
  <2>3. g[k] = IF c = None THEN q ELSE Append(q, up[c])
    BY <1>15
  <2>4. c \in 0..n
    BY <2>1 DEF Last
  <2>5. c \in Range(q)
    BY <2>1 DEF Last, Range
  <2> HIDE DEF q, c
  <2>6. CASE c = None
    <3>1. g[k] = q /\ Last(g[k]) = None
      BY <2>3, <2>6 DEF c
    <3> QED
      BY <2>2, <2>6, <3>1
  <2>7. CASE c # None
    <3> DEFINE r == Append(q, up[c])
    <3>1. /\ c \in 1..n /\ up[c] \in 0..n
          /\ up[c] = None \/ (up[c] \in 1..n /\ up[c] > c)
      BY <1>0, <2>4, <2>7 DEF Climbs, None
    <3>2. /\ Range(r) = Range(q) \cup {up[c]} /\ Last(r) = up[c]
      <4>1. /\ r \in Seq(0..n) /\ Len(r) = Len(q) + 1
            /\ r[Len(q) + 1] = up[c] /\ Range(r) = Range(q) \cup {up[c]}
        BY <2>1, <3>1, AppendFacts
      <4> QED
        BY <4>1 DEF Last
    <3>3. g[k] = r
      BY <2>3, <2>7
    <3> HIDE DEF r
    <3>4. /\ line[c] \subseteq line[t]
          /\ line[c] = {c} \cup (IF up[c] = None THEN {} ELSE line[up[c]])
      BY <2>2, <2>7, <3>1, LinesPass DEF AreLines
    <3>5. up[c] # None => up[c] \in line[up[c]]
      BY <3>1, LinesClimb
    <3>6. up[c] # None => up[c] \in line[t] /\ up[c] >= t + k
      BY <2>2, <2>7, <3>1, <3>4, <3>5
    <3>7. \A x \in line[t] :
              x \in Range(r) \/ (up[c] # None /\ x \in line[up[c]])
      BY <2>2, <2>5, <3>2, <3>4
    <3>8. \A x \in Range(r) : x \in line[t] \/ x = None
      BY <2>2, <3>2, <3>6
    <3> QED
      BY <3>2, <3>3, <3>6, <3>7, <3>8
  <2> QED
    BY <2>6, <2>7
<1>18. n \in S
  <2>1. 0..n \subseteq S
    <3> HIDE DEF S
    <3> QED
      BY <1>16, <1>17, CountsUp
  <2> QED
    BY <2>1
<1>19. Last(g[n]) = None
  <2>1. line[t] \subseteq t..n
    BY LinesClimb
  <2> QED
    BY <1>18, <2>1
<1>20. \A x \in 1..n : x \in Range(g[n]) <=> x \in line[t]
  BY <1>18, <1>19 DEF None
<1> QED
  BY <1>4, <1>8, <1>12, <1>20

\* What a subtree has in a postorder are as many columns in a row as it has,
\* and its top is the last of them.
IsInPlaces(q, top, T) ==
    LET size == Cardinality(T)
    IN  /\ size \in Nat /\ IsFiniteSet(T)
        /\ {q[k] : k \in (top + 1 - size)..top} = T

LEMMA SubtreeInPlaces ==
    ASSUME NEW n \in Nat, NEW line, NEW up, AreLines(line, up, n),
           NEW q, IsWholePostorder(q, line, n), NEW top \in 1..n
    PROVE  IsInPlaces(q, top, Subtree(line, n, q[top]))
<1> DEFINE s == q[top]
           T == Subtree(line, n, s)
           P == {k \in 1..n : q[k] \in T}
<1>1. /\ \A k \in 1..n : q[k] \in 1..n
      /\ \A k, l \in 1..n : q[k] = q[l] => k = l
      /\ \A x \in 1..n : \E k \in 1..n : q[k] = x
      /\ \A k, l \in 1..n : q[k] \in line[q[l]] => l <= k
      /\ \A k, l, i \in 1..n :
             q[k] \in line[q[l]] /\ l <= i /\ i <= k => q[k] \in line[q[i]]
  BY WholePostorder
<1>2. \A k \in 1..n : k \in P <=> s \in line[q[k]]
  BY <1>1 DEF Subtree
<1>3. P \subseteq 1..n /\ top \in P
  <2>1. s \in line[s]
    BY <1>1, LinesClimb
  <2> QED
    BY <1>2, <2>1
<1>4. PICK low \in P : \A k \in P : low <= k
  <2>1. P \subseteq Nat /\ P # {}
    BY <1>3
  <2> HIDE DEF P
  <2> QED
    BY <2>1, LeastElement
<1>5. P = low..top
  <2> HIDE DEF P, s
  <2>1. \A k \in P : k \in low..top
    BY <1>1, <1>2, <1>3, <1>4 DEF s
  <2>2. \A k \in low..top : k \in P
    BY <1>1, <1>2, <1>3, <1>4 DEF s
  <2> QED
    BY <2>1, <2>2
<1>6. /\ IsFiniteSet(P) /\ Cardinality(P) = top - low + 1
      /\ low \in 1..top
  <2>1. low \in 1..top
    BY <1>3, <1>4
  <2> HIDE DEF P
  <2> QED
    BY <1>5, <2>1, FS_Interval
<1>7. {q[k] : k \in P} = T
  <2>1. \A x \in T : x \in 1..n
    BY DEF Subtree
  <2> HIDE DEF T
  <2> QED
    BY SMTT(30), <1>1, <2>1
<1>8. IsFiniteSet(T) /\ Cardinality(T) = Cardinality(P)
  <2> DEFINE f == [k \in P |-> q[k]]
  <2>1. f \in Bijection(P, T)
    <3> HIDE DEF T
    <3>1. f \in [P -> T]
      OBVIOUS
    <3>2. \A k, l \in P : f[k] = f[l] => k = l
      BY <1>1, <1>3
    <3>3. \A x \in T : \E k \in P : f[k] = x
      BY <1>7
    <3> QED
      BY <3>1, <3>2, <3>3 DEF Bijection, Injection, Surjection, IsInjective
  <2> HIDE DEF f, P, T
  <2> QED
    BY <1>6, <2>1, FS_Bijection DEF ExistsBijection
<1> HIDE DEF P, T
<1>9. Cardinality(T) \in Nat /\ top + 1 - Cardinality(T) = low
  BY <1>6, <1>8
<1>10. {q[k] : k \in (top + 1 - Cardinality(T))..top} = T
  BY <1>5, <1>7, <1>9
<1>11. IsInPlaces(q, top, T)
  BY <1>8, <1>9, <1>10 DEF IsInPlaces
<1> QED
  BY <1>11 DEF T

\* As many as are in a list without repetitions.
LEMMA InjectiveListCounts ==
    ASSUME NEW S, NEW q \in Seq(S), IsInjectiveList(q)
    PROVE  Cardinality(Range(q)) = Len(q)
<1>1. Len(q) \in Nat /\ DOMAIN q = 1..Len(q)
  OBVIOUS
<1>2. q \in Bijection(1..Len(q), Range(q))
  <2>1. q \in [1..Len(q) -> Range(q)]
    BY <1>1 DEF Range
  <2>2. \A a, b \in 1..Len(q) : q[a] = q[b] => a = b
    BY DEF IsInjectiveList
  <2>3. \A x \in Range(q) : \E k \in 1..Len(q) : q[k] = x
    BY <1>1 DEF Range
  <2> QED
    BY <2>1, <2>2, <2>3 DEF Bijection, Injection, Surjection, IsInjective
<1> QED
  BY <1>1, <1>2, FS_CountingElements DEF ExistsBijection

\* FillPostorder keeps the columns of each subtree together, and finds where
\* it begins.
LEMMA PostorderIsFilled ==
    ASSUME NEW n \in Nat, NEW up, Climbs(up, n), NEW line, AreLines(line, up, n)
    PROVE  LET post == FillPostorder(FillFromParents(up))
           IN  \A s \in 1..n :
                   LET T == Subtree(line, n, s)
                   IN  /\ IsFiniteSet(T) /\ Cardinality(T) \in Nat /\ s \in T
                       /\ post.firsts[s] \in Int
                       /\ {post.postorder[k] : k \in post.firsts[s]..
                              (post.firsts[s] + (Cardinality(T) - 1))} = T
<1> DEFINE forest == FillFromParents(up)
           q == PostorderFromEliminationForest(up)
           place(s) == CHOOSE k \in DOMAIN q : q[k] = s
           starts == [s \in 1..n |-> place(s) + 1 - Len(FillPostorderImpl(s, forest))]
           post == FillPostorder(forest)
<1>1. /\ up \in [1..n -> 0..n] /\ Len(up) = n /\ DOMAIN up = 1..n
  <2>1. up \in [1..n -> 0..n]
    BY DEF Climbs
  <2>2. up = [i \in 1..n |-> up[i]]
    BY <2>1
  <2> QED
    BY <2>1, <2>2, WrittenDown
<1>2. IsWholePostorder(q, line, n)
  BY PostorderFits DEF IsWholePostorder
<1>3. DOMAIN q = 1..n
  BY <1>2 DEF IsWholePostorder, IsPostordered
<1>4. <<>> \o starts = starts
  <2>1. starts = [s \in 1..n |-> starts[s]]
    OBVIOUS
  <2> HIDE DEF starts
  <2> QED
    BY <2>1, WrittenDown
<1>5. post.postorder = q /\ post.firsts = starts
  <2>1. /\ forest.parents = up /\ forest.postorder = <<>>
        /\ {"postorder", "firsts"} \subseteq DOMAIN forest
    BY DEF FillFromParents
  <2>2. post = [forest EXCEPT !.postorder = q,
                    !.firsts = <<>> \o [s \in DOMAIN forest.parents |->
                        place(s) + 1 - Len(FillPostorderImpl(s, forest))]]
    BY <2>1 DEF FillPostorder, PostorderFromEliminationForest
  <2>3. post = [forest EXCEPT !.postorder = q, !.firsts = starts]
    <3> HIDE DEF forest, q
    <3> QED
      BY <1>1, <1>4, <2>1, <2>2
  <2> HIDE DEF forest, q, starts, post
  <2> QED
    BY <2>1, <2>3
<1>6. PICK part :
          /\ \A s : FillPostorderImpl(s, forest) = part[s]
          /\ \A s \in 1..n : /\ IsPostordered(part[s], line, n)
                             /\ Range(part[s]) = Subtree(line, n, s)
  BY PostorderOfSubtree
<1> HIDE DEF forest, q, post
<1>7. ASSUME NEW s \in 1..n
      PROVE  LET T == Subtree(line, n, s)
             IN  /\ IsFiniteSet(T) /\ Cardinality(T) \in Nat /\ s \in T
                 /\ post.firsts[s] \in Int
                 /\ {post.postorder[k] : k \in post.firsts[s]..
                        (post.firsts[s] + (Cardinality(T) - 1))} = T
  <2> DEFINE T == Subtree(line, n, s)
             top == place(s)
             size == Cardinality(T)
  <2>1. top \in 1..n /\ q[top] = s
    <3>1. \A x \in 1..n : \E k \in 1..n : q[k] = x
      BY <1>2, WholePostorder
    <3>2. \E k \in DOMAIN q : q[k] = s
      BY <1>3, <3>1
    <3>3. top \in DOMAIN q /\ q[top] = s
      BY <3>2
    <3> QED
      BY <1>3, <3>3
  <2> HIDE DEF top
  <2>2. /\ size \in Nat /\ IsFiniteSet(T)
        /\ {q[k] : k \in (top + 1 - size)..top} = T
    <3>1. IsInPlaces(q, top, Subtree(line, n, q[top]))
      BY <1>2, <2>1, SubtreeInPlaces
    <3>2. IsInPlaces(q, top, Subtree(line, n, s))
      BY <2>1, <3>1
    <3> QED
      BY <3>2 DEF IsInPlaces
  <2>3. Len(part[s]) = size
    BY <1>6, InjectiveListCounts DEF IsPostordered
  <2>4. starts[s] = top + 1 - size
    BY <1>6, <2>3 DEF top
  <2>5. post.firsts[s] = top + 1 - size
    BY <1>5, <2>4
  <2>6. s \in T
    BY LinesClimb DEF Subtree
  <2> HIDE DEF T, size
  <2>7. post.firsts[s] + (size - 1) = top
    <3>1. size \in Nat /\ top \in 1..n
      BY <2>1, <2>2
    <3>2. (top + 1 - size) + (size - 1) = top
      BY <3>1
    <3> QED
      BY <2>5, <3>2
  <2>8. /\ post.firsts[s] \in Int
        /\ {post.postorder[k] : k \in post.firsts[s]..
               (post.firsts[s] + (size - 1))} = T
    <3>1. top + 1 - size \in Int
      BY <2>1, <2>2
    <3>2. {q[k] : k \in post.firsts[s]..(post.firsts[s] + (size - 1))} = T
      BY <2>2, <2>5, <2>7, Zenon
    <3>3. post.firsts[s] \in Int
      BY <2>5, <3>1
    <3>4. post.postorder = q
      BY <1>5
    <3> QED
      BY <3>2, <3>3, <3>4, Zenon
  <2> QED
    BY <2>2, <2>6, <2>8 DEF T, size
<1> QED
  BY <1>7 DEF post, forest

FirstStates(n) == [firsts : [1..n -> 0..n], counts : [1..n -> Int]]

\* What is new above a row, and the visit of a row.
Reached(up, s, row) ==
    Range(Path(up, row, {i \in DOMAIN up : s.firsts[i] # None} \cup {None}))
FirstStep(up, q, s, post) ==
    LET row == q[post]
        known == {i \in DOMAIN up : s.firsts[i] # None}
        path == Path(up, row, known \cup {None})
    IN  [firsts |-> <<>> \o [i \in DOMAIN up |->
             IF i \in Range(path) THEN post ELSE s.firsts[i]],
         counts |-> [s.counts EXCEPT ![row] =
             IF s.firsts[row] = None THEN 1 ELSE 0]]
LEMMA FirstStepFacts ==
    ASSUME NEW n \in Nat, NEW up, DOMAIN up = 1..n,
           NEW s \in FirstStates(n), NEW q, NEW post \in 1..n, q[post] \in 1..n
    PROVE  LET t == FirstStep(up, q, s, post)
               R == Reached(up, s, q[post])
           IN  /\ t \in FirstStates(n)
               /\ \A i \in 1..n : i \in R => t.firsts[i] = post
               /\ \A i \in 1..n : i \notin R => t.firsts[i] = s.firsts[i]
               /\ \A i \in 1..n : i # q[post] => t.counts[i] = s.counts[i]
               /\ s.firsts[q[post]] = None => t.counts[q[post]] = 1
               /\ s.firsts[q[post]] # None => t.counts[q[post]] = 0
<1> DEFINE R == Reached(up, s, q[post])
           fs == [i \in 1..n |-> IF i \in R THEN post ELSE s.firsts[i]]
           cs == [s.counts EXCEPT ![q[post]] =
                     IF s.firsts[q[post]] = None THEN 1 ELSE 0]
<1>1. FirstStep(up, q, s, post) = [firsts |-> <<>> \o fs, counts |-> cs]
  BY DEF FirstStep, Reached
<1> HIDE DEF R
<1>2. s.firsts \in [1..n -> 0..n] /\ s.counts \in [1..n -> Int]
  BY DEF FirstStates
<1>3. fs \in [1..n -> 0..n] /\ cs \in [1..n -> Int]
  BY <1>2
<1>4. /\ \A i \in 1..n : i \in R => fs[i] = post
      /\ \A i \in 1..n : i \notin R => fs[i] = s.firsts[i]
      /\ \A i \in 1..n : i # q[post] => cs[i] = s.counts[i]
      /\ s.firsts[q[post]] = None => cs[q[post]] = 1
      /\ s.firsts[q[post]] # None => cs[q[post]] = 0
  BY <1>2
<1> HIDE DEF fs, cs
<1>5. <<>> \o fs = fs
  <2>1. fs = [i \in 1..n |-> fs[i]]
    BY <1>3
  <2> QED
    BY <2>1, WrittenDown
<1>6. FirstStep(up, q, s, post) = [firsts |-> fs, counts |-> cs]
  BY <1>1, <1>5
<1>7. [firsts |-> fs, counts |-> cs] \in FirstStates(n)
  BY <1>3 DEF FirstStates
<1>8. /\ [firsts |-> fs, counts |-> cs].firsts = fs
      /\ [firsts |-> fs, counts |-> cs].counts = cs
  OBVIOUS
<1> QED
  BY <1>4, <1>6, <1>7, <1>8 DEF R

PointsInto(q, n) == Len(q) = n /\ \A k \in 1..n : q[k] \in 1..n
IsFirstsLoop(g, up, q, n) ==
    /\ g \in [0..n -> FirstStates(n)]
    /\ g[0] = [firsts |-> [i \in 1..n |-> None],
               counts |-> [i \in 1..n |-> 0]]
    /\ \A k \in 1..n : g[k] = FirstStep(up, q, g[k - 1], k)
    /\ FirstDescendants(up, q) = g[n]
LEMMA FirstLoop ==
    ASSUME NEW n \in Nat, NEW up, Climbs(up, n), NEW q, PointsInto(q, n)
    PROVE  \E g : IsFirstsLoop(g, up, q, n)
<1> DEFINE E == 1..n
           V == FirstStates(n)
           s == Indices(n)
           first == [firsts |-> Constant(n, None), counts |-> Constant(n, 0)]
           next(x, e) == FirstStep(up, q, x, e)
<1>1. s \in Seq(E)
  BY IndicesAreTyped
<1>2. first \in V
  <2>1. /\ Constant(n, None) = [i \in 1..n |-> None]
        /\ Constant(n, 0) = [i \in 1..n |-> 0]
    BY ConstantFacts
  <2>2. [i \in 1..n |-> None] \in [1..n -> 0..n] /\ [i \in 1..n |-> 0] \in [1..n -> Int]
    BY DEF None
  <2> QED
    BY <2>1, <2>2 DEF FirstStates
<1>12. DOMAIN up = 1..n
  BY DEF Climbs
<1>13. Len(up) = n
  <2>1. up = [i \in 1..n |-> up[i]]
    BY DEF Climbs
  <2> QED
    BY <2>1, WrittenDown
<1>3. \A x \in V, e \in E : next(x, e) \in V
  <2>1. \A e \in E : q[e] \in 1..n
    BY DEF PointsInto
  <2> QED
    BY <1>12, <2>1, FirstStepFacts
<1>4. FirstDescendants(up, q) = Through(s, first, LAMBDA x, e : next(x, e))
  <2>1. Len(q) = n
    BY DEF PointsInto
  <2> QED
    BY <1>13, <2>1 DEF FirstDescendants, FirstStep, Through
<1> DEFINE step == [xe \in V \X E |-> next(xe[1], xe[2])]
           Body(h) == [k \in 0..Len(s) |-> IF k = 0 THEN first
                                           ELSE next(h[k - 1], s[k])]
           g == CHOOSE h : h = Body(h)
<1> HIDE DEF E, V, s, first, next
<1>5. \A x \in V, e \in E :
          <<x, e>> \in V \X E /\ step[<<x, e>>] = next(x, e)
  OBVIOUS
<1>6. IsStep(step, V, E)
  <2>1. \A xe \in V \X E : next(xe[1], xe[2]) \in V
    BY <1>3
  <2> QED
    BY <2>1 DEF IsStep
<1> HIDE DEF step
<1>7. g = Body(g)
  <2>1. PICK f \in [0..Len(s) -> V] : IsLoop(f, s, first, step)
    BY <1>1, <1>2, <1>6, LoopExists
  <2>2. \A k \in 0..Len(s) : k # 0 => f[k - 1] \in V /\ s[k] \in E
    <3>1. Len(s) \in Nat /\ \A k \in 1..Len(s) : s[k] \in E
      BY <1>1
    <3>2. \A k \in 0..Len(s) : k # 0 => k \in 1..Len(s) /\ k - 1 \in 0..Len(s)
      BY <3>1
    <3> QED
      BY <3>1, <3>2
  <2>3. \A k \in 0..Len(s) :
            (IF k = 0 THEN first ELSE step[<<f[k - 1], s[k]>>])
                = (IF k = 0 THEN first ELSE next(f[k - 1], s[k]))
    BY <1>5, <2>2
  <2>4. f = Body(f)
    BY <2>1, <2>3 DEF IsLoop
  <2> QED
    BY <2>4
<1>8. Through(s, first, LAMBDA x, e : next(x, e)) = g[Len(s)]
  BY DEF Through
<1> HIDE DEF g
<1>9. /\ g[0] = first /\ Len(s) \in Nat
      /\ \A k \in 1..Len(s) : g[k] = next(g[k - 1], s[k]) /\ s[k] \in E
  <2>1. \A k \in 1..Len(s) : s[k] \in E /\ k \in 0..Len(s) /\ k # 0
    BY <1>1
  <2>2. 0 \in 0..Len(s) /\ Len(s) \in Nat
    BY <1>1
  <2> HIDE DEF Body
  <2>3. \A k \in 0..Len(s) : Body(g)[k] = IF k = 0 THEN first
                                        ELSE next(g[k - 1], s[k])
    BY DEF Body
  <2> QED
    BY <1>7, <2>1, <2>2, <2>3
<1>10. \A k \in 0..Len(s) : g[k] \in V
  <2> DEFINE S == {k \in 0..Len(s) : g[k] \in V}
  <2>1. 0 \in S
    BY <1>2, <1>9
  <2>2. ASSUME NEW k \in 1..Len(s), k - 1 \in S PROVE k \in S
    <3>1. k \in 0..Len(s) /\ g[k - 1] \in V /\ s[k] \in E
      BY <1>9, <2>2
    <3>2. g[k] = next(g[k - 1], s[k])
      BY <1>9
    <3>3. next(g[k - 1], s[k]) \in V
      BY <1>3, <3>1
    <3> QED
      BY <3>1, <3>2, <3>3
  <2>3. 0..Len(s) \subseteq S
    <3> HIDE DEF S
    <3> QED
      BY <1>9, <2>1, <2>2, CountsUp
  <2> QED
    BY <2>3
<1>11. g \in [0..Len(s) -> V]
  BY <1>7, <1>10
<1>14. Len(s) = n /\ \A k \in 1..n : s[k] = k
  BY IndicesFacts DEF s
<1>15. first = [firsts |-> [i \in 1..n |-> None], counts |-> [i \in 1..n |-> 0]]
  BY ConstantFacts DEF first
<1>16. g \in [0..n -> V]
  BY <1>11, <1>14
<1>17. \A k \in 1..n : g[k] = FirstStep(up, q, g[k - 1], k)
  BY <1>9, <1>14 DEF next
<1>18. FirstDescendants(up, q) = g[n]
  BY <1>4, <1>8, <1>14
<1> QED
  BY <1>9, <1>15, <1>16, <1>17, <1>18 DEF V, IsFirstsLoop

\* What is known after some rows: the first of the rows that are below each
\* column, and which of the rows are leaves.
AreFirstsSoFar(s, up, line, q, n, k) ==
    /\ s \in FirstStates(n)
    /\ \A i \in 1..n : \A l \in 1..k :
           i \in line[q[l]] => s.firsts[i] # None /\ s.firsts[i] <= l
    /\ \A i \in 1..n : s.firsts[i] # None =>
           s.firsts[i] <= k /\ i \in line[q[s.firsts[i]]]
    /\ \A l \in 1..k :
           /\ (\E c \in 1..n : up[c] = q[l]) => s.counts[q[l]] = 0
           /\ (\A c \in 1..n : up[c] # q[l]) => s.counts[q[l]] = 1

\* What a row reaches is what is above it and was not known.
LEMMA ReachedFacts ==
    ASSUME NEW n \in Nat, NEW up, Climbs(up, n), NEW line, AreLines(line, up, n),
           NEW q, IsWholePostorder(q, line, n), NEW k \in 1..n, NEW s,
           AreFirstsSoFar(s, up, line, q, n, k - 1)
    PROVE  \A i \in 1..n :
               i \in Reached(up, s, q[k])
                   <=> i \in line[q[k]] /\ s.firsts[i] = None
<1> DEFINE row == q[k]
           known == {i \in 1..n : s.firsts[i] # None}
           stops == known \cup {None}
           R == Reached(up, s, row)
<1>1. row \in 1..n /\ \A l \in 1..n : q[l] \in 1..n
  BY WholePostorder
<1>2. DOMAIN up = 1..n /\ \A i \in 1..n : up[i] = None \/ up[i] \in 1..n
  BY DEF Climbs, None
<1>3. R = Range(Path(up, row, stops))
  BY <1>2 DEF Reached
<1>4. None \in stops /\ row \in 0..n
  BY <1>1
<1> HIDE DEF stops, R, row
<1>5. /\ R \subseteq 1..n /\ R \cap stops = {}
      /\ row \notin stops => row \in R
      /\ \A i \in R : up[i] \in R \cup stops
      /\ \A T : row \in T
             /\ (\A i \in T : i \in 1..n /\ i \notin stops => up[i] \in T)
                 => R \subseteq T
  BY <1>3, <1>4, PathFacts
<1>6. /\ \A j \in 1..n : j \in line[j] /\ line[j] \subseteq j..n
      /\ \A j \in 1..n : \A i \in line[j] : line[i] \subseteq line[j]
  BY LinesClimb, LinesPass
<1>7. \A i \in 1..n : up[i] # None => up[i] \in line[i]
  BY <1>2, <1>6 DEF AreLines
<1>8. R \subseteq line[row]
  <2> DEFINE T == line[row] \cup stops
  <2>1. row \in T
    BY <1>1, <1>6
  <2>2. \A i \in T : i \in 1..n /\ i \notin stops => up[i] \in T
    BY <1>1, <1>4, <1>6, <1>7
  <2>3. R \subseteq T
    <3> HIDE DEF T
    <3> QED
      BY <1>5, <2>1, <2>2
  <2> QED
    BY <1>5, <2>3
<1>9. \A i \in known : up[i] = None \/ up[i] \in known
  <2> TAKE i \in known
  <2> SUFFICES ASSUME up[i] # None PROVE up[i] \in known
    OBVIOUS
  <2> DEFINE l == s.firsts[i]
  <2>1. l \in 1..(k - 1) /\ i \in line[q[l]]
    BY DEF AreFirstsSoFar, FirstStates, None
  <2> HIDE DEF l
  <2>2. up[i] \in line[q[l]] /\ up[i] \in 1..n
    BY <1>1, <1>2, <1>6, <1>7, <2>1
  <2> QED
    BY <2>1, <2>2 DEF AreFirstsSoFar
<1>10. line[row] \subseteq R \cup known
  <2> DEFINE U == R \cup known
  <2>1. \A x \in U : x \in 1..n /\ (up[x] = None \/ up[x] \in U)
    BY <1>5, <1>9 DEF stops
  <2>2. row \in U
    BY <1>1, <1>5 DEF stops, None
  <2> HIDE DEF U
  <2>3. line[row] \subseteq U
    BY <2>1, <2>2, LineWithin
  <2> QED
    BY <2>3 DEF U
<1> QED
  BY <1>5, <1>8, <1>10 DEF stops, R, row

LEMMA FirstStepFits ==
    ASSUME NEW n \in Nat, NEW up, Climbs(up, n), NEW line, AreLines(line, up, n),
           NEW q, IsWholePostorder(q, line, n), NEW k \in 1..n, NEW s,
           AreFirstsSoFar(s, up, line, q, n, k - 1)
    PROVE  AreFirstsSoFar(FirstStep(up, q, s, k), up, line, q, n, k)
<1> DEFINE row == q[k]
           t == FirstStep(up, q, s, k)
           R == Reached(up, s, q[k])
<1>1. row \in 1..n /\ \A l \in 1..n : q[l] \in 1..n
  BY WholePostorder
<1>2. /\ t \in FirstStates(n)
      /\ \A i \in 1..n : i \in R => t.firsts[i] = k
      /\ \A i \in 1..n : i \notin R => t.firsts[i] = s.firsts[i]
      /\ \A i \in 1..n : i # row => t.counts[i] = s.counts[i]
      /\ s.firsts[row] = None => t.counts[row] = 1
      /\ s.firsts[row] # None => t.counts[row] = 0
  <2>1. s \in FirstStates(n) /\ DOMAIN up = 1..n
    BY DEF AreFirstsSoFar, Climbs
  <2> QED
    BY <1>1, <2>1, FirstStepFacts
<1>3. \A i \in 1..n : i \in R <=> i \in line[row] /\ s.firsts[i] = None
  BY ReachedFacts
<1>4. /\ \A i \in 1..n : s.firsts[i] \in Nat
      /\ \A i \in 1..n : \A l \in 1..(k - 1) :
             i \in line[q[l]] => s.firsts[i] # None /\ s.firsts[i] <= l
      /\ \A i \in 1..n : s.firsts[i] # None =>
             s.firsts[i] <= k - 1 /\ i \in line[q[s.firsts[i]]]
      /\ \A l \in 1..(k - 1) :
             /\ (\E c \in 1..n : up[c] = q[l]) => s.counts[q[l]] = 0
             /\ (\A c \in 1..n : up[c] # q[l]) => s.counts[q[l]] = 1
  BY DEF AreFirstsSoFar, FirstStates
<1> HIDE DEF t, R
<1>5. ASSUME NEW i \in 1..n, NEW l \in 1..k, i \in line[q[l]]
      PROVE  t.firsts[i] # None /\ t.firsts[i] <= l
  <2>1. CASE l = k
    <3>1. CASE i \in R
      BY <1>2, <2>1, <3>1 DEF None
    <3>2. CASE i \notin R
      <4>1. s.firsts[i] # None /\ t.firsts[i] = s.firsts[i]
        BY <1>2, <1>3, <1>5, <2>1, <3>2
      <4> QED
        BY <1>4, <2>1, <4>1
    <3> QED
      BY <3>1, <3>2
  <2>2. CASE l # k
    <3>1. l \in 1..(k - 1)
      BY <2>2
    <3>2. s.firsts[i] # None /\ s.firsts[i] <= l
      BY <1>4, <1>5, <3>1
    <3>3. i \notin R
      BY <1>3, <3>2
    <3> QED
      BY <1>2, <3>2, <3>3
  <2> QED
    BY <2>1, <2>2
<1>6. ASSUME NEW i \in 1..n, t.firsts[i] # None
      PROVE  t.firsts[i] <= k /\ i \in line[q[t.firsts[i]]]
  <2>1. CASE i \in R
    BY <1>2, <1>3, <2>1
  <2>2. CASE i \notin R
    <3>1. t.firsts[i] = s.firsts[i]
      BY <1>2, <2>2
    <3>2. s.firsts[i] <= k - 1 /\ i \in line[q[s.firsts[i]]] /\ s.firsts[i] \in Nat
      BY <1>4, <1>6, <3>1
    <3> QED
      BY <3>1, <3>2
  <2> QED
    BY <2>1, <2>2
<1>7. s.firsts[row] # None <=> \E c \in 1..n : up[c] = row
  <2>1. ASSUME s.firsts[row] # None PROVE \E c \in 1..n : up[c] = row
    <3> DEFINE l == s.firsts[row]
    <3>1. l \in 1..(k - 1) /\ row \in line[q[l]]
      BY <1>1, <1>4, <2>1 DEF None
    <3> HIDE DEF l
    <3>2. l \in 1..n /\ l # k
      BY <3>1
    <3>3. q[l] # row /\ q[l] \in 1..n
      <4>1. \A i, j \in 1..n : q[i] = q[j] => i = j
        BY WholePostorder
      <4> QED
        BY <1>1, <3>2, <4>1 DEF row
    <3> HIDE DEF row
    <3>4. \E c \in 1..n : up[c] = row /\ c \in line[q[l]]
      BY <3>1, <3>3, LinesArrive
    <3> QED
      BY <3>4
  <2>2. ASSUME NEW c \in 1..n, up[c] = row PROVE s.firsts[row] # None
    <3>1. row \in line[c] /\ c # row
      <4>1. row \in line[row] /\ row > c /\ row # None
        BY <1>1, <2>2, LinesClimb DEF Climbs, None
      <4> QED
        BY <1>1, <2>2, <4>1 DEF AreLines
    <3>2. PICK l \in 1..n : q[l] = c
      BY WholePostorder
    <3>3. l <= k /\ l # k
      <4>1. q[k] \in line[q[l]] /\ q[k] # q[l]
        BY <3>1, <3>2 DEF row
      <4>2. \A i, j \in 1..n : q[i] \in line[q[j]] => j <= i
        BY WholePostorder
      <4> QED
        BY <4>1, <4>2
    <3>4. l \in 1..(k - 1)
      BY <3>3
    <3> QED
      BY <1>1, <1>4, <3>1, <3>2, <3>4
  <2> QED
    BY <2>1, <2>2
<1>8. ASSUME NEW l \in 1..k
      PROVE  /\ (\E c \in 1..n : up[c] = q[l]) => t.counts[q[l]] = 0
             /\ (\A c \in 1..n : up[c] # q[l]) => t.counts[q[l]] = 1
  <2>1. CASE l = k
    BY <1>2, <1>7, <2>1
  <2>2. CASE l # k
    <3>1. l \in 1..(k - 1) /\ l \in 1..n
      BY <2>2
    <3>2. q[l] # row /\ q[l] \in 1..n
      BY <1>1, <2>2, <3>1, WholePostorder
    <3>3. t.counts[q[l]] = s.counts[q[l]]
      BY <1>2, <3>2
    <3> QED
      BY <1>4, <3>1, <3>3
  <2> QED
    BY <2>1, <2>2
<1>9. AreFirstsSoFar(t, up, line, q, n, k)
  BY <1>2, <1>5, <1>6, <1>8 DEF AreFirstsSoFar
<1> QED
  BY <1>9 DEF t

\* The first descendant of every column, by its place in the postorder, and
\* the leaves.
LEMMA FirstsFit ==
    ASSUME NEW n \in Nat, NEW up, Climbs(up, n), NEW line, AreLines(line, up, n),
           NEW q, IsWholePostorder(q, line, n)
    PROVE  LET r == FirstDescendants(up, q)
           IN  /\ r \in FirstStates(n)
               /\ \A i \in 1..n :
                      /\ r.firsts[i] \in 1..n /\ i \in line[q[r.firsts[i]]]
                      /\ \A l \in 1..n : i \in line[q[l]] => r.firsts[i] <= l
                      /\ (\E c \in 1..n : up[c] = i) => r.counts[i] = 0
                      /\ (\A c \in 1..n : up[c] # i) => r.counts[i] = 1
<1>1. \A x \in 1..n : \E k \in 1..n : q[k] = x
  BY WholePostorder
<1>12. \A k \in 1..n : q[k] \in 1..n
  BY WholePostorder
<1>2. Len(q) = n
  BY DEF IsWholePostorder
<1>15. PICK g : IsFirstsLoop(g, up, q, n)
  <2>1. PointsInto(q, n)
    BY <1>12, <1>2 DEF PointsInto
  <2> QED
    BY <2>1, FirstLoop
<1>3. /\ g \in [0..n -> FirstStates(n)]
      /\ g[0] = [firsts |-> [i \in 1..n |-> None],
                 counts |-> [i \in 1..n |-> 0]]
      /\ \A k \in 1..n : g[k] = FirstStep(up, q, g[k - 1], k)
      /\ FirstDescendants(up, q) = g[n]
  BY <1>15 DEF IsFirstsLoop
<1> DEFINE S == {k \in 0..n : AreFirstsSoFar(g[k], up, line, q, n, k)}
<1>4. 0 \in S
  <2>1. g[0] \in FirstStates(n)
    BY <1>3
  <2>2. \A i \in 1..n : g[0].firsts[i] = None
    BY <1>3
  <2>3. AreFirstsSoFar(g[0], up, line, q, n, 0)
    BY <2>1, <2>2 DEF AreFirstsSoFar
  <2> QED
    BY <2>3
<1>5. ASSUME NEW k \in 1..n, k - 1 \in S PROVE k \in S
  <2>1. /\ AreFirstsSoFar(g[k - 1], up, line, q, n, k - 1)
        /\ g[k] = FirstStep(up, q, g[k - 1], k)
    BY <1>3, <1>5
  <2>2. AreFirstsSoFar(g[k], up, line, q, n, k)
    BY <2>1, FirstStepFits
  <2> QED
    BY <2>2
<1>6. n \in S
  <2>1. 0..n \subseteq S
    <3> HIDE DEF S
    <3> QED
      BY <1>4, <1>5, CountsUp
  <2> QED
    BY <2>1
<1> DEFINE r == g[n]
<1>7. /\ r \in FirstStates(n)
      /\ \A i \in 1..n : \A l \in 1..n :
             i \in line[q[l]] => r.firsts[i] # None /\ r.firsts[i] <= l
      /\ \A i \in 1..n : r.firsts[i] # None =>
             r.firsts[i] <= n /\ i \in line[q[r.firsts[i]]]
      /\ \A l \in 1..n :
             /\ (\E c \in 1..n : up[c] = q[l]) => r.counts[q[l]] = 0
             /\ (\A c \in 1..n : up[c] # q[l]) => r.counts[q[l]] = 1
  BY <1>6 DEF AreFirstsSoFar
<1> HIDE DEF r
<1>8. ASSUME NEW i \in 1..n
      PROVE  /\ r.firsts[i] \in 1..n /\ i \in line[q[r.firsts[i]]]
             /\ \A l \in 1..n : i \in line[q[l]] => r.firsts[i] <= l
             /\ (\E c \in 1..n : up[c] = i) => r.counts[i] = 0
             /\ (\A c \in 1..n : up[c] # i) => r.counts[i] = 1
  <2>1. PICK k \in 1..n : q[k] = i
    BY <1>1
  <2>2. i \in line[q[k]]
    BY <2>1, LinesClimb
  <2>3. r.firsts[i] # None /\ r.firsts[i] \in 0..n
    BY <1>7, <2>2 DEF FirstStates
  <2>4. r.firsts[i] \in 1..n /\ i \in line[q[r.firsts[i]]]
    BY <1>7, <2>3 DEF None
  <2> QED
    BY <1>7, <2>1, <2>4
<1> QED
  BY <1>3, <1>7, <1>8 DEF r

-----------------------------------------------------------------------------
(***************************************************************************)
(* The sets of the columns that are merged into what is above them.        *)
(***************************************************************************)
\* A path follows what leads up from where it does not stop.
LEMMA PathsAgree ==
    ASSUME NEW D, NEW up, DOMAIN up = D, NEW two, DOMAIN two = D, NEW stops,
           None \in stops, \A i \in D : i \notin stops => two[i] = up[i], NEW c
    PROVE  Path(up, c, stops) = Path(two, c, stops)
<1> DEFINE Body(u, h) == [i \in DOMAIN u \cup {None} |->
               IF i \in stops THEN <<>> ELSE <<i>> \o h[u[i]]]
<1>1. ASSUME NEW h PROVE Body(up, h) = Body(two, h)
  <2>1. \A i \in D \cup {None} :
            (IF i \in stops THEN <<>> ELSE <<i>> \o h[up[i]])
                = (IF i \in stops THEN <<>> ELSE <<i>> \o h[two[i]])
    OBVIOUS
  <2> QED
    BY <2>1
<1>2. /\ Path(up, c, stops) = (CHOOSE h : h = Body(up, h))[c]
      /\ Path(two, c, stops) = (CHOOSE h : h = Body(two, h))[c]
  BY DEF Path
<1> HIDE DEF Body
<1>3. (CHOOSE h : h = Body(up, h)) = (CHOOSE h : h = Body(two, h))
  BY <1>1
<1> QED
  BY <1>2, <1>3

\* The first on a line that is not merged.
IsRoot(r, x, line, M) ==
    /\ r \in line[x] /\ r \notin M
    /\ \A y \in line[x] : y < r => y \in M
HaveParents(M, up, n) == \A x \in 1..n : x \in M => up[x] # None
LEMMA RootsExist ==
    ASSUME NEW n \in Nat, NEW line, NEW up, AreLines(line, up, n),
           NEW M, HaveParents(M, up, n)
    PROVE  \A x \in 1..n : \E r \in 1..n : IsRoot(r, x, line, M)
<1> DEFINE Wrong == {x \in 1..n : ~ \E r \in 1..n : IsRoot(r, x, line, M)}
<1>1. ASSUME NEW x \in Wrong PROVE \E y \in Wrong : y > x
  <2>1. x \in 1..n /\ x \in line[x] /\ line[x] \subseteq x..n
    BY LinesClimb
  <2>2. x \in M
    <3> SUFFICES ASSUME x \notin M PROVE FALSE
      OBVIOUS
    <3>1. IsRoot(x, x, line, M)
      BY <2>1 DEF IsRoot
    <3> QED
      BY <2>1, <3>1
  <2> DEFINE p == up[x]
  <2>3. p \in 1..n /\ p > x /\ line[x] = {x} \cup line[p]
    BY <2>1, <2>2 DEF HaveParents, AreLines
  <2> HIDE DEF p
  <2>4. ASSUME NEW r \in 1..n, IsRoot(r, p, line, M) PROVE FALSE
    <3>1. IsRoot(r, x, line, M)
      BY <2>2, <2>3, <2>4 DEF IsRoot
    <3> QED
      BY <3>1
  <2> QED
    BY <2>3, <2>4
<1>2. Wrong = {}
  <2> Wrong \subseteq 1..n
    OBVIOUS
  <2> HIDE DEF Wrong
  <2> QED
    BY <1>1, FromAbove
<1> QED
  BY <1>2
LEMMA RootsAgree ==
    ASSUME NEW n \in Nat, NEW line, NEW up, AreLines(line, up, n), NEW M,
           NEW x \in 1..n, NEW r, IsRoot(r, x, line, M),
           NEW t, IsRoot(t, x, line, M)
    PROVE  r = t /\ r \in 1..n
<1>1. line[x] \subseteq x..n
  BY LinesClimb
<1>2. r \in 1..n /\ t \in 1..n /\ ~(r < t) /\ ~(t < r)
  BY <1>1 DEF IsRoot
<1> QED
  BY <1>2

\* A set leads to what is above it and to the first that is not merged.
SetsFit(sets, line, M, n) ==
    /\ sets \in [1..n -> 1..n]
    /\ \A x \in 1..n : sets[x] \in line[x]
    /\ \A x \in 1..n : sets[x] = x <=> x \notin M
    /\ \A x \in 1..n : \A y \in line[x] : y < sets[x] => y \in M
LEMMA RootGoesOn ==
    ASSUME NEW n \in Nat, NEW line, NEW up, AreLines(line, up, n), NEW M,
           NEW sets, SetsFit(sets, line, M, n), NEW x \in 1..n, NEW r
    PROVE  /\ sets[x] \in 1..n /\ sets[x] >= x
           /\ sets[x] = x => IsRoot(x, x, line, M)
           /\ IsRoot(r, sets[x], line, M) => IsRoot(r, x, line, M)
<1>1. /\ x \in line[x] /\ line[x] \subseteq x..n
      /\ sets[x] \in 1..n /\ sets[x] \in line[x]
      /\ sets[x] = x => x \notin M
      /\ \A y \in line[x] : y < sets[x] => y \in M
  BY LinesClimb DEF SetsFit
<1>2. sets[x] = x => IsRoot(x, x, line, M)
  BY <1>1 DEF IsRoot
<1> DEFINE z == sets[x]
<1>3. ASSUME IsRoot(r, z, line, M) PROVE IsRoot(r, x, line, M)
  <2>1. r \in line[x]
    BY <1>1, <1>3, LinesPass DEF IsRoot
  <2>2. ASSUME NEW y \in line[x], y < r PROVE y \in M
    <3>1. CASE y < z
      BY <1>1, <3>1
    <3>2. CASE ~(y < z)
      <4>1. z <= y
        BY <1>1, <3>2
      <4>2. y \in line[z]
        BY <1>1, <4>1, LinesNest
      <4> QED
        BY <1>3, <2>2, <4>2 DEF IsRoot
    <3> QED
      BY <3>1, <3>2
  <2> QED
    BY <1>3, <2>1, <2>2 DEF IsRoot
<1> QED
  BY <1>1, <1>2, <1>3

LEMMA SetRootFits ==
    ASSUME NEW n \in Nat, NEW line, NEW up, AreLines(line, up, n), NEW M,
           HaveParents(M, up, n), NEW sets, SetsFit(sets, line, M, n)
    PROVE  \A x \in 1..n : IsRoot(SetRoot(sets, x), x, line, M)
<1> DEFINE Body(h) == [k \in DOMAIN sets |->
                          IF sets[k] = k THEN k ELSE h[sets[k]]]
           h == CHOOSE f : f = Body(f)
<1>1. \A x : SetRoot(sets, x) = h[x]
  BY DEF SetRoot
<1>2. DOMAIN sets = 1..n
  BY DEF SetsFit
<1>3. h = Body(h)
  <2> DEFINE w == [k \in 1..n |-> CHOOSE r \in 1..n : IsRoot(r, k, line, M)]
  <2>1. \A k \in 1..n : IsRoot(w[k], k, line, M)
    BY RootsExist
  <2>2. ASSUME NEW k \in 1..n
        PROVE  w[k] = IF sets[k] = k THEN k ELSE w[sets[k]]
    <3> HIDE DEF w
    <3>1. sets[k] \in 1..n
      BY RootGoesOn
    <3>2. IsRoot(w[k], k, line, M) /\ IsRoot(w[sets[k]], sets[k], line, M)
      BY <2>1, <3>1
    <3>3. sets[k] = k => IsRoot(k, k, line, M)
      BY RootGoesOn
    <3>4. IsRoot(w[sets[k]], k, line, M)
      BY <3>2, RootGoesOn
    <3>5. sets[k] = k => w[k] = k
      BY <3>2, <3>3, RootsAgree
    <3>6. w[k] = w[sets[k]]
      BY <3>2, <3>4, RootsAgree
    <3> QED
      BY <3>5, <3>6
  <2>3. w = [k \in 1..n |-> IF sets[k] = k THEN k ELSE w[sets[k]]]
    <3> DEFINE e(k) == IF sets[k] = k THEN k ELSE w[sets[k]]
    <3>1. \A k \in 1..n : w[k] = e(k)
      BY <2>2
    <3>2. w = [k \in 1..n |-> w[k]]
      OBVIOUS
    <3> HIDE DEF e, w
    <3>3. w = [k \in 1..n |-> e(k)]
      BY <3>1, <3>2
    <3> QED
      BY <3>3 DEF e
  <2>4. w = Body(w)
    BY <1>2, <2>3
  <2> HIDE DEF w, Body
  <2> QED
    BY <2>4
<1> HIDE DEF h
<1>4. \A k \in 1..n : h[k] = IF sets[k] = k THEN k ELSE h[sets[k]]
  BY <1>2, <1>3
<1> DEFINE Wrong == {x \in 1..n : ~IsRoot(h[x], x, line, M)}
<1>5. ASSUME NEW x \in Wrong PROVE \E y \in Wrong : y > x
  <2>1. /\ sets[x] \in 1..n /\ sets[x] >= x
        /\ sets[x] = x => IsRoot(x, x, line, M)
        /\ IsRoot(h[sets[x]], sets[x], line, M)
               => IsRoot(h[sets[x]], x, line, M)
    BY RootGoesOn
  <2> HIDE DEF Body
  <2>2. sets[x] # x
    BY <1>4, <2>1
  <2>3. sets[x] \in Wrong
    BY <1>4, <2>1, <2>2
  <2> QED
    BY <2>1, <2>2, <2>3
<1>6. Wrong = {}
  <2> Wrong \subseteq 1..n
    OBVIOUS
  <2> HIDE DEF Wrong
  <2> QED
    BY <1>5, FromAbove
<1> QED
  BY <1>1, <1>6

LEMMA CompressedFits ==
    ASSUME NEW n \in Nat, NEW line, NEW up, AreLines(line, up, n), NEW M,
           HaveParents(M, up, n), NEW sets, SetsFit(sets, line, M, n),
           NEW x \in 1..n
    PROVE  SetsFit(Compressed(sets, x), line, M, n)
<1> DEFINE r == SetRoot(sets, x)
           stops == {k \in DOMAIN sets : sets[k] = k} \cup {None}
           two == [k \in 1..n |-> IF sets[k] = k THEN None ELSE sets[k]]
           R == Range(Path(sets, x, stops))
           new == [k \in 1..n |-> IF k \in R THEN r ELSE sets[k]]
<1>1. IsRoot(r, x, line, M)
  BY SetRootFits
<1>2. r \in 1..n
  BY <1>1, RootsAgree
<1>3. /\ DOMAIN sets = 1..n /\ sets \in [1..n -> 1..n]
      /\ \A k \in 1..n : sets[k] = k <=> k \notin M
  BY DEF SetsFit
<1>4. \A k \in 1..n : sets[k] >= k
  BY RootGoesOn
<1>5. None \in stops /\ \A k \in 1..n : k \notin stops <=> k \in M
  BY <1>3 DEF None
<1>6. \A k \in 1..n : k \notin stops => two[k] = sets[k]
  BY <1>3
<1>7. Climbs(two, n) /\ DOMAIN two = 1..n
  BY <1>3, <1>4 DEF Climbs, None
<1> HIDE DEF two, stops
<1>8. Path(sets, x, stops) = Path(two, x, stops)
  BY <1>3, <1>5, <1>6, <1>7, PathsAgree
<1>9. x \in 0..n
  OBVIOUS
<1>10. /\ R \subseteq 1..n /\ R \cap stops = {}
       /\ \A T : x \in T
              /\ (\A k \in T : k \in 1..n /\ k \notin stops => two[k] \in T)
                  => R \subseteq T
  BY <1>5, <1>7, <1>8, <1>9, PathFacts
<1>11. Compressed(sets, x) = <<>> \o new
  BY <1>3 DEF Compressed, stops
<1> HIDE DEF R, r
<1>12. /\ new \in [1..n -> 1..n]
       /\ \A k \in 1..n : k \in R => new[k] = r
       /\ \A k \in 1..n : k \notin R => new[k] = sets[k]
  BY <1>2, <1>3
<1> HIDE DEF new
<1>13. <<>> \o new = new
  <2>1. new = [i \in 1..n |-> new[i]]
    BY <1>12
  <2> QED
    BY <2>1, WrittenDown
<1>14. \A k \in R : IsRoot(r, k, line, M) /\ k \in M
  <2> DEFINE T == {k \in 1..n : IsRoot(r, k, line, M)}
  <2>1. x \in T
    BY <1>1
  <2>2. ASSUME NEW k \in T, k \notin stops PROVE two[k] \in T
    <3>1. two[k] = sets[k] /\ sets[k] \in 1..n
      BY <1>3, <1>6, <2>2
    <3> DEFINE z == sets[k]
    <3>2. PICK t \in 1..n : IsRoot(t, z, line, M)
      BY <3>1, RootsExist
    <3>3. IsRoot(t, k, line, M)
      BY <3>2, RootGoesOn
    <3>4. t = r
      BY <3>3, RootsAgree
    <3> QED
      BY <3>1, <3>2, <3>4
  <2>3. R \subseteq T
    <3> HIDE DEF T
    <3> QED
      BY <1>10, <2>1, <2>2
  <2> QED
    BY <1>5, <1>10, <2>3
<1>15. SetsFit(new, line, M, n)
  <2>1. ASSUME NEW k \in 1..n
        PROVE  /\ new[k] \in line[k]
               /\ new[k] = k <=> k \notin M
               /\ \A y \in line[k] : y < new[k] => y \in M
    <3>1. CASE k \in R
      BY <1>12, <1>14, <3>1 DEF IsRoot
    <3>2. CASE k \notin R
      BY <1>12, <3>2 DEF SetsFit
    <3> QED
      BY <3>1, <3>2
  <2> QED
    BY <1>12, <2>1 DEF SetsFit
<1> QED
  BY <1>11, <1>13, <1>15

LEMMA MergedFits ==
    ASSUME NEW n \in Nat, NEW line, NEW up, AreLines(line, up, n), NEW M,
           NEW sets, SetsFit(sets, line, M, n), NEW x \in 1..n, up[x] # None
    PROVE  SetsFit([sets EXCEPT ![x] = up[x]], line, M \cup {x}, n)
<1> DEFINE new == [sets EXCEPT ![x] = up[x]]
<1>1. /\ sets \in [1..n -> 1..n]
      /\ \A k \in 1..n : sets[k] \in line[k]
      /\ \A k \in 1..n : sets[k] = k <=> k \notin M
      /\ \A k \in 1..n : \A y \in line[k] : y < sets[k] => y \in M
  BY DEF SetsFit
<1>2. /\ up[x] \in 1..n /\ up[x] > x /\ line[x] = {x} \cup line[up[x]]
      /\ up[x] \in line[up[x]] /\ line[up[x]] \subseteq up[x]..n
  BY LinesClimb DEF AreLines
<1>3. /\ new \in [1..n -> 1..n] /\ new[x] = up[x]
      /\ \A k \in 1..n : k # x => new[k] = sets[k]
  BY <1>1, <1>2
<1> HIDE DEF new
<1>4. ASSUME NEW k \in 1..n
      PROVE  /\ new[k] \in line[k]
             /\ new[k] = k <=> k \notin M \cup {x}
             /\ \A y \in line[k] : y < new[k] => y \in M \cup {x}
  <2>1. CASE k = x
    BY SMTT(30), <1>2, <1>3, <2>1
  <2>2. CASE k # x
    BY <1>1, <1>3, <2>2
  <2> QED
    BY <2>1, <2>2
<1>5. SetsFit(new, line, M \cup {x}, n)
  BY <1>3, <1>4 DEF SetsFit
<1> QED
  BY <1>5 DEF new

-----------------------------------------------------------------------------
(***************************************************************************)
(* An entry of the skeleton matrix.                                        *)
(***************************************************************************)
SkeletonStates(n) ==
    [counts : [1..n -> Int], neighbors : [1..n -> 0..n],
     leafs : [1..n -> 0..n], sets : [1..n -> 1..n]]
LeafAfter(firsts, neighbors, leafs, row, c) ==
    IF firsts[row] > neighbors[c] THEN row ELSE leafs[c]
IsLeafRow(s, firsts, row, c) == firsts[row] > s.neighbors[c]
OverlapIn(s, c) ==
    IF s.leafs[c] = None THEN None ELSE SetRoot(s.sets, s.leafs[c])
IsEntry(t, s, firsts, k, row, c, n) ==
    /\ t = [counts |-> t.counts, neighbors |-> t.neighbors,
            leafs |-> t.leafs, sets |-> t.sets]
    /\ t.neighbors = [s.neighbors EXCEPT ![c] = k]
    /\ t.leafs = [s.leafs EXCEPT ![c] =
                     LeafAfter(firsts, s.neighbors, s.leafs, row, c)]
    /\ t.sets = IF IsLeafRow(s, firsts, row, c) /\ s.leafs[c] # None
                THEN Compressed(s.sets, s.leafs[c]) ELSE s.sets
    /\ t.counts \in [1..n -> Int]
    /\ ~IsLeafRow(s, firsts, row, c) => t.counts = s.counts
    /\ IsLeafRow(s, firsts, row, c) => \A i \in 1..n : t.counts[i] =
           s.counts[i] + (IF i = row THEN 1 ELSE 0)
                       - (IF i = OverlapIn(s, c) THEN 1 ELSE 0)
LEMMA EntryOfSkeleton ==
    ASSUME NEW n \in Nat, NEW s \in SkeletonStates(n), NEW firsts,
           NEW k \in 1..n, NEW row \in 1..n, NEW c \in 1..n
    PROVE  IsEntry(SkeletonEntry(s, firsts, k, row, c), s, firsts, k, row, c, n)
<1> DEFINE t == SkeletonEntry(s, firsts, k, row, c)
           leaf == s.leafs[c]
           isLeaf == firsts[row] > s.neighbors[c]
           over == IF leaf = None THEN None ELSE SetRoot(s.sets, leaf)
           cs == [i \in 1..n |-> IF ~isLeaf THEN s.counts[i]
                    ELSE s.counts[i] + (IF i = row THEN 1 ELSE 0)
                                     - (IF i = over THEN 1 ELSE 0)]
           sets == IF isLeaf /\ leaf # None
                   THEN Compressed(s.sets, leaf) ELSE s.sets
           lf == [s.leafs EXCEPT ![c] = IF isLeaf THEN row ELSE leaf]
           nb == [s.neighbors EXCEPT ![c] = k]
<1>1. /\ s.counts \in [1..n -> Int] /\ DOMAIN s.counts = 1..n
      /\ s = [counts |-> s.counts, neighbors |-> s.neighbors,
              leafs |-> s.leafs, sets |-> s.sets]
  BY DEF SkeletonStates
<1>2. t = [s EXCEPT !.neighbors[c] = k, !.counts = <<>> \o cs, !.sets = sets,
                    !.leafs[c] = IF isLeaf THEN row ELSE leaf]
  BY <1>1 DEF SkeletonEntry
<1>3. /\ cs \in [1..n -> Int]
      /\ ~isLeaf => \A i \in 1..n : cs[i] = s.counts[i]
      /\ isLeaf => \A i \in 1..n : cs[i] =
             s.counts[i] + (IF i = row THEN 1 ELSE 0)
                         - (IF i = over THEN 1 ELSE 0)
  BY <1>1
<1> HIDE DEF cs, sets, isLeaf, leaf, over
<1>4. <<>> \o cs = cs
  <2>1. cs = [i \in 1..n |-> cs[i]]
    BY <1>3
  <2> QED
    BY <2>1, WrittenDown
<1>5. ~isLeaf => cs = s.counts
  BY <1>1, <1>3
<1>6. t = [counts |-> cs, neighbors |-> nb, leafs |-> lf, sets |-> sets]
  BY <1>1, <1>2, <1>4
<1> HIDE DEF t, nb, lf
<1>7. /\ DOMAIN t = {"counts", "neighbors", "leafs", "sets"}
      /\ t.counts = cs /\ t.neighbors = nb /\ t.leafs = lf /\ t.sets = sets
      /\ t = [counts |-> t.counts, neighbors |-> t.neighbors,
              leafs |-> t.leafs, sets |-> t.sets]
  BY <1>6
<1> QED
  BY <1>3, <1>5, <1>7 DEF t, nb, lf, sets, isLeaf, leaf, over,
                          IsLeafRow, LeafAfter, OverlapIn, IsEntry

\* The rows with an entry that was seen in a column: which was the last, and
\* which the last leaf of the row subtree.  G[i] is the rows seen for i.
SeenFit(neighbors, leafs, G, q, line, n, k) ==
    /\ G \in [1..n -> SUBSET (1..n)]
    /\ \A i \in 1..n : \A r \in G[i] : i \in line[r]
    /\ \A i \in 1..n : \A r \in G[i] : \E l \in 1..k : q[l] = r
    /\ \A p \in (k + 1)..n : G[q[p]] = {} =>
           neighbors[q[p]] = None /\ leafs[q[p]] = None
    /\ \A p \in (k + 1)..n : G[q[p]] # {} =>
           /\ neighbors[q[p]] \in 1..k /\ leafs[q[p]] \in G[q[p]]
           /\ q[neighbors[q[p]]] \in G[q[p]]
           /\ q[neighbors[q[p]]] \in line[leafs[q[p]]]
           /\ \A l \in 1..n : q[l] \in G[q[p]] => l <= neighbors[q[p]]
IsFirst(firsts, q, line, n) ==
    \A i \in 1..n :
        /\ firsts[i] \in 1..n /\ i \in line[q[firsts[i]]]
        /\ \A l \in 1..n : i \in line[q[l]] => firsts[i] <= l

\* What is not yet below a row's place and above one row that was seen is
\* above the last one, and so above the last leaf.
LEMMA LastCovers ==
    ASSUME NEW n \in Nat, NEW up, NEW line, AreLines(line, up, n),
           NEW q, IsWholePostorder(q, line, n), NEW k \in 1..n,
           NEW neighbors, NEW leafs, NEW G,
           SeenFit(neighbors, leafs, G, q, line, n, k),
           NEW p \in (k + 1)..n, NEW r \in G[q[p]],
           NEW m \in k..n, q[m] \in line[r]
    PROVE  q[m] \in line[q[neighbors[q[p]]]] /\ q[m] \in line[leafs[q[p]]]
<1> DEFINE c == q[p]
           last == neighbors[c]
           leaf == leafs[c]
<1>1. c \in 1..n
  BY WholePostorder
<1>2. G \in [1..n -> SUBSET (1..n)] /\ G[c] # {}
  BY DEF SeenFit
<1>3. /\ last \in 1..k /\ leaf \in G[c] /\ q[last] \in line[leaf]
      /\ \A l \in 1..n : q[l] \in G[c] => l <= last
  BY <1>2 DEF SeenFit
<1>4. leaf \in 1..n
  BY <1>1, <1>2, <1>3
<1>5. PICK l \in 1..k : q[l] = r
  BY <1>1 DEF SeenFit
<1> HIDE DEF c, last, leaf
<1>6. l \in 1..n /\ last \in 1..n /\ m \in 1..n /\ l <= last /\ last <= m
  BY <1>3, <1>5 DEF c
<1>7. q[m] \in line[q[last]]
  <2>1. \A a, b, i \in 1..n :
            q[a] \in line[q[b]] /\ b <= i /\ i <= a => q[a] \in line[q[i]]
    BY WholePostorder
  <2> QED
    BY <1>5, <1>6, <2>1
<1>8. line[q[last]] \subseteq line[leaf]
  BY <1>3, <1>4, LinesPass
<1> QED
  BY <1>7, <1>8 DEF c, last, leaf

\* A row is a leaf of the row subtree of a column unless an entry of the column
\* was seen in a row below it.
LEMMA LeafFound ==
    ASSUME NEW n \in Nat, NEW up, NEW line, AreLines(line, up, n),
           NEW q, IsWholePostorder(q, line, n), NEW k \in 1..n,
           NEW neighbors, NEW leafs, NEW G,
           SeenFit(neighbors, leafs, G, q, line, n, k),
           NEW firsts, IsFirst(firsts, q, line, n), NEW p \in (k + 1)..n
    PROVE  firsts[q[k]] > neighbors[q[p]]
               <=> ~ \E r \in G[q[p]] : q[k] \in line[r]
<1> DEFINE c == q[p]
           row == q[k]
<1>1. c \in 1..n /\ row \in 1..n
  BY WholePostorder
<1>2. /\ firsts[row] \in 1..n /\ row \in line[q[firsts[row]]]
      /\ \A l \in 1..n : row \in line[q[l]] => firsts[row] <= l
  BY <1>1 DEF IsFirst
<1>3. CASE G[c] = {}
  <2>1. neighbors[c] = 0
    BY <1>3 DEF SeenFit, None
  <2> QED
    BY <1>2, <1>3, <2>1
<1>4. CASE G[c] # {}
  <2>1. /\ neighbors[c] \in 1..k /\ q[neighbors[c]] \in G[c]
        /\ \A l \in 1..n : q[l] \in G[c] => l <= neighbors[c]
    BY <1>4 DEF SeenFit
  <2>2. ASSUME NEW r \in G[c], row \in line[r]
        PROVE  ~(firsts[row] > neighbors[c])
    <3>1. PICK l \in 1..k : q[l] = r
      BY <1>1 DEF SeenFit
    <3>2. l <= neighbors[c] /\ firsts[row] <= l /\ l \in 1..n
      BY <1>2, <2>1, <2>2, <3>1
    <3> QED
      BY <1>2, <2>1, <3>2
  <2>3. ASSUME ~(firsts[row] > neighbors[c])
        PROVE  row \in line[q[neighbors[c]]]
    <3> DEFINE f == firsts[row]
               b == neighbors[c]
    <3>1. f \in 1..n /\ b \in 1..n /\ k \in 1..n /\ f <= b /\ b <= k
      BY <1>2, <2>1, <2>3
    <3>2. q[k] \in line[q[f]]
      BY <1>2
    <3> HIDE DEF f, b
    <3>3. \A i, j, l \in 1..n :
              q[i] \in line[q[j]] /\ j <= l /\ l <= i => q[i] \in line[q[l]]
      BY WholePostorder
    <3>4. q[k] \in line[q[b]]
      BY <3>1, <3>2, <3>3
    <3> QED
      BY <3>4 DEF b
  <2> QED
    BY <2>1, <2>2, <2>3
<1> QED
  BY <1>3, <1>4

\* What is merged is what was left, except for the roots.
AreMerged(M, q, up, n, k) ==
    \A l \in 1..n : q[l] \in M <=> l < k /\ up[q[l]] # None
LEMMA MergedHaveParents ==
    ASSUME NEW n \in Nat, NEW line, NEW up,
           NEW q, IsWholePostorder(q, line, n),
           NEW k, NEW M, AreMerged(M, q, up, n, k)
    PROVE  HaveParents(M, up, n)
<1>1. \A x \in 1..n : \E l \in 1..n : q[l] = x
  BY WholePostorder
<1> QED
  BY <1>1 DEF AreMerged, HaveParents

\* Where the line of the last leaf meets the line of the row.
LEMMA OverlapFound ==
    ASSUME NEW n \in Nat, NEW up, NEW line, AreLines(line, up, n),
           NEW q, IsWholePostorder(q, line, n), NEW k \in 1..n,
           NEW M, AreMerged(M, q, up, n, k), NEW p \in (k + 1)..n,
           NEW l \in 1..(k - 1), q[p] \in line[q[l]],
           NEW over, IsRoot(over, q[l], line, M)
    PROVE  /\ over \in 1..n
           /\ \A j \in 1..n : j \in line[over]
                  <=> j \in line[q[l]] /\ j \in line[q[k]]
<1> DEFINE leaf == q[l]
           row == q[k]
           c == q[p]
<1>1. l \in 1..n /\ leaf \in 1..n /\ row \in 1..n /\ c \in 1..n
  BY WholePostorder
<1>2. over \in 1..n /\ over \in line[leaf] /\ over \notin M
  <2>1. IsRoot(over, leaf, line, M)
    OBVIOUS
  <2>2. over \in 1..n
    BY <1>1, <2>1, RootsAgree
  <2> QED
    BY <2>1, <2>2 DEF IsRoot
<1>3. PICK m \in 1..n : q[m] = over
  BY <1>2, WholePostorder
<1>4. \A a, b, i \in 1..n :
          q[a] \in line[q[b]] /\ b <= i /\ i <= a => q[a] \in line[q[i]]
  BY WholePostorder
<1>5. \A a, b \in 1..n : q[a] \in line[q[b]] => b <= a
  BY WholePostorder
<1>6. m >= k
  <2> SUFFICES ASSUME m < k PROVE FALSE
    BY <1>3
  <2>1. up[over] = None
    BY <1>2, <1>3 DEF AreMerged
  <2>2. line[over] = {over}
    BY <1>2, <2>1 DEF AreLines
  <2>3. c \in M => FALSE
    BY DEF AreMerged
  <2>4. over <= c
    BY <1>1, <1>2, <2>3 DEF IsRoot
  <2>5. c \in line[over]
    BY <1>1, <1>2, <2>4, LinesNest
  <2>6. q[p] = q[m]
    BY <1>3, <2>2, <2>5
  <2>7. p = m
    <3>1. \A a, b \in 1..n : q[a] = q[b] => a = b
      BY WholePostorder
    <3> QED
      BY <1>3, <2>6, <3>1
  <2> QED
    BY <2>7
<1>7. ASSUME NEW j \in 1..n, j \in line[over]
      PROVE  j \in line[leaf] /\ j \in line[row]
  <2>1. j \in line[leaf]
    BY <1>1, <1>2, <1>7, LinesPass
  <2>2. PICK a \in 1..n : q[a] = j
    BY WholePostorder
  <2>3. m <= a
    BY <1>3, <1>5, <1>7, <2>2
  <2>4. j \in line[row]
    BY <1>1, <1>4, <1>6, <2>1, <2>2, <2>3
  <2> QED
    BY <2>1, <2>4
<1>8. ASSUME NEW j \in 1..n, j \in line[leaf], j \in line[row]
      PROVE  j \in line[over]
  <2>1. PICK a \in 1..n : q[a] = j
    BY WholePostorder
  <2>2. k <= a
    BY <1>5, <1>8, <2>1
  <2>3. j \notin M
    BY <2>1, <2>2 DEF AreMerged
  <2>4. over <= j
    BY <1>2, <1>8, <2>3 DEF IsRoot
  <2> QED
    BY <1>1, <1>2, <1>8, <2>4, LinesNest
<1> QED
  BY <1>2, <1>7, <1>8

-----------------------------------------------------------------------------
(***************************************************************************)
(* What the counts below a column add up to.                               *)
(***************************************************************************)
\* One more in one place.
IsChange(d, c, n, x, e) ==
    /\ c \in [1..n -> Int] /\ d \in [1..n -> Int]
    /\ d[x] = c[x] + e /\ \A y \in 1..n : y # x => d[y] = c[y]
LEMMA SumKeeps ==
    ASSUME NEW n \in Nat, NEW c, NEW d, NEW x \in 1..n, NEW e \in Int,
           IsChange(d, c, n, x, e), NEW S \in SUBSET (1..n), x \notin S
    PROVE  SumOver(d, S) = SumOver(c, S)
<1>1. IsFiniteSet(S)
  <2>1. IsFiniteSet(1..n)
    BY FS_Interval
  <2> QED
    BY <2>1, FS_Subset
<1>2. \A y \in S : c[y] \in Int /\ d[y] = c[y]
  BY DEF IsChange
<1>3. SumOver(c, S) = SumOver(d, S)
  BY <1>1, <1>2, SumAgrees
<1> QED
  BY <1>3
LEMMA SumChanges ==
    ASSUME NEW n \in Nat, NEW c, NEW d, NEW x \in 1..n, NEW e \in Int,
           IsChange(d, c, n, x, e), NEW S \in SUBSET (1..n)
    PROVE  /\ SumOver(c, S) \in Int /\ SumOver(d, S) \in Int
           /\ x \in S => SumOver(d, S) = SumOver(c, S) + e
<1>1. IsFiniteSet(S) /\ IsFiniteSet(S \ {x})
  <2>1. IsFiniteSet(1..n)
    BY FS_Interval
  <2> QED
    BY <2>1, FS_Subset
<1>0. /\ c \in [1..n -> Int] /\ d \in [1..n -> Int]
      /\ d[x] = c[x] + e /\ \A y \in 1..n : y # x => d[y] = c[y]
  BY DEF IsChange
<1>2. \A y \in S : c[y] \in Int
  BY <1>0
<1>6. \A y \in S : d[y] \in Int
  BY <1>0
<1>3. SumOver(c, S) \in Int /\ SumOver(d, S) \in Int
  BY <1>1, <1>2, <1>6, SumInteger
<1>4. ASSUME x \in S PROVE SumOver(d, S) = SumOver(c, S) + e
  <2>1. \A y \in S \ {x} : c[y] \in Int /\ d[y] = c[y]
    BY <1>0, <1>2
  <2>2. SumOver(c, S \ {x}) \in Int
    BY <1>1, <2>1, SumInteger
  <2>3. SumOver(c, S \ {x}) = SumOver(d, S \ {x})
    BY <1>1, <2>1, SumAgrees
  <2>4. SumOver(c, S) = c[x] + SumOver(c, S \ {x})
    BY ZenonT(40), <1>1, <1>2, <1>4, SumTakeOff
  <2>5. SumOver(d, S) = d[x] + SumOver(d, S \ {x})
    BY ZenonT(40), <1>1, <1>4, <1>6, SumTakeOff
  <2> DEFINE A == SumOver(c, S \ {x})
             B == SumOver(d, S \ {x})
             C == SumOver(c, S)
             E == SumOver(d, S)
             v == c[x]
             w == d[x]
  <2>6. /\ A = B /\ A \in Int /\ C = v + A /\ E = w + B /\ w = v + e
        /\ v \in Int /\ w \in Int
    BY <1>0, <1>2, <1>6, <1>4, <2>2, <2>3, <2>4, <2>5
  <2> HIDE DEF A, B, C, E, v, w
  <2>7. E = C + e
    BY <2>6
  <2> QED
    BY <2>7 DEF C, E
<1> QED
  BY <1>3, <1>4

\* The columns with an entry that was seen in a row below a column, and the
\* rows that were taken off at a parent below it.
Covered(G, line, n, j) == {i \in 1..n : \E r \in G[i] : j \in line[r]}
Moved(P, up, line, j) == {d \in P : up[d] # None /\ j \in line[up[d]]}
CountsFit(counts, G, P, leaves, up, line, n) ==
    /\ counts \in [1..n -> Int] /\ leaves \in [1..n -> Int]
    /\ P \in SUBSET (1..n)
    /\ \A j \in 1..n : SumOver(counts, Subtree(line, n, j))
           = SumOver(leaves, Subtree(line, n, j))
                 + Cardinality(Covered(G, line, n, j))
                 - Cardinality(Moved(P, up, line, j))

LEMMA SubtreeSums ==
    ASSUME NEW n \in Nat, NEW line, NEW f \in [1..n -> Int], NEW j
    PROVE  /\ IsFiniteSet(Subtree(line, n, j)) /\ Subtree(line, n, j) \subseteq 1..n
           /\ SumOver(f, Subtree(line, n, j)) \in Int
<1>1. IsFiniteSet(1..n) /\ Subtree(line, n, j) \subseteq 1..n
  BY FS_Interval DEF Subtree
<1>2. IsFiniteSet(Subtree(line, n, j))
  BY <1>1, FS_Subset
<1>3. \A x \in Subtree(line, n, j) : f[x] \in Int
  BY <1>1
<1> QED
  BY <1>1, <1>2, <1>3, SumInteger
LEMMA MovedAreCounted ==
    ASSUME NEW n \in Nat, NEW P \in SUBSET (1..n), NEW up, NEW line, NEW j
    PROVE  /\ IsFiniteSet(Moved(P, up, line, j)) /\ Moved(P, up, line, j) \subseteq P
           /\ Cardinality(Moved(P, up, line, j)) \in Nat
<1>3. Moved(P, up, line, j) \subseteq P
  BY DEF Moved
<1>4. IsFiniteSet(1..n)
  BY FS_Interval
<1>1. IsFiniteSet(P)
  BY <1>4, FS_Subset
<1>2. IsFiniteSet(Moved(P, up, line, j))
  BY <1>1, <1>3, FS_Subset
<1> QED
  BY <1>2, <1>3, FS_CardinalityType

Gains(new, G, n, c, row) ==
    /\ G \in [1..n -> SUBSET (1..n)]
    /\ new = [G EXCEPT ![c] = @ \cup {row}]
IsNew(G, line, c, j) == \A r \in G[c] : j \notin line[r]
LEMMA CoverGrows ==
    ASSUME NEW n \in Nat, NEW line, NEW G, NEW c \in 1..n, NEW row \in 1..n,
           NEW new, Gains(new, G, n, c, row), NEW j \in 1..n
    PROVE  /\ Cardinality(Covered(G, line, n, j)) \in Nat
           /\ IF j \in line[row] /\ IsNew(G, line, c, j)
              THEN Cardinality(Covered(new, line, n, j))
                       = Cardinality(Covered(G, line, n, j)) + 1
              ELSE Covered(new, line, n, j) = Covered(G, line, n, j)
<1>1. new[c] = G[c] \cup {row} /\ \A i \in 1..n : i # c => new[i] = G[i]
  BY DEF Gains
<1>2. IsFiniteSet(Covered(G, line, n, j))
  <2>1. IsFiniteSet(1..n) /\ Covered(G, line, n, j) \subseteq 1..n
    BY FS_Interval DEF Covered
  <2> QED
    BY <2>1, FS_Subset
<1>3. Cardinality(Covered(G, line, n, j)) \in Nat
  BY <1>2, FS_CardinalityType
<1>4. ASSUME j \in line[row], IsNew(G, line, c, j)
      PROVE  Cardinality(Covered(new, line, n, j))
                 = Cardinality(Covered(G, line, n, j)) + 1
  <2>1. c \notin Covered(G, line, n, j)
    BY <1>4 DEF Covered, IsNew
  <2>2. Covered(new, line, n, j) = Covered(G, line, n, j) \cup {c}
    BY <1>1, <1>4 DEF Covered, IsNew
  <2> QED
    BY <1>2, <2>1, <2>2, FS_AddElement
<1>5. ASSUME ~(j \in line[row] /\ IsNew(G, line, c, j))
      PROVE  Covered(new, line, n, j) = Covered(G, line, n, j)
  BY <1>1, <1>5 DEF Covered, IsNew
<1> QED
  BY <1>3, <1>4, <1>5

\* A leaf counts once more below what is above the row, except for what is
\* above the last leaf too.
IsLeafCount(new, counts, n, row, over) ==
    /\ counts \in [1..n -> Int] /\ new \in [1..n -> Int]
    /\ \A i \in 1..n : new[i] = counts[i] + (IF i = row THEN 1 ELSE 0)
                                       - (IF i = over THEN 1 ELSE 0)
LEMMA LeafCounts ==
    ASSUME NEW n \in Nat, NEW up, NEW line, AreLines(line, up, n),
           NEW row \in 1..n, NEW over \in 0..n,
           NEW counts, NEW new, IsLeafCount(new, counts, n, row, over),
           NEW j \in 1..n
    PROVE  LET S == Subtree(line, n, j)
               both == over # None /\ j \in line[over]
           IN  /\ SumOver(counts, S) \in Int
               /\ j \in line[row] /\ ~both => SumOver(new, S) = SumOver(counts, S) + 1
               /\ j \in line[row] /\ both => SumOver(new, S) = SumOver(counts, S)
               /\ j \notin line[row] /\ ~both => SumOver(new, S) = SumOver(counts, S)
<1> DEFINE S == Subtree(line, n, j)
           mid == [i \in 1..n |-> counts[i] + (IF i = row THEN 1 ELSE 0)]
<1>1. S \subseteq 1..n /\ \A i \in 1..n : i \in S <=> j \in line[i]
  BY DEF Subtree
<1>2. /\ mid \in [1..n -> Int] /\ mid[row] = counts[row] + 1
      /\ counts \in [1..n -> Int] /\ new \in [1..n -> Int]
      /\ \A i \in 1..n : i # row => mid[i] = counts[i]
  BY DEF IsLeafCount
<1>3. \A i \in 1..n : new[i] = mid[i] - (IF i = over THEN 1 ELSE 0)
  BY DEF IsLeafCount
<1>7. IsChange(mid, counts, n, row, 1)
  BY <1>2 DEF IsChange
<1> HIDE DEF mid, S
<1>4. /\ SumOver(counts, S) \in Int /\ SumOver(mid, S) \in Int
      /\ row \in S => SumOver(mid, S) = SumOver(counts, S) + 1
      /\ row \notin S => SumOver(mid, S) = SumOver(counts, S)
  <2> DEFINE e == 1
  <2>1. e \in Int /\ IsChange(mid, counts, n, row, e)
    BY <1>7
  <2>3. S \in SUBSET (1..n)
    BY <1>1
  <2>4. row \in 1..n /\ n \in Nat
    OBVIOUS
  <2> HIDE DEF e
  <2>2. SumOver(mid, S) \in Int
    BY <2>1, <2>3, <2>4, SumChanges
  <2>5. SumOver(counts, S) \in Int
    BY <2>1, <2>3, <2>4, SumChanges
  <2>6. row \in S => SumOver(mid, S) = SumOver(counts, S) + e
    BY <2>1, <2>3, <2>4, SumChanges
  <2>7. row \notin S => SumOver(mid, S) = SumOver(counts, S)
    <3>1. SUFFICES ASSUME row \notin S PROVE SumOver(mid, S) = SumOver(counts, S)
      OBVIOUS
    <3> QED
      BY <2>1, <2>3, <2>4, <3>1, SumKeeps
  <2> QED
    BY <2>2, <2>5, <2>6, <2>7 DEF e
<1>5. CASE over = None
  <2>1. \A i \in 1..n : new[i] = mid[i]
    BY <1>2, <1>3, <1>5 DEF None
  <2>2. new = mid
    BY <1>2, <2>1
  <2> QED
    BY <1>1, <1>4, <1>5, <2>2 DEF S
<1>6. CASE over # None
  <2>1. over \in 1..n
    BY <1>6 DEF None
  <2>2. new[over] = mid[over] + (-1) /\ \A i \in 1..n : i # over => new[i] = mid[i]
    BY <1>2, <1>3, <2>1
  <2>4. IsChange(new, mid, n, over, -1)
    BY <1>2, <2>2 DEF IsChange
  <2>3. /\ SumOver(new, S) \in Int
        /\ over \in S => SumOver(new, S) = SumOver(mid, S) + (-1)
        /\ over \notin S => SumOver(new, S) = SumOver(mid, S)
    <3> DEFINE e == -1
    <3>1. e \in Int /\ IsChange(new, mid, n, over, e) /\ S \in SUBSET (1..n)
      BY <1>1, <2>4
    <3> HIDE DEF e
    <3>2. /\ SumOver(new, S) \in Int
          /\ over \in S => SumOver(new, S) = SumOver(mid, S) + e
      BY <2>1, <3>1, SumChanges
    <3>3. over \notin S => SumOver(new, S) = SumOver(mid, S)
      <4>1. SUFFICES ASSUME over \notin S PROVE SumOver(new, S) = SumOver(mid, S)
        OBVIOUS
      <4> QED
        BY <2>1, <3>1, <4>1, SumKeeps
    <3> QED
      BY <1>4, <3>2, <3>3 DEF e
  <2> QED
    BY <1>1, <1>4, <1>6, <2>1, <2>3 DEF S
<1> QED
  BY <1>5, <1>6

-----------------------------------------------------------------------------
(***************************************************************************)
(* An entry of the skeleton keeps what the counts add up to.               *)
(***************************************************************************)
LEMMA EntryIsSeen ==
    ASSUME NEW n \in Nat, NEW up, NEW line, AreLines(line, up, n),
           NEW q, IsWholePostorder(q, line, n), NEW k \in 1..n,
           NEW neighbors \in [1..n -> 0..n], NEW leafs \in [1..n -> 0..n], NEW G,
           SeenFit(neighbors, leafs, G, q, line, n, k),
           NEW firsts, IsFirst(firsts, q, line, n), NEW p \in (k + 1)..n,
           q[p] \in line[q[k]]
    PROVE  SeenFit([neighbors EXCEPT ![q[p]] = k],
                   [leafs EXCEPT ![q[p]] =
                       LeafAfter(firsts, neighbors, leafs, q[k], q[p])],
                   [G EXCEPT ![q[p]] = @ \cup {q[k]}], q, line, n, k)
<1> DEFINE c == q[p]
           row == q[k]
           leaf == LeafAfter(firsts, neighbors, leafs, row, c)
           new == [G EXCEPT ![c] = @ \cup {row}]
           nb == [neighbors EXCEPT ![c] = k]
           lf == [leafs EXCEPT ![c] = leaf]
           isLeaf == firsts[row] > neighbors[c]
<1>1. c \in 1..n /\ row \in 1..n /\ \A l \in 1..n : q[l] \in 1..n
  BY WholePostorder
<1>2. \A a, b \in 1..n : q[a] = q[b] => a = b
  BY WholePostorder
<1>3. isLeaf <=> ~ \E r \in G[c] : row \in line[r]
  BY LeafFound
<1>4. /\ G \in [1..n -> SUBSET (1..n)]
      /\ \A i \in 1..n : \A r \in G[i] : i \in line[r]
  BY DEF SeenFit
<1>14. \A i \in 1..n : \A r \in G[i] : \E l \in 1..k : q[l] = r
  BY DEF SeenFit
<1>15. leaf = IF isLeaf THEN row ELSE leafs[c]
  BY DEF LeafAfter
<1> HIDE DEF isLeaf, leaf
<1>5. /\ new \in [1..n -> SUBSET (1..n)] /\ new[c] = G[c] \cup {row}
      /\ \A i \in 1..n : i # c => new[i] = G[i]
  BY <1>1, <1>4
<1>6. /\ nb[c] = k /\ \A i \in 1..n : i # c => nb[i] = neighbors[i]
      /\ lf[c] = leaf /\ \A i \in 1..n : i # c => lf[i] = leafs[i]
  BY <1>1
<1>7. row \in line[row]
  BY <1>1, LinesClimb
<1> HIDE DEF new, nb, lf
<1>8. leaf \in new[c] /\ row \in line[leaf]
  <2>1. CASE isLeaf
    BY <1>5, <1>7, <1>15, <2>1
  <2>2. CASE ~isLeaf
    <3>1. PICK r \in G[c] : row \in line[r]
      BY <1>3, <2>2
    <3>2. leafs[c] \in G[c]
      BY <3>1 DEF SeenFit
    <3>3. k \in k..n
      OBVIOUS
    <3>4. q[k] \in line[leafs[q[p]]]
      BY <3>1, <3>3, LastCovers
    <3> QED
      BY <1>5, <1>15, <2>2, <3>2, <3>4
  <2> QED
    BY <2>1, <2>2
<1>9. ASSUME NEW l \in 1..n, q[l] \in new[c] PROVE l <= k
  <2>1. CASE q[l] = row
    BY <1>2, <2>1
  <2>2. CASE q[l] # row
    <3>1. PICK a \in 1..k : q[a] = q[l]
      BY <1>1, <1>5, <1>9, <1>14, <2>2
    <3>2. a = l
      BY <1>2, <3>1
    <3> QED
      BY <3>2
  <2> QED
    BY <2>1, <2>2
<1>10. \A i \in 1..n : \A r \in new[i] : i \in line[r]
  BY ZenonT(40), <1>1, <1>4, <1>5
<1>11. \A i \in 1..n : \A r \in new[i] : \E l \in 1..k : q[l] = r
  <2> TAKE i \in 1..n
  <2> TAKE r \in new[i]
  <2>1. CASE r \in G[i]
    BY <1>14, <2>1
  <2>2. CASE r \notin G[i]
    <3>1. r = row
      BY <1>5, <2>2
    <3> QED
      BY <3>1
  <2> QED
    BY <2>1, <2>2
<1>12. ASSUME NEW b \in (k + 1)..n, b # p
       PROVE  /\ q[b] \in 1..n /\ new[q[b]] = G[q[b]]
              /\ nb[q[b]] = neighbors[q[b]] /\ lf[q[b]] = leafs[q[b]]
  <2>1. q[b] # c /\ q[b] \in 1..n
    BY <1>1, <1>2, <1>12
  <2> QED
    BY <1>5, <1>6, <2>1
<1>13. ASSUME NEW b \in (k + 1)..n
       PROVE  /\ new[q[b]] = {} => nb[q[b]] = None /\ lf[q[b]] = None
              /\ new[q[b]] # {} =>
                     /\ nb[q[b]] \in 1..k /\ lf[q[b]] \in new[q[b]]
                     /\ q[nb[q[b]]] \in new[q[b]]
                     /\ q[nb[q[b]]] \in line[lf[q[b]]]
                     /\ \A l \in 1..n : q[l] \in new[q[b]] => l <= nb[q[b]]
  <2>1. CASE b = p
    <3>1. new[c] # {} /\ row \in new[c]
      BY <1>5
    <3>2. nb[c] \in 1..k /\ nb[c] = k
      BY <1>6
    <3> QED
      BY <1>6, <1>8, <1>9, <2>1, <3>1, <3>2
  <2>2. CASE b # p
    <3>1. /\ new[q[b]] = G[q[b]]
          /\ nb[q[b]] = neighbors[q[b]] /\ lf[q[b]] = leafs[q[b]]
      BY <1>12, <2>2
    <3>2. /\ G[q[b]] = {} => neighbors[q[b]] = None /\ leafs[q[b]] = None
          /\ G[q[b]] # {} =>
                 /\ neighbors[q[b]] \in 1..k /\ leafs[q[b]] \in G[q[b]]
                 /\ q[neighbors[q[b]]] \in G[q[b]]
                 /\ q[neighbors[q[b]]] \in line[leafs[q[b]]]
                 /\ \A l \in 1..n : q[l] \in G[q[b]] => l <= neighbors[q[b]]
      BY DEF SeenFit
    <3> QED
      BY <3>1, <3>2
  <2> QED
    BY <2>1, <2>2
<1>16. SeenFit(nb, lf, new, q, line, n, k)
  BY <1>5, <1>10, <1>11, <1>13 DEF SeenFit
<1> QED
  BY <1>16 DEF nb, lf, new, leaf

SkeletonFits(s, G, M, P, leaves, up, line, q, n, k) ==
    /\ s \in SkeletonStates(n) /\ SetsFit(s.sets, line, M, n)
    /\ SeenFit(s.neighbors, s.leafs, G, q, line, n, k)
    /\ CountsFit(s.counts, G, P, leaves, up, line, n)

\* The columns that an entry covers are those its counts add.
LEMMA EntryIsCounted ==
    ASSUME NEW n \in Nat, NEW up, NEW line, AreLines(line, up, n),
           NEW q, IsWholePostorder(q, line, n), NEW k \in 1..n,
           NEW M, AreMerged(M, q, up, n, k), NEW s, NEW G, NEW P, NEW leaves,
           SkeletonFits(s, G, M, P, leaves, up, line, q, n, k),
           NEW firsts, IsFirst(firsts, q, line, n), NEW p \in (k + 1)..n,
           q[p] \in line[q[k]], NEW counts,
           IsLeafRow(s, firsts, q[k], q[p]),
           IsLeafCount(counts, s.counts, n, q[k], OverlapIn(s, q[p])),
           NEW new, Gains(new, G, n, q[p], q[k]), NEW j \in 1..n
    PROVE  /\ Cardinality(Covered(G, line, n, j)) \in Nat
           /\ Cardinality(Covered(new, line, n, j)) \in Nat
           /\ SumOver(s.counts, Subtree(line, n, j)) \in Int
           /\ SumOver(counts, Subtree(line, n, j))
                  = SumOver(s.counts, Subtree(line, n, j))
                        + Cardinality(Covered(new, line, n, j))
                        - Cardinality(Covered(G, line, n, j))
<1> DEFINE c == q[p]
           row == q[k]
           leaf == s.leafs[c]
           over == OverlapIn(s, c)
           S == Subtree(line, n, j)
           both == over # None /\ j \in line[over]
           A == SumOver(s.counts, S)
           B == SumOver(counts, S)
           C == Cardinality(Covered(G, line, n, j))
           D == Cardinality(Covered(new, line, n, j))
<1>1. c \in 1..n /\ row \in 1..n
  BY WholePostorder
<1>2. /\ SeenFit(s.neighbors, s.leafs, G, q, line, n, k)
      /\ SetsFit(s.sets, line, M, n)
      /\ s.leafs \in [1..n -> 0..n]
  BY DEF SkeletonFits, SkeletonStates
<1>3. \A r \in G[c] : row \notin line[r]
  BY <1>2, LeafFound DEF IsLeafRow
<1>4. /\ G \in [1..n -> SUBSET (1..n)]
      /\ G[c] # {} => leaf \in G[c]
      /\ G[c] = {} => leaf = None
      /\ \A r \in G[c] : c \in line[r]
  BY <1>1, <1>2 DEF SeenFit
<1>5. G[c] # {} <=> leaf # None
  BY <1>1, <1>4 DEF None
<1>13. Gains(new, G, n, c, row)
  OBVIOUS
<1>6. /\ C \in Nat
      /\ j \in line[row] /\ IsNew(G, line, c, j) => D = C + 1
      /\ j \notin line[row] \/ (\E r \in G[c] : j \in line[r])
             => Covered(new, line, n, j) = Covered(G, line, n, j)
  <2> HIDE DEF row, c
  <2>1. /\ C \in Nat
        /\ IF j \in line[row] /\ IsNew(G, line, c, j) THEN D = C + 1
           ELSE Covered(new, line, n, j) = Covered(G, line, n, j)
    BY <1>1, <1>13, CoverGrows
  <2> QED
    BY <2>1 DEF IsNew
<1>7. over # None =>
          /\ over \in 1..n
          /\ j \in line[over] <=> j \in line[leaf] /\ j \in line[row]
  <2> SUFFICES ASSUME over # None
               PROVE  /\ over \in 1..n
                      /\ j \in line[over] <=> j \in line[leaf] /\ j \in line[row]
    OBVIOUS
  <2>1. leaf # None /\ over = SetRoot(s.sets, leaf)
    BY DEF OverlapIn
  <2>2. leaf \in G[c] /\ leaf \in 1..n /\ c \in line[leaf]
    BY <1>1, <1>4, <1>5, <2>1
  <2>3. PICK l \in 1..k : q[l] = leaf
    BY <1>1, <1>2, <2>2 DEF SeenFit
  <2>4. l # k
    <3>1. row \in line[row] /\ row \notin line[leaf]
      BY <1>1, <1>3, <2>2, LinesClimb
    <3> QED
      BY <2>3, <3>1
  <2>5. l \in 1..(k - 1)
    BY <2>4
  <2>6. HaveParents(M, up, n)
    BY MergedHaveParents
  <2>7. IsRoot(SetRoot(s.sets, leaf), leaf, line, M)
    BY <1>2, <2>2, <2>6, SetRootFits
  <2> HIDE DEF over, leaf
  <2>8. IsRoot(over, q[l], line, M) /\ q[p] \in line[q[l]]
    BY <2>1, <2>2, <2>3, <2>7
  <2>9. /\ over \in 1..n
        /\ \A i \in 1..n : i \in line[over] <=> i \in line[q[l]] /\ i \in line[q[k]]
    BY <2>5, <2>8, OverlapFound
  <2> QED
    BY <2>3, <2>9
<1>8. over \in 0..n
  BY <1>7 DEF None
<1>9. /\ A \in Int
      /\ j \in line[row] /\ ~both => B = A + 1
      /\ j \in line[row] /\ both => B = A
      /\ j \notin line[row] /\ ~both => B = A
  <2>1. IsLeafCount(counts, s.counts, n, row, over)
    OBVIOUS
  <2> HIDE DEF over, row
  <2> QED
    BY <1>1, <1>8, <2>1, LeafCounts
<1> HIDE DEF over
<1>10. CASE j \notin line[row]
  <2>1. ~both
    BY <1>7, <1>10
  <2>2. B = A /\ D = C
    BY <1>6, <1>9, <1>10, <2>1
  <2> HIDE DEF A, B, C, D
  <2>3. B = A + D - C /\ D \in Nat
    BY <1>6, <1>9, <2>2
  <2> QED
    BY <1>6, <1>9, <2>3 DEF A, B, C, D
<1>11. CASE j \in line[row] /\ both
  <2>1. over # None /\ j \in line[leaf]
    BY <1>7, <1>11
  <2>2. leaf \in G[c]
    BY <1>4, <1>5, <2>1 DEF over, OverlapIn
  <2>3. B = A /\ D = C
    BY <1>6, <1>9, <1>11, <2>1, <2>2
  <2> HIDE DEF A, B, C, D
  <2>4. B = A + D - C /\ D \in Nat
    BY <1>6, <1>9, <2>3
  <2> QED
    BY <1>6, <1>9, <2>4 DEF A, B, C, D
<1>12. CASE j \in line[row] /\ ~both
  <2>1. \A r \in G[c] : j \notin line[r]
    <3> SUFFICES ASSUME NEW r \in G[c], j \in line[r] PROVE FALSE
      OBVIOUS
    <3>1. PICK m \in 1..n : q[m] = j
      BY WholePostorder
    <3>2. k <= m
      <4>1. \A a, b \in 1..n : q[a] \in line[q[b]] => b <= a
        BY WholePostorder
      <4> QED
        BY <1>12, <3>1, <4>1
    <3>3. m \in k..n
      BY <3>2
    <3>4. q[m] \in line[r]
      BY <3>1
    <3>5. q[m] \in line[s.leafs[q[p]]]
      BY <1>2, <3>3, <3>4, LastCovers
    <3>6. leaf # None
      BY <1>5
    <3>7. leaf \in 1..n
      BY <1>1, <1>2, <3>6 DEF None
    <3>8. over # None
      <4>1. HaveParents(M, up, n)
        BY MergedHaveParents
      <4>2. IsRoot(SetRoot(s.sets, leaf), leaf, line, M)
        BY <1>2, <3>7, <4>1, SetRootFits
      <4>3. SetRoot(s.sets, leaf) \in 1..n
        BY <3>7, <4>2, RootsAgree
      <4> QED
        BY <3>6, <4>3 DEF over, OverlapIn, None
    <3> QED
      BY <1>7, <1>12, <3>1, <3>5, <3>8
  <2>2. B = A + 1 /\ D = C + 1
    BY <1>6, <1>9, <1>12, <2>1 DEF IsNew
  <2> HIDE DEF A, B, C, D
  <2>3. B = A + D - C /\ D \in Nat
    BY <1>6, <1>9, <2>2
  <2> QED
    BY <1>6, <1>9, <2>3 DEF A, B, C, D
<1> QED
  BY <1>10, <1>11, <1>12

-----------------------------------------------------------------------------
(***************************************************************************)
(* A row of the skeleton keeps what the counts add up to.                  *)
(***************************************************************************)
LEMMA EntryFits ==
    ASSUME NEW n \in Nat, NEW up, NEW line, AreLines(line, up, n),
           NEW q, IsWholePostorder(q, line, n), NEW k \in 1..n,
           NEW M, AreMerged(M, q, up, n, k), NEW s, NEW G, NEW P, NEW leaves,
           SkeletonFits(s, G, M, P, leaves, up, line, q, n, k),
           NEW firsts, IsFirst(firsts, q, line, n), NEW p \in (k + 1)..n,
           q[p] \in line[q[k]], NEW new, Gains(new, G, n, q[p], q[k])
    PROVE  SkeletonFits(SkeletonEntry(s, firsts, k, q[k], q[p]), new,
                        M, P, leaves, up, line, q, n, k)
<1> DEFINE c == q[p]
           row == q[k]
           t == SkeletonEntry(s, firsts, k, row, c)
           leaf == LeafAfter(firsts, s.neighbors, s.leafs, row, c)
           isLeaf == IsLeafRow(s, firsts, row, c)
           over == OverlapIn(s, c)
<1>1. c \in 1..n /\ row \in 1..n
  BY WholePostorder
<1>2. /\ s \in SkeletonStates(n) /\ SetsFit(s.sets, line, M, n)
      /\ SeenFit(s.neighbors, s.leafs, G, q, line, n, k)
      /\ CountsFit(s.counts, G, P, leaves, up, line, n)
  BY DEF SkeletonFits
<1>3. /\ s.neighbors \in [1..n -> 0..n] /\ s.leafs \in [1..n -> 0..n]
      /\ s.counts \in [1..n -> Int]
  BY <1>2 DEF SkeletonStates
<1>4. new = [G EXCEPT ![c] = @ \cup {row}]
  BY DEF Gains
<1>5. /\ t = [counts |-> t.counts, neighbors |-> t.neighbors,
              leafs |-> t.leafs, sets |-> t.sets]
      /\ t.neighbors = [s.neighbors EXCEPT ![c] = k]
      /\ t.leafs = [s.leafs EXCEPT ![c] = leaf]
      /\ t.sets = IF isLeaf /\ s.leafs[c] # None
                  THEN Compressed(s.sets, s.leafs[c]) ELSE s.sets
      /\ t.counts \in [1..n -> Int]
      /\ ~isLeaf => t.counts = s.counts
      /\ isLeaf => \A i \in 1..n : t.counts[i] =
             s.counts[i] + (IF i = row THEN 1 ELSE 0)
                         - (IF i = over THEN 1 ELSE 0)
  <2>1. IsEntry(t, s, firsts, k, row, c, n)
    BY <1>1, <1>2, EntryOfSkeleton
  <2> HIDE DEF t, c, row
  <2> QED
    BY <2>1 DEF IsEntry
<1> HIDE DEF t, c, row, leaf, isLeaf, over
<1>6. SetsFit(t.sets, line, M, n)
  <2>1. CASE isLeaf /\ s.leafs[c] # None
    <3>1. s.leafs[c] \in 1..n
      BY <1>1, <1>3, <2>1 DEF None
    <3>2. HaveParents(M, up, n)
      BY MergedHaveParents
    <3>3. SetsFit(Compressed(s.sets, s.leafs[c]), line, M, n)
      BY <1>2, <3>1, <3>2, CompressedFits
    <3> QED
      BY <1>5, <2>1, <3>3
  <2>2. CASE ~(isLeaf /\ s.leafs[c] # None)
    BY <1>2, <1>5, <2>2
  <2> QED
    BY <2>1, <2>2
<1>7. SeenFit(t.neighbors, t.leafs, new, q, line, n, k)
  <2>1. SeenFit([s.neighbors EXCEPT ![q[p]] = k],
                [s.leafs EXCEPT ![q[p]] =
                    LeafAfter(firsts, s.neighbors, s.leafs, q[k], q[p])],
                [G EXCEPT ![q[p]] = @ \cup {q[k]}], q, line, n, k)
    BY <1>2, <1>3, EntryIsSeen
  <2>2. /\ t.neighbors = [s.neighbors EXCEPT ![q[p]] = k]
        /\ t.leafs = [s.leafs EXCEPT ![q[p]] =
                    LeafAfter(firsts, s.neighbors, s.leafs, q[k], q[p])]
        /\ new = [G EXCEPT ![q[p]] = @ \cup {q[k]}]
    BY <1>4, <1>5 DEF c, row, leaf
  <2> QED
    BY <2>1, <2>2
<1>8. t \in SkeletonStates(n)
  <2>1. t.leafs \in [1..n -> 0..n]
    <3>1. leaf \in 0..n
      BY <1>1, <1>3 DEF leaf, LeafAfter
    <3> QED
      BY <1>3, <1>5, <3>1
  <2>2. t.neighbors \in [1..n -> 0..n]
    <3>1. t.neighbors = [s.neighbors EXCEPT ![c] = k] /\ k \in 0..n
      BY <1>5
    <3> QED
      BY <1>3, <3>1
  <2>3. t.sets \in [1..n -> 1..n]
    BY <1>6 DEF SetsFit
  <2>4. t.counts \in [1..n -> Int]
    BY <1>5
  <2>5. t = [counts |-> t.counts, neighbors |-> t.neighbors,
             leafs |-> t.leafs, sets |-> t.sets]
    BY <1>5
  <2> QED
    BY <2>1, <2>2, <2>3, <2>4, <2>5 DEF SkeletonStates
<1>9. CountsFit(t.counts, new, P, leaves, up, line, n)
  <2> SUFFICES ASSUME NEW j \in 1..n
               PROVE  SumOver(t.counts, Subtree(line, n, j))
                          = SumOver(leaves, Subtree(line, n, j))
                                + Cardinality(Covered(new, line, n, j))
                                - Cardinality(Moved(P, up, line, j))
    BY <1>2, <1>5 DEF CountsFit
  <2> DEFINE A == SumOver(s.counts, Subtree(line, n, j))
             B == SumOver(t.counts, Subtree(line, n, j))
             C == Cardinality(Covered(G, line, n, j))
             D == Cardinality(Covered(new, line, n, j))
             L == SumOver(leaves, Subtree(line, n, j))
             V == Cardinality(Moved(P, up, line, j))
  <2>1. A = L + C - V /\ leaves \in [1..n -> Int] /\ P \in SUBSET (1..n)
    BY <1>2 DEF CountsFit
  <2>4. L \in Int /\ V \in Nat
    BY <2>1, SubtreeSums, MovedAreCounted
  <2>2. CASE isLeaf
    <3>1. IsLeafCount(t.counts, s.counts, n, row, over)
      BY <1>3, <1>5, <2>2 DEF IsLeafCount
    <3>2. /\ IsLeafRow(s, firsts, q[k], q[p])
          /\ IsLeafCount(t.counts, s.counts, n, q[k], OverlapIn(s, q[p]))
      BY <2>2, <3>1 DEF isLeaf, over, row, c
    <3>3. C \in Nat /\ D \in Nat /\ A \in Int /\ B = A + D - C
      BY SMTT(30), <3>2, EntryIsCounted
    <3> HIDE DEF A, B, C, D, L, V
    <3>4. B = L + D - V
      BY <2>1, <2>4, <3>3
    <3> QED
      BY <3>4 DEF B, D, L, V
  <2>3. CASE ~isLeaf
    <3>1. ~ (firsts[q[k]] > s.neighbors[q[p]])
      BY <2>3 DEF isLeaf, IsLeafRow, c, row
    <3>2. PICK r \in G[q[p]] : q[k] \in line[r]
      BY <1>2, <3>1, LeafFound
    <3>3. r \in 1..n
      BY <1>1, <1>2, <3>2 DEF SeenFit, c
    <3>4. line[row] \subseteq line[r]
      BY <3>2, <3>3, LinesPass DEF row
    <3>5. ~(j \in line[row] /\ IsNew(G, line, c, j))
      BY <3>2, <3>4 DEF IsNew, c
    <3>6. Gains(new, G, n, c, row)
      BY DEF c, row
    <3>7. Covered(new, line, n, j) = Covered(G, line, n, j)
      BY <1>1, <3>5, <3>6, CoverGrows
    <3> QED
      BY <1>5, <2>1, <2>3, <3>7
  <2> QED
    BY <2>2, <2>3
<1>10. SkeletonFits(t, new, M, P, leaves, up, line, q, n, k)
  BY <1>6, <1>7, <1>8, <1>9 DEF SkeletonFits
<1> QED
  BY <1>10 DEF t, c, row

-----------------------------------------------------------------------------
(***************************************************************************)
(* The skeleton of a row, and of all.                                      *)
(***************************************************************************)
\* Each row takes one off at its parent, and is the last that was seen.
Started(s, up, row, k) ==
    LET counted == IF up[row] = None THEN s
                   ELSE [s EXCEPT !.counts[up[row]] = @ - 1]
    IN  [counted EXCEPT !.neighbors[row] = k]
Adds(new, P, row) == row \notin P /\ new = P \cup {row}
LEMMA MovedGrow ==
    ASSUME NEW n \in Nat, NEW up, NEW line, NEW P \in SUBSET (1..n),
           NEW row \in 1..n, NEW new, Adds(new, P, row), NEW j
    PROVE  /\ Cardinality(Moved(P, up, line, j)) \in Nat
           /\ IF up[row] # None /\ j \in line[up[row]]
              THEN Cardinality(Moved(new, up, line, j))
                       = Cardinality(Moved(P, up, line, j)) + 1
              ELSE Moved(new, up, line, j) = Moved(P, up, line, j)
<1>1. /\ IsFiniteSet(Moved(P, up, line, j))
      /\ Cardinality(Moved(P, up, line, j)) \in Nat
  BY MovedAreCounted
<1>2. ASSUME up[row] # None, j \in line[up[row]]
      PROVE  Cardinality(Moved(new, up, line, j))
                 = Cardinality(Moved(P, up, line, j)) + 1
  <2>1. row \notin Moved(P, up, line, j)
    BY DEF Moved, Adds
  <2>2. Moved(new, up, line, j) = Moved(P, up, line, j) \cup {row}
    BY <1>2 DEF Moved, Adds
  <2> QED
    BY <1>1, <2>1, <2>2, FS_AddElement
<1>3. ASSUME ~(up[row] # None /\ j \in line[up[row]])
      PROVE  Moved(new, up, line, j) = Moved(P, up, line, j)
  BY <1>3 DEF Moved, Adds
<1> QED
  BY <1>1, <1>2, <1>3

LEMMA RowStarts ==
    ASSUME NEW n \in Nat, NEW up, Climbs(up, n), NEW line, AreLines(line, up, n),
           NEW q, IsWholePostorder(q, line, n), NEW k \in 1..n,
           NEW M, NEW s, NEW G, NEW P, NEW leaves, q[k] \notin P,
           SkeletonFits(s, G, M, P, leaves, up, line, q, n, k - 1)
    PROVE  SkeletonFits(Started(s, up, q[k], k), G, M, P \cup {q[k]}, leaves,
                        up, line, q, n, k)
<1> DEFINE row == q[k]
           t == Started(s, up, row, k)
           nb == [s.neighbors EXCEPT ![row] = k]
           cs == IF up[row] = None THEN s.counts
                 ELSE [s.counts EXCEPT ![up[row]] = @ - 1]
           new == P \cup {row}
<1>1. row \in 1..n
  BY WholePostorder
<1>2. /\ s \in SkeletonStates(n) /\ SetsFit(s.sets, line, M, n)
      /\ SeenFit(s.neighbors, s.leafs, G, q, line, n, k - 1)
      /\ CountsFit(s.counts, G, P, leaves, up, line, n)
  BY DEF SkeletonFits
<1>3. /\ s.neighbors \in [1..n -> 0..n] /\ s.leafs \in [1..n -> 0..n]
      /\ s.counts \in [1..n -> Int] /\ s.sets \in [1..n -> 1..n]
      /\ s = [counts |-> s.counts, neighbors |-> s.neighbors,
              leafs |-> s.leafs, sets |-> s.sets]
  BY <1>2 DEF SkeletonStates
<1>4. up[row] = None \/ up[row] \in 1..n
  BY <1>1 DEF Climbs, None
<1>5. cs \in [1..n -> Int]
  BY <1>3, <1>4
<1>6. t = [counts |-> cs, neighbors |-> nb, leafs |-> s.leafs, sets |-> s.sets]
  <2>1. CASE up[row] = None
    <3>1. t = [s EXCEPT !.neighbors[row] = k] /\ cs = s.counts
      BY <2>1 DEF Started
    <3> HIDE DEF t, row, cs
    <3> QED
      BY <1>3, <3>1
  <2>2. CASE up[row] # None
    <3>1. t = [[s EXCEPT !.counts[up[row]] = @ - 1] EXCEPT !.neighbors[row] = k]
          /\ cs = [s.counts EXCEPT ![up[row]] = @ - 1]
      BY <2>2 DEF Started
    <3> HIDE DEF t, row, cs
    <3> QED
      BY <1>3, <3>1
  <2> QED
    BY <2>1, <2>2
<1> HIDE DEF t
<1>7. /\ t.counts = cs /\ t.neighbors = nb /\ t.leafs = s.leafs /\ t.sets = s.sets
  BY <1>6
<1>8. t \in SkeletonStates(n)
  <2>1. nb \in [1..n -> 0..n]
    <3>1. k \in 0..n
      OBVIOUS
    <3> QED
      BY <1>3, <3>1
  <2> HIDE DEF nb, cs
  <2> QED
    BY <1>3, <1>5, <1>6, <2>1 DEF SkeletonStates
<1>9. SeenFit(nb, s.leafs, G, q, line, n, k)
  <2>1. \A a, b \in 1..n : q[a] = q[b] => a = b
    BY WholePostorder
  <2>2. \A l \in 1..n : q[l] \in 1..n
    BY WholePostorder
  <2>3. \A p \in (k + 1)..n : nb[q[p]] = s.neighbors[q[p]] /\ p \in k..n
    BY SMTT(30), <1>3, <2>1, <2>2
  <2> HIDE DEF nb
  <2>4. /\ G \in [1..n -> SUBSET (1..n)]
        /\ \A i \in 1..n : \A r \in G[i] : i \in line[r]
    BY <1>2 DEF SeenFit
  <2>5. \A i \in 1..n : \A r \in G[i] : \E l \in 1..k : q[l] = r
    <3> TAKE i \in 1..n
    <3> TAKE r \in G[i]
    <3>1. PICK l \in 1..(k - 1) : q[l] = r
      BY <1>2 DEF SeenFit
    <3>2. l \in 1..k
      OBVIOUS
    <3> QED
      BY <3>1, <3>2
  <2>6. ASSUME NEW p \in (k + 1)..n
        PROVE  /\ G[q[p]] = {} => nb[q[p]] = None /\ s.leafs[q[p]] = None
               /\ G[q[p]] # {} =>
                      /\ nb[q[p]] \in 1..k /\ s.leafs[q[p]] \in G[q[p]]
                      /\ q[nb[q[p]]] \in G[q[p]]
                      /\ q[nb[q[p]]] \in line[s.leafs[q[p]]]
                      /\ \A l \in 1..n : q[l] \in G[q[p]] => l <= nb[q[p]]
    <3>1. p \in ((k - 1) + 1)..n
      OBVIOUS
    <3>2. /\ G[q[p]] = {} => s.neighbors[q[p]] = None /\ s.leafs[q[p]] = None
          /\ G[q[p]] # {} =>
                 /\ s.neighbors[q[p]] \in 1..(k - 1) /\ s.leafs[q[p]] \in G[q[p]]
                 /\ q[s.neighbors[q[p]]] \in G[q[p]]
                 /\ q[s.neighbors[q[p]]] \in line[s.leafs[q[p]]]
                 /\ \A l \in 1..n : q[l] \in G[q[p]] => l <= s.neighbors[q[p]]
      BY <1>2, <3>1 DEF SeenFit
    <3>3. nb[q[p]] = s.neighbors[q[p]]
      BY <2>3
    <3>4. \A l \in 1..(k - 1) : l \in 1..k
      OBVIOUS
    <3> QED
      BY <3>2, <3>3, <3>4
  <2> QED
    BY <2>4, <2>5, <2>6 DEF SeenFit
<1>10. CountsFit(cs, G, new, leaves, up, line, n)
  <2>1. /\ leaves \in [1..n -> Int] /\ P \in SUBSET (1..n)
        /\ \A j \in 1..n : SumOver(s.counts, Subtree(line, n, j))
               = SumOver(leaves, Subtree(line, n, j))
                     + Cardinality(Covered(G, line, n, j))
                     - Cardinality(Moved(P, up, line, j))
    BY <1>2 DEF CountsFit
  <2> SUFFICES ASSUME NEW j \in 1..n
               PROVE  SumOver(cs, Subtree(line, n, j))
                          = SumOver(leaves, Subtree(line, n, j))
                                + Cardinality(Covered(G, line, n, j))
                                - Cardinality(Moved(new, up, line, j))
    BY <1>1, <1>5, <2>1 DEF CountsFit
  <2> DEFINE A == SumOver(s.counts, Subtree(line, n, j))
             B == SumOver(cs, Subtree(line, n, j))
             C == Cardinality(Covered(G, line, n, j))
             L == SumOver(leaves, Subtree(line, n, j))
             V == Cardinality(Moved(P, up, line, j))
             W == Cardinality(Moved(new, up, line, j))
  <2>2. /\ V \in Nat
        /\ IF up[row] # None /\ j \in line[up[row]]
           THEN W = V + 1
           ELSE Moved(new, up, line, j) = Moved(P, up, line, j)
    <3>1. Adds(new, P, row)
      BY DEF Adds
    <3>2. P \in SUBSET (1..n) /\ row \in 1..n
      BY <1>1, <2>1
    <3> HIDE DEF row, new
    <3>3. V \in Nat
      BY <3>1, <3>2, MovedGrow
    <3>4. CASE up[row] # None /\ j \in line[up[row]]
      <4>1. W = V + 1
        BY <3>1, <3>2, <3>4, MovedGrow
      <4> QED
        BY <3>3, <3>4, <4>1
    <3>5. CASE ~(up[row] # None /\ j \in line[up[row]])
      <4>1. Moved(new, up, line, j) = Moved(P, up, line, j)
        BY <3>1, <3>5 DEF Moved, Adds
      <4> QED
        BY <3>3, <3>5, <4>1
    <3> QED
      BY <3>4, <3>5
  <2>3. L \in Int /\ A \in Int
    BY <1>3, <2>1, SubtreeSums
  <2>4. C \in Nat
    <3>1. IsFiniteSet(1..n) /\ Covered(G, line, n, j) \subseteq 1..n
      BY FS_Interval DEF Covered
    <3> QED
      BY <3>1, FS_Subset, FS_CardinalityType
  <2>5. A = L + C - V
    BY <2>1
  <2>6. CASE up[row] = None
    <3>1. cs = s.counts /\ W = V
      BY <2>2, <2>6
    <3> QED
      BY <2>5, <3>1
  <2>7. CASE up[row] # None
    <3> DEFINE e == -1
               x == up[row]
    <3>1. x \in 1..n /\ e \in Int
      BY <1>4, <2>7
    <3>2. IsChange(cs, s.counts, n, x, e)
      BY <1>3, <1>5, <2>7, <3>1 DEF IsChange
    <3>3. Subtree(line, n, j) \in SUBSET (1..n)
          /\ (x \in Subtree(line, n, j) <=> j \in line[x])
      BY <3>1 DEF Subtree
    <3> HIDE DEF x, e, cs
    <3>4. CASE j \in line[x]
      <4>1. B = A + e
        BY <3>1, <3>2, <3>3, <3>4, SumChanges
      <4>2. W = V + 1
        BY <2>2, <2>7, <3>4 DEF x
      <4> HIDE DEF A, B, C, L, V, W
      <4>3. B = L + C - W
        BY <2>2, <2>3, <2>4, <2>5, <4>1, <4>2 DEF e
      <4> QED
        BY <4>3 DEF B, C, L, W
    <3>5. CASE j \notin line[x]
      <4>1. x \notin Subtree(line, n, j)
        BY <3>3, <3>5
      <4>2. B = A
        BY <3>1, <3>2, <3>3, <4>1, SumKeeps
      <4>3. W = V
        BY <2>2, <3>5 DEF x
      <4> QED
        BY <2>5, <4>2, <4>3
    <3> QED
      BY <3>4, <3>5
  <2> QED
    BY <2>6, <2>7
<1>11. SkeletonFits(t, G, M, new, leaves, up, line, q, n, k)
  BY <1>2, <1>7, <1>8, <1>9, <1>10 DEF SkeletonFits
<1> QED
  BY <1>11 DEF t

\* When its entries are done, a row is merged into its parent.
Ended(s, up, row) ==
    IF up[row] = None THEN s ELSE [s EXCEPT !.sets[row] = up[row]]
LEMMA RowEnds ==
    ASSUME NEW n \in Nat, NEW up, Climbs(up, n), NEW line, AreLines(line, up, n),
           NEW q, IsWholePostorder(q, line, n), NEW k \in 1..n,
           NEW M, AreMerged(M, q, up, n, k), NEW s, NEW G, NEW P, NEW leaves,
           SkeletonFits(s, G, M, P, leaves, up, line, q, n, k)
    PROVE  \E N : /\ AreMerged(N, q, up, n, k + 1)
                  /\ SkeletonFits(Ended(s, up, q[k]), G, N, P, leaves,
                                  up, line, q, n, k)
<1> DEFINE row == q[k]
           N == IF up[row] = None THEN M ELSE M \cup {row}
           t == Ended(s, up, row)
<1>1. row \in 1..n
  BY WholePostorder
<1>2. \A a, b \in 1..n : q[a] = q[b] => a = b
  BY WholePostorder
<1>3. AreMerged(N, q, up, n, k + 1)
  <2> SUFFICES ASSUME NEW l \in 1..n
               PROVE  q[l] \in N <=> l < k + 1 /\ up[q[l]] # None
    BY DEF AreMerged
  <2>1. q[l] \in M <=> l < k /\ up[q[l]] # None
    BY DEF AreMerged
  <2>2. CASE l = k
    BY <2>1, <2>2
  <2>3. CASE l # k
    <3>1. q[l] # row
      BY <1>2, <2>3
    <3> QED
      BY <2>1, <2>3, <3>1
  <2> QED
    BY <2>2, <2>3
<1>4. /\ s \in SkeletonStates(n) /\ SetsFit(s.sets, line, M, n)
      /\ SeenFit(s.neighbors, s.leafs, G, q, line, n, k)
      /\ CountsFit(s.counts, G, P, leaves, up, line, n)
  BY DEF SkeletonFits
<1>5. CASE up[row] = None
  BY <1>3, <1>5 DEF Ended
<1>6. CASE up[row] # None
  <2> DEFINE sets == [s.sets EXCEPT ![row] = up[row]]
  <2>1. SetsFit(sets, line, N, n)
    <3>1. SetsFit([s.sets EXCEPT ![row] = up[row]], line, M \cup {row}, n)
      BY <1>1, <1>4, <1>6, MergedFits
    <3> QED
      BY <1>6, <3>1
  <2>2. sets \in [1..n -> 1..n]
    BY <2>1 DEF SetsFit
  <2>3. s = [counts |-> s.counts, neighbors |-> s.neighbors,
             leafs |-> s.leafs, sets |-> s.sets]
    BY <1>4 DEF SkeletonStates
  <2>4. t = [counts |-> s.counts, neighbors |-> s.neighbors,
             leafs |-> s.leafs, sets |-> sets]
    BY <1>6, <2>3 DEF Ended
  <2> HIDE DEF t, sets, N
  <2>5. /\ t.counts = s.counts /\ t.neighbors = s.neighbors
        /\ t.leafs = s.leafs /\ t.sets = sets
    BY <2>4
  <2>6. t \in SkeletonStates(n)
    BY <1>4, <2>2, <2>4 DEF SkeletonStates
  <2>7. SkeletonFits(t, G, N, P, leaves, up, line, q, n, k)
    BY <1>4, <2>1, <2>5, <2>6 DEF SkeletonFits
  <2> QED
    BY <1>3, <2>7 DEF t
<1> QED
  BY <1>5, <1>6

-----------------------------------------------------------------------------
(***************************************************************************)
(* The loops over the entries of a row, and over the rows.                 *)
(***************************************************************************)
MarkedStates(line, M, n) == {s \in SkeletonStates(n) : SetsFit(s.sets, line, M, n)}
LEMMA EntryIsMarked ==
    ASSUME NEW n \in Nat, NEW up, NEW line, AreLines(line, up, n),
           NEW M, HaveParents(M, up, n), NEW s \in MarkedStates(line, M, n),
           NEW firsts, NEW k \in 1..n, NEW row \in 1..n, NEW c \in 1..n
    PROVE  SkeletonEntry(s, firsts, k, row, c) \in MarkedStates(line, M, n)
<1> DEFINE t == SkeletonEntry(s, firsts, k, row, c)
<1>1. s \in SkeletonStates(n) /\ SetsFit(s.sets, line, M, n)
  BY DEF MarkedStates
<1>2. s.neighbors \in [1..n -> 0..n] /\ s.leafs \in [1..n -> 0..n]
  BY <1>1 DEF SkeletonStates
<1>3. IsEntry(t, s, firsts, k, row, c, n)
  BY <1>1, EntryOfSkeleton
<1> HIDE DEF t
<1>4. SetsFit(t.sets, line, M, n)
  <2>1. t.sets = IF IsLeafRow(s, firsts, row, c) /\ s.leafs[c] # None
                 THEN Compressed(s.sets, s.leafs[c]) ELSE s.sets
    BY <1>3 DEF IsEntry
  <2>2. ASSUME s.leafs[c] # None
        PROVE  SetsFit(Compressed(s.sets, s.leafs[c]), line, M, n)
    <3>1. s.leafs[c] \in 1..n
      BY <1>2, <2>2 DEF None
    <3> QED
      BY <1>1, <3>1, CompressedFits
  <2> QED
    BY <1>1, <2>1, <2>2
<1>5. t \in SkeletonStates(n)
  <2>1. /\ t = [counts |-> t.counts, neighbors |-> t.neighbors,
                leafs |-> t.leafs, sets |-> t.sets]
        /\ t.neighbors = [s.neighbors EXCEPT ![c] = k]
        /\ t.leafs = [s.leafs EXCEPT ![c] =
                         LeafAfter(firsts, s.neighbors, s.leafs, row, c)]
        /\ t.counts \in [1..n -> Int]
    BY <1>3 DEF IsEntry
  <2>2. LeafAfter(firsts, s.neighbors, s.leafs, row, c) \in 0..n /\ k \in 0..n
    BY <1>2 DEF LeafAfter
  <2>3. t.neighbors \in [1..n -> 0..n] /\ t.leafs \in [1..n -> 0..n]
    BY <1>2, <2>1, <2>2
  <2>4. t.sets \in [1..n -> 1..n]
    BY <1>4 DEF SetsFit
  <2> QED
    BY <2>1, <2>3, <2>4 DEF SkeletonStates
<1>6. t \in MarkedStates(line, M, n)
  BY <1>4, <1>5 DEF MarkedStates
<1> QED
  BY <1>6 DEF t

RowLeaves(s, firsts, k, row, columns) ==
    Through(columns, s, LAMBDA t, column :
        SkeletonEntry(t, firsts, k, row, column))
IsRowLoop(g, s, firsts, k, row, columns, line, M, n) ==
    /\ g[0] = s /\ Len(columns) \in Nat
    /\ \A l \in 1..Len(columns) :
           /\ g[l] = SkeletonEntry(g[l - 1], firsts, k, row, columns[l])
           /\ columns[l] \in 1..n
    /\ RowLeaves(s, firsts, k, row, columns) = g[Len(columns)]
    /\ g[Len(columns)] \in MarkedStates(line, M, n)
LEMMA RowLoop ==
    ASSUME NEW n \in Nat, NEW up, NEW line, AreLines(line, up, n),
           NEW M, HaveParents(M, up, n), NEW start \in MarkedStates(line, M, n),
           NEW firsts, NEW post \in 1..n, NEW row \in 1..n, NEW columns \in Seq(1..n)
    PROVE  \E g : IsRowLoop(g, start, firsts, post, row, columns, line, M, n)
<1> DEFINE E == 1..n
           V == MarkedStates(line, M, n)
           s == columns
           first == start
           next(x, e) == SkeletonEntry(x, firsts, post, row, e)
<1>1. s \in Seq(E)
  OBVIOUS
<1>2. first \in V
  OBVIOUS
<1>3. \A x \in V, e \in E : next(x, e) \in V
  BY EntryIsMarked
<1>4. RowLeaves(start, firsts, post, row, columns)
          = Through(s, first, LAMBDA x, e : next(x, e))
  BY DEF RowLeaves, Through
<1> DEFINE step == [xe \in V \X E |-> next(xe[1], xe[2])]
           Body(h) == [k \in 0..Len(s) |-> IF k = 0 THEN first
                                           ELSE next(h[k - 1], s[k])]
           g == CHOOSE h : h = Body(h)
<1> HIDE DEF E, V, s, first, next
<1>5. \A x \in V, e \in E :
          <<x, e>> \in V \X E /\ step[<<x, e>>] = next(x, e)
  OBVIOUS
<1>6. IsStep(step, V, E)
  <2>1. \A xe \in V \X E : next(xe[1], xe[2]) \in V
    BY <1>3
  <2> QED
    BY <2>1 DEF IsStep
<1> HIDE DEF step
<1>7. g = Body(g)
  <2>1. PICK f \in [0..Len(s) -> V] : IsLoop(f, s, first, step)
    BY <1>1, <1>2, <1>6, LoopExists
  <2>2. \A k \in 0..Len(s) : k # 0 => f[k - 1] \in V /\ s[k] \in E
    <3>1. Len(s) \in Nat /\ \A k \in 1..Len(s) : s[k] \in E
      BY <1>1
    <3>2. \A k \in 0..Len(s) : k # 0 => k \in 1..Len(s) /\ k - 1 \in 0..Len(s)
      BY <3>1
    <3> QED
      BY <3>1, <3>2
  <2>3. \A k \in 0..Len(s) :
            (IF k = 0 THEN first ELSE step[<<f[k - 1], s[k]>>])
                = (IF k = 0 THEN first ELSE next(f[k - 1], s[k]))
    BY <1>5, <2>2
  <2>4. f = Body(f)
    BY <2>1, <2>3 DEF IsLoop
  <2> QED
    BY <2>4
<1>8. Through(s, first, LAMBDA x, e : next(x, e)) = g[Len(s)]
  BY DEF Through
<1> HIDE DEF g
<1>9. /\ g[0] = first /\ Len(s) \in Nat
      /\ \A k \in 1..Len(s) : g[k] = next(g[k - 1], s[k]) /\ s[k] \in E
  <2>1. \A k \in 1..Len(s) : s[k] \in E /\ k \in 0..Len(s) /\ k # 0
    BY <1>1
  <2>2. 0 \in 0..Len(s) /\ Len(s) \in Nat
    BY <1>1
  <2> HIDE DEF Body
  <2>3. \A k \in 0..Len(s) : Body(g)[k] = IF k = 0 THEN first
                                        ELSE next(g[k - 1], s[k])
    BY DEF Body
  <2> QED
    BY <1>7, <2>1, <2>2, <2>3
<1>10. \A k \in 0..Len(s) : g[k] \in V
  <2> DEFINE S == {k \in 0..Len(s) : g[k] \in V}
  <2>1. 0 \in S
    BY <1>2, <1>9
  <2>2. ASSUME NEW k \in 1..Len(s), k - 1 \in S PROVE k \in S
    <3>1. g[k] = next(g[k - 1], s[k]) /\ s[k] \in E /\ g[k - 1] \in V
      BY <1>9, <2>2
    <3>2. next(g[k - 1], s[k]) \in V
      BY <1>3, <3>1
    <3>3. k \in 0..Len(s) /\ g[k] \in V
      BY <1>9, <3>1, <3>2
    <3> QED
      BY <3>3
  <2>3. 0..Len(s) \subseteq S
    <3> HIDE DEF S
    <3> QED
      BY <1>9, <2>1, <2>2, CountsUp
  <2> QED
    BY <2>3
<1>11. g \in [0..Len(s) -> V]
  BY <1>7, <1>10
<1>12. g[Len(s)] \in V
  BY <1>9, <1>11
<1>13. IsRowLoop(g, start, firsts, post, row, columns, line, M, n)
  BY <1>4, <1>8, <1>9, <1>12 DEF IsRowLoop, E, V, s, first, next
<1> QED
  BY <1>13

\* The columns that got a row, and those that are ahead of it.
IsGiven(H, G, n, row, C) ==
    /\ H \in [1..n -> SUBSET (1..n)]
    /\ \A i \in 1..n : i \in C => H[i] = G[i] \cup {row}
    /\ \A i \in 1..n : i \notin C => H[i] = G[i]
AreAhead(C, q, line, n, k) ==
    \A c \in C : \E p \in (k + 1)..n : q[p] = c /\ c \in line[q[k]]
IsGivenRow(t, G, M, P, leaves, up, line, q, n, k, C) ==
    \E H : /\ SkeletonFits(t, H, M, P, leaves, up, line, q, n, k)
           /\ IsGiven(H, G, n, q[k], C)
LEMMA RowIsCounted ==
    ASSUME NEW n \in Nat, NEW up, NEW line, AreLines(line, up, n),
           NEW q, IsWholePostorder(q, line, n), NEW k \in 1..n,
           NEW M, AreMerged(M, q, up, n, k), NEW s, NEW G, NEW P, NEW leaves,
           SkeletonFits(s, G, M, P, leaves, up, line, q, n, k),
           NEW firsts, IsFirst(firsts, q, line, n),
           NEW columns \in Seq(1..n), AreAhead(Range(columns), q, line, n, k)
    PROVE  IsGivenRow(RowLeaves(s, firsts, k, q[k], columns),
                      G, M, P, leaves, up, line, q, n, k, Range(columns))
<1> DEFINE row == q[k]
           len == Len(columns)
<1>1. row \in 1..n
  BY WholePostorder
<1>2. HaveParents(M, up, n)
  BY MergedHaveParents
<1>3. s \in MarkedStates(line, M, n) /\ G \in [1..n -> SUBSET (1..n)]
  BY DEF SkeletonFits, SeenFit, MarkedStates
<1>4. PICK g : IsRowLoop(g, s, firsts, k, row, columns, line, M, n)
  BY <1>1, <1>2, <1>3, RowLoop
<1>5. /\ g[0] = s /\ len \in Nat
      /\ \A l \in 1..len :
             /\ g[l] = SkeletonEntry(g[l - 1], firsts, k, row, columns[l])
             /\ columns[l] \in 1..n
      /\ RowLeaves(s, firsts, k, row, columns) = g[len]
  BY <1>4 DEF IsRowLoop
<1>6. Range(columns) = {columns[l] : l \in 1..len}
  BY DEF Range
<1> DEFINE C(l) == {columns[i] : i \in 1..l}
           Fits(l) == IsGivenRow(g[l], G, M, P, leaves, up, line, q, n, k, C(l))
           S == {l \in 0..len : Fits(l)}
<1>7. 0 \in S
  <2>1. C(0) = {}
    OBVIOUS
  <2>2. IsGiven(G, G, n, row, C(0))
    BY <1>3, <2>1 DEF IsGiven
  <2> HIDE DEF C
  <2>3. Fits(0)
    BY <1>5, <2>2 DEF IsGivenRow
  <2> QED
    BY <1>5, <2>3
<1>8. ASSUME NEW l \in 1..len, l - 1 \in S PROVE l \in S
  <2> DEFINE c == columns[l]
  <2>1. PICK H : /\ SkeletonFits(g[l - 1], H, M, P, leaves, up, line, q, n, k)
                 /\ IsGiven(H, G, n, row, C(l - 1))
    <3>1. Fits(l - 1)
      BY <1>8
    <3> HIDE DEF C
    <3> QED
      BY <3>1 DEF IsGivenRow
  <2>2. c \in Range(columns) /\ c \in 1..n
    BY <1>5, <1>6
  <2>3. PICK p \in (k + 1)..n : q[p] = c /\ c \in line[q[k]]
    BY <2>2 DEF AreAhead
  <2> DEFINE new == [H EXCEPT ![c] = @ \cup {row}]
  <2>4. H \in [1..n -> SUBSET (1..n)]
    BY <2>1 DEF IsGiven
  <2>5. Gains(new, H, n, c, row)
    BY <2>4 DEF Gains
  <2>6. SkeletonFits(SkeletonEntry(g[l - 1], firsts, k, q[k], q[p]), new,
                     M, P, leaves, up, line, q, n, k)
    <3>1. Gains(new, H, n, q[p], q[k]) /\ q[p] \in line[q[k]]
      BY <2>3, <2>5
    <3> HIDE DEF new
    <3> QED
      BY <2>1, <3>1, EntryFits
  <2>7. SkeletonFits(g[l], new, M, P, leaves, up, line, q, n, k)
    BY <1>5, <2>3, <2>6
  <2>8. \A i : i \in C(l) <=> i \in C(l - 1) \/ i = c
    BY <1>5
  <2>9. IsGiven(new, G, n, row, C(l))
    <3> DEFINE Old == C(l - 1)
               New == C(l)
    <3>1. /\ \A i \in 1..n : i \in Old => H[i] = G[i] \cup {row}
          /\ \A i \in 1..n : i \notin Old => H[i] = G[i]
      BY <2>1 DEF IsGiven
    <3>2. \A i : i \in New <=> i \in Old \/ i = c
      BY <2>8
    <3>3. /\ new \in [1..n -> SUBSET (1..n)] /\ new[c] = H[c] \cup {row}
          /\ \A i \in 1..n : i # c => new[i] = H[i]
      BY <1>1, <2>2, <2>4
    <3> HIDE DEF Old, New, new, c, row, C
    <3>4. ASSUME NEW i \in 1..n
          PROVE  /\ i \in New => new[i] = G[i] \cup {row}
                 /\ i \notin New => new[i] = G[i]
      <4>1. CASE i = c
        <5>1. new[i] = G[i] \cup {row}
          <6>1. CASE i \in Old
            BY <2>2, <3>1, <3>3, <4>1, <6>1
          <6>2. CASE i \notin Old
            BY <2>2, <3>1, <3>3, <4>1, <6>2
          <6> QED
            BY <6>1, <6>2
        <5> QED
          BY <3>2, <4>1, <5>1
      <4>2. CASE i # c
        BY <3>1, <3>2, <3>3, <4>2
      <4> QED
        BY <4>1, <4>2
    <3>5. IsGiven(new, G, n, row, New)
      BY <3>3, <3>4 DEF IsGiven
    <3> QED
      BY <3>5 DEF New
  <2>10. Fits(l)
    <3> HIDE DEF C, new
    <3> QED
      BY <2>7, <2>9 DEF IsGivenRow
  <2> QED
    BY <2>10
<1>9. len \in S
  <2> HIDE DEF S
  <2>1. 0..len \subseteq S
    BY <1>5, <1>7, <1>8, CountsUp
  <2> QED
    BY <1>5, <2>1
<1>10. Fits(len)
  BY <1>9
<1>11. C(len) = Range(columns)
  BY <1>6
<1> HIDE DEF C
<1> QED
  BY <1>5, <1>10, <1>11

-----------------------------------------------------------------------------
(***************************************************************************)
(* The skeleton, row by row.                                               *)
(***************************************************************************)
LEMMA SkeletonRowParts ==
    ASSUME NEW m, NEW o, NEW up, NEW firsts, NEW s, NEW k, NEW row
    PROVE  SkeletonRow(m, o, up, firsts, s, k, row)
               = Ended(RowLeaves(Started(s, up, row, k), firsts, k, row,
                                 UpperColumns(m, o, row)), up, row)
BY DEF SkeletonRow, Started, RowLeaves, Ended, Through

\* The columns of the rows are those of the matrix.
HasUppers(m, o, own, n) ==
    \A row \in 1..n :
        /\ UpperColumns(m, o, row) \in Seq(1..n)
        /\ \A c : c \in Range(UpperColumns(m, o, row)) <=> c \in own[row]
OwnIsAbove(own, line, n) ==
    \A r \in 1..n : \A c \in own[r] : c \in line[r] /\ c # r /\ c \in 1..n
IsSeen(G, own, q, n, k) ==
    /\ G \in [1..n -> SUBSET (1..n)]
    /\ \A i, r \in 1..n :
           r \in G[i] <=> i \in own[r] /\ \E l \in 1..k : q[l] = r
SkeletonSoFar(s, own, leaves, up, line, q, n, k) ==
    \E G, M : /\ SkeletonFits(s, G, M, {q[l] : l \in 1..k}, leaves,
                              up, line, q, n, k)
              /\ AreMerged(M, q, up, n, k + 1) /\ IsSeen(G, own, q, n, k)

LEMMA UppersAreAhead ==
    ASSUME NEW n \in Nat, NEW line, NEW q, IsWholePostorder(q, line, n),
           NEW own, OwnIsAbove(own, line, n), NEW k \in 1..n,
           NEW C, C \subseteq own[q[k]]
    PROVE  AreAhead(C, q, line, n, k)
<1> SUFFICES ASSUME NEW c \in C
             PROVE  \E p \in (k + 1)..n : q[p] = c /\ c \in line[q[k]]
  BY DEF AreAhead
<1>1. q[k] \in 1..n
  BY WholePostorder
<1>2. c \in line[q[k]] /\ c # q[k] /\ c \in 1..n
  BY <1>1 DEF OwnIsAbove
<1>3. PICK p \in 1..n : q[p] = c
  BY <1>2, WholePostorder
<1>4. \A a, b \in 1..n : q[a] \in line[q[b]] => b <= a
  BY WholePostorder
<1>5. k <= p /\ p # k
  BY <1>2, <1>3, <1>4
<1>6. p \in (k + 1)..n
  BY <1>5
<1> QED
  BY <1>2, <1>3, <1>6

LEMMA GivenAreSeen ==
    ASSUME NEW n \in Nat, NEW line, NEW q, IsWholePostorder(q, line, n),
           NEW own, OwnIsAbove(own, line, n), NEW k \in 1..n,
           NEW G, IsSeen(G, own, q, n, k - 1), NEW C,
           \A c : c \in C <=> c \in own[q[k]],
           NEW H, IsGiven(H, G, n, q[k], C)
    PROVE  IsSeen(H, own, q, n, k)
<1>1. q[k] \in 1..n
  BY WholePostorder
<1>2. H \in [1..n -> SUBSET (1..n)]
  BY DEF IsGiven
<1> SUFFICES ASSUME NEW i \in 1..n, NEW r \in 1..n
             PROVE  r \in H[i] <=> i \in own[r] /\ \E l \in 1..k : q[l] = r
  BY <1>2 DEF IsSeen
<1>3. r \in G[i] <=> i \in own[r] /\ \E l \in 1..(k - 1) : q[l] = r
  BY DEF IsSeen
<1>4. i \in own[q[k]] => H[i] = G[i] \cup {q[k]}
  BY DEF IsGiven
<1>5. i \notin own[q[k]] => H[i] = G[i]
  BY DEF IsGiven
<1>6. (\E l \in 1..k : q[l] = r) <=> q[k] = r \/ \E l \in 1..(k - 1) : q[l] = r
  <2>1. \A l \in 1..k : l = k \/ l \in 1..(k - 1)
    OBVIOUS
  <2>2. \A l \in 1..(k - 1) : l \in 1..k
    OBVIOUS
  <2>3. k \in 1..k
    OBVIOUS
  <2> QED
    BY <2>1, <2>2, <2>3
<1>7. CASE r = q[k]
  BY <1>3, <1>4, <1>5, <1>6, <1>7
<1>8. CASE r # q[k]
  <2>1. r \in H[i] <=> r \in G[i]
    BY <1>4, <1>5, <1>8
  <2> QED
    BY <1>3, <1>6, <1>8, <2>1
<1> QED
  BY <1>7, <1>8

LEMMA SkeletonRowFits ==
    ASSUME NEW n \in Nat, NEW up, Climbs(up, n), NEW line, AreLines(line, up, n),
           NEW q, IsWholePostorder(q, line, n), NEW k \in 1..n,
           NEW own, OwnIsAbove(own, line, n), NEW m, NEW o,
           HasUppers(m, o, own, n), NEW leaves,
           NEW firsts, IsFirst(firsts, q, line, n), NEW s,
           SkeletonSoFar(s, own, leaves, up, line, q, n, k - 1)
    PROVE  SkeletonSoFar(SkeletonRow(m, o, up, firsts, s, k, q[k]),
                         own, leaves, up, line, q, n, k)
<1> DEFINE row == q[k]
           P == {q[l] : l \in 1..(k - 1)}
           Q == {q[l] : l \in 1..k}
           columns == UpperColumns(m, o, row)
           t == Started(s, up, row, k)
           u == RowLeaves(t, firsts, k, row, columns)
<1>1. row \in 1..n
  BY WholePostorder
<1>2. PICK G, M : /\ SkeletonFits(s, G, M, P, leaves, up, line, q, n, k - 1)
                  /\ AreMerged(M, q, up, n, (k - 1) + 1)
                  /\ IsSeen(G, own, q, n, k - 1)
  BY DEF SkeletonSoFar
<1>3. AreMerged(M, q, up, n, k)
  <2>1. (k - 1) + 1 = k
    OBVIOUS
  <2> QED
    BY <1>2, <2>1
<1>4. row \notin P /\ Q = P \cup {row}
  <2>1. \A a, b \in 1..n : q[a] = q[b] => a = b
    BY WholePostorder
  <2>2. \A l \in 1..k : l = k \/ l \in 1..(k - 1)
    OBVIOUS
  <2>3. \A l \in 1..(k - 1) : l \in 1..k /\ l \in 1..n /\ l # k
    OBVIOUS
  <2>4. k \in 1..k
    OBVIOUS
  <2>5. row \notin P
    BY <2>1, <2>3
  <2> QED
    BY <2>2, <2>3, <2>4, <2>5
<1> HIDE DEF P, Q
<1>5. SkeletonFits(t, G, M, Q, leaves, up, line, q, n, k)
  <2>1. SkeletonFits(t, G, M, P \cup {q[k]}, leaves, up, line, q, n, k)
    BY <1>2, <1>4, RowStarts
  <2> QED
    BY <1>4, <2>1
<1>6. /\ columns \in Seq(1..n)
      /\ \A c : c \in Range(columns) <=> c \in own[row]
  BY <1>1 DEF HasUppers
<1> HIDE DEF columns, t
<1>7. AreAhead(Range(columns), q, line, n, k)
  BY <1>6, UppersAreAhead
<1>8. IsGivenRow(u, G, M, Q, leaves, up, line, q, n, k, Range(columns))
  BY <1>3, <1>5, <1>6, <1>7, RowIsCounted
<1> HIDE DEF u
<1>9. PICK H : /\ SkeletonFits(u, H, M, Q, leaves, up, line, q, n, k)
               /\ IsGiven(H, G, n, row, Range(columns))
  BY <1>8 DEF IsGivenRow
<1>10. IsSeen(H, own, q, n, k)
  BY <1>2, <1>6, <1>9, GivenAreSeen
<1>11. PICK N : /\ AreMerged(N, q, up, n, k + 1)
                /\ SkeletonFits(Ended(u, up, q[k]), H, N, Q, leaves,
                                up, line, q, n, k)
  BY <1>3, <1>9, RowEnds
<1>12. SkeletonSoFar(Ended(u, up, row), own, leaves, up, line, q, n, k)
  BY <1>10, <1>11 DEF SkeletonSoFar, Q
<1> QED
  BY <1>12, SkeletonRowParts DEF u, t, columns

\* The states of the skeleton in which the sets lead up.
LedStates(line, up, n) ==
    {s \in SkeletonStates(n) :
        \E M : HaveParents(M, up, n) /\ SetsFit(s.sets, line, M, n)}
LEMMA SkeletonRowLeads ==
    ASSUME NEW n \in Nat, NEW up, Climbs(up, n), NEW line, AreLines(line, up, n),
           NEW firsts, NEW s \in LedStates(line, up, n),
           NEW post \in 1..n, NEW row \in 1..n, NEW m, NEW o,
           UpperColumns(m, o, row) \in Seq(1..n)
    PROVE  SkeletonRow(m, o, up, firsts, s, post, row) \in LedStates(line, up, n)
<1> DEFINE t == Started(s, up, row, post)
           columns == UpperColumns(m, o, row)
           u == RowLeaves(t, firsts, post, row, columns)
           v == Ended(u, up, row)
<1>1. s \in SkeletonStates(n)
  BY DEF LedStates
<1>2. PICK M : HaveParents(M, up, n) /\ SetsFit(s.sets, line, M, n)
  BY DEF LedStates
<1>3. /\ s.neighbors \in [1..n -> 0..n] /\ s.leafs \in [1..n -> 0..n]
      /\ s.counts \in [1..n -> Int] /\ s.sets \in [1..n -> 1..n]
      /\ s = [counts |-> s.counts, neighbors |-> s.neighbors,
              leafs |-> s.leafs, sets |-> s.sets]
  BY <1>1 DEF SkeletonStates
<1>4. up[row] = None \/ up[row] \in 1..n
  BY DEF Climbs, None
<1>5. t \in MarkedStates(line, M, n)
  <2> DEFINE nb == [s.neighbors EXCEPT ![row] = post]
             cs == IF up[row] = None THEN s.counts
                   ELSE [s.counts EXCEPT ![up[row]] = @ - 1]
  <2>1. t = [counts |-> cs, neighbors |-> nb, leafs |-> s.leafs, sets |-> s.sets]
    <3>1. CASE up[row] = None
      <4>1. t = [s EXCEPT !.neighbors[row] = post] /\ cs = s.counts
        BY <3>1 DEF Started
      <4> HIDE DEF t, cs
      <4> QED
        BY <1>3, <4>1
    <3>2. CASE up[row] # None
      <4>1. t = [[s EXCEPT !.counts[up[row]] = @ - 1]
                    EXCEPT !.neighbors[row] = post]
            /\ cs = [s.counts EXCEPT ![up[row]] = @ - 1]
        BY <3>2 DEF Started
      <4> HIDE DEF t, cs
      <4> QED
        BY <1>3, <4>1
    <3> QED
      BY <3>1, <3>2
  <2>2. nb \in [1..n -> 0..n]
    <3>1. post \in 0..n
      OBVIOUS
    <3> QED
      BY <1>3, <3>1
  <2>3. cs \in [1..n -> Int]
    BY <1>3, <1>4
  <2> HIDE DEF t, nb, cs
  <2>4. t \in SkeletonStates(n) /\ t.sets = s.sets
    BY <1>3, <2>1, <2>2, <2>3 DEF SkeletonStates
  <2> QED
    BY <1>2, <2>4 DEF MarkedStates
<1> HIDE DEF t
<1>6. PICK g : IsRowLoop(g, t, firsts, post, row, columns, line, M, n)
  BY <1>2, <1>5, RowLoop
<1>7. u \in MarkedStates(line, M, n)
  BY <1>6 DEF IsRowLoop
<1> HIDE DEF u
<1>8. u \in SkeletonStates(n) /\ SetsFit(u.sets, line, M, n)
  BY <1>7 DEF MarkedStates
<1>9. v \in LedStates(line, up, n)
  <2>1. CASE up[row] = None
    BY <1>2, <1>8, <2>1 DEF Ended, LedStates
  <2>2. CASE up[row] # None
    <3> DEFINE sets == [u.sets EXCEPT ![row] = up[row]]
    <3>1. SetsFit(sets, line, M \cup {row}, n)
      BY <1>8, <2>2, MergedFits
    <3>2. HaveParents(M \cup {row}, up, n)
      BY <1>2, <2>2 DEF HaveParents
    <3>3. sets \in [1..n -> 1..n]
      BY <3>1 DEF SetsFit
    <3>4. u = [counts |-> u.counts, neighbors |-> u.neighbors,
               leafs |-> u.leafs, sets |-> u.sets]
      BY <1>8 DEF SkeletonStates
    <3>5. v = [counts |-> u.counts, neighbors |-> u.neighbors,
               leafs |-> u.leafs, sets |-> sets]
      BY <2>2, <3>4 DEF Ended
    <3> HIDE DEF v, sets
    <3>6. v \in SkeletonStates(n) /\ v.sets = sets
      BY <1>8, <3>3, <3>5 DEF SkeletonStates
    <3> QED
      BY <3>1, <3>2, <3>6 DEF LedStates
  <2> QED
    BY <2>1, <2>2
<1> QED
  BY <1>9, SkeletonRowParts DEF u, v, t

SkeletonOf(m, o, up, q, first) ==
    Through(Indices(Len(up)),
        [counts |-> first.counts, neighbors |-> Constant(Len(up), None),
         leafs |-> Constant(Len(up), None), sets |-> Indices(Len(up))],
        LAMBDA s, post :
            SkeletonRow(m, o, up, first.firsts, s, post, q[post]))
IsSkeletonLoop(g, m, o, up, q, first, n) ==
    /\ g[0] = [counts |-> first.counts, neighbors |-> [i \in 1..n |-> None],
               leafs |-> [i \in 1..n |-> None], sets |-> [i \in 1..n |-> i]]
    /\ \A k \in 1..n :
           g[k] = SkeletonRow(m, o, up, first.firsts, g[k - 1], k, q[k])
    /\ SkeletonOf(m, o, up, q, first) = g[n]
NothingIsLed(first, n) ==
    [counts |-> first.counts, neighbors |-> [i \in 1..n |-> None],
     leafs |-> [i \in 1..n |-> None], sets |-> [i \in 1..n |-> i]]
LEMMA NothingFits ==
    ASSUME NEW n \in Nat, NEW up, NEW line, AreLines(line, up, n),
           NEW first \in FirstStates(n)
    PROVE  LET s == NothingIsLed(first, n)
           IN  /\ s \in SkeletonStates(n) /\ SetsFit(s.sets, line, {}, n)
               /\ s \in LedStates(line, up, n)
<1> DEFINE s == NothingIsLed(first, n)
           none == [i \in 1..n |-> None]
           id == [i \in 1..n |-> i]
<1>1. none \in [1..n -> 0..n] /\ id \in [1..n -> 1..n] /\ \A i \in 1..n : id[i] = i
  BY DEF None
<1>2. first.counts \in [1..n -> Int]
  BY DEF FirstStates
<1>3. s = [counts |-> first.counts, neighbors |-> none, leafs |-> none, sets |-> id]
  BY DEF NothingIsLed
<1> HIDE DEF s, none, id
<1>4. s \in SkeletonStates(n) /\ s.sets = id
  BY <1>1, <1>2, <1>3 DEF SkeletonStates
<1>5. SetsFit(id, line, {}, n)
  <2>1. \A x \in 1..n : x \in line[x] /\ line[x] \subseteq x..n
    BY LinesClimb
  <2> QED
    BY <1>1, <2>1 DEF SetsFit
<1>6. HaveParents({}, up, n)
  BY DEF HaveParents
<1>7. s \in LedStates(line, up, n)
  BY <1>4, <1>5, <1>6 DEF LedStates
<1> QED
  BY <1>4, <1>5, <1>7 DEF s

LEMMA SkeletonLoop ==
    ASSUME NEW n \in Nat, NEW up, Climbs(up, n), NEW line, AreLines(line, up, n),
           NEW q, PointsInto(q, n), NEW start \in FirstStates(n),
           NEW m, NEW o, NEW own, HasUppers(m, o, own, n)
    PROVE  \E g : IsSkeletonLoop(g, m, o, up, q, start, n)
<1> DEFINE E == 1..n
           V == LedStates(line, up, n)
           s == Indices(n)
           first == [counts |-> start.counts, neighbors |-> Constant(n, None),
                     leafs |-> Constant(n, None), sets |-> Indices(n)]
           next(x, e) == SkeletonRow(m, o, up, start.firsts, x, e, q[e])
<1>1. s \in Seq(E)
  BY IndicesAreTyped
<1>12. first = NothingIsLed(start, n)
  <2>1. Indices(n) = [i \in 1..n |-> i]
    BY DEF Indices
  <2>2. Constant(n, None) = [i \in 1..n |-> None]
    BY ConstantFacts
  <2> QED
    BY <2>1, <2>2 DEF NothingIsLed
<1>2. first \in V
  BY <1>12, NothingFits
<1>3. \A x \in V, e \in E : next(x, e) \in V
  <2> TAKE x \in V, e \in E
  <2>1. q[e] \in 1..n
    BY DEF PointsInto
  <2>2. UpperColumns(m, o, q[e]) \in Seq(1..n)
    BY <2>1 DEF HasUppers
  <2> QED
    BY <2>1, <2>2, SkeletonRowLeads
<1>13. Len(up) = n
  <2>1. up = [i \in 1..n |-> up[i]]
    BY DEF Climbs
  <2> QED
    BY <2>1, WrittenDown
<1>4. SkeletonOf(m, o, up, q, start) = Through(s, first, LAMBDA x, e : next(x, e))
  BY <1>13 DEF SkeletonOf, Through
<1> DEFINE step == [xe \in V \X E |-> next(xe[1], xe[2])]
           Body(h) == [k \in 0..Len(s) |-> IF k = 0 THEN first
                                           ELSE next(h[k - 1], s[k])]
           g == CHOOSE h : h = Body(h)
<1> HIDE DEF E, V, s, first, next
<1>5. \A x \in V, e \in E :
          <<x, e>> \in V \X E /\ step[<<x, e>>] = next(x, e)
  OBVIOUS
<1>6. IsStep(step, V, E)
  <2>1. \A xe \in V \X E : next(xe[1], xe[2]) \in V
    BY <1>3
  <2> QED
    BY <2>1 DEF IsStep
<1> HIDE DEF step
<1>7. g = Body(g)
  <2>1. PICK f \in [0..Len(s) -> V] : IsLoop(f, s, first, step)
    BY <1>1, <1>2, <1>6, LoopExists
  <2>2. \A k \in 0..Len(s) : k # 0 => f[k - 1] \in V /\ s[k] \in E
    <3>1. Len(s) \in Nat /\ \A k \in 1..Len(s) : s[k] \in E
      BY <1>1
    <3>2. \A k \in 0..Len(s) : k # 0 => k \in 1..Len(s) /\ k - 1 \in 0..Len(s)
      BY <3>1
    <3> QED
      BY <3>1, <3>2
  <2>3. \A k \in 0..Len(s) :
            (IF k = 0 THEN first ELSE step[<<f[k - 1], s[k]>>])
                = (IF k = 0 THEN first ELSE next(f[k - 1], s[k]))
    BY <1>5, <2>2
  <2>4. f = Body(f)
    BY <2>1, <2>3 DEF IsLoop
  <2> QED
    BY <2>4
<1>8. Through(s, first, LAMBDA x, e : next(x, e)) = g[Len(s)]
  BY DEF Through
<1> HIDE DEF g
<1>9. /\ g[0] = first /\ Len(s) \in Nat
      /\ \A k \in 1..Len(s) : g[k] = next(g[k - 1], s[k]) /\ s[k] \in E
  <2>1. \A k \in 1..Len(s) : s[k] \in E /\ k \in 0..Len(s) /\ k # 0
    BY <1>1
  <2>2. 0 \in 0..Len(s) /\ Len(s) \in Nat
    BY <1>1
  <2> HIDE DEF Body
  <2>3. \A k \in 0..Len(s) : Body(g)[k] = IF k = 0 THEN first
                                        ELSE next(g[k - 1], s[k])
    BY DEF Body
  <2> QED
    BY <1>7, <2>1, <2>2, <2>3
<1>10. \A k \in 0..Len(s) : g[k] \in V
  <2> DEFINE S == {k \in 0..Len(s) : g[k] \in V}
  <2>1. 0 \in S
    BY <1>2, <1>9
  <2>2. ASSUME NEW k \in 1..Len(s), k - 1 \in S PROVE k \in S
    <3>1. g[k] = next(g[k - 1], s[k]) /\ s[k] \in E /\ g[k - 1] \in V
      BY <1>9, <2>2
    <3>2. next(g[k - 1], s[k]) \in V
      BY <1>3, <3>1
    <3>3. k \in 0..Len(s) /\ g[k] \in V
      BY <1>9, <3>1, <3>2
    <3> QED
      BY <3>3
  <2>3. 0..Len(s) \subseteq S
    <3> HIDE DEF S
    <3> QED
      BY <1>9, <2>1, <2>2, CountsUp
  <2> QED
    BY <2>3
<1>11. g \in [0..Len(s) -> V]
  BY <1>7, <1>10
<1>14. Len(s) = n /\ \A k \in 1..n : s[k] = k
  BY IndicesFacts DEF s
<1>15. g[0] = NothingIsLed(start, n)
  BY <1>9, <1>12
<1>17. \A k \in 1..n : g[k] = SkeletonRow(m, o, up, start.firsts, g[k - 1], k, q[k])
  BY <1>9, <1>14 DEF next
<1>18. SkeletonOf(m, o, up, q, start) = g[n]
  BY <1>4, <1>8, <1>14
<1>19. IsSkeletonLoop(g, m, o, up, q, start, n)
  BY <1>15, <1>17, <1>18 DEF IsSkeletonLoop, NothingIsLed
<1> QED
  BY <1>19

-----------------------------------------------------------------------------
(***************************************************************************)
(* The whole skeleton.                                                     *)
(***************************************************************************)
LEMMA SkeletonStarts ==
    ASSUME NEW n \in Nat, NEW up, NEW line, AreLines(line, up, n),
           NEW q, IsWholePostorder(q, line, n), NEW own,
           NEW first \in FirstStates(n)
    PROVE  SkeletonSoFar(NothingIsLed(first, n), own, first.counts,
                         up, line, q, n, 0)
<1> DEFINE s == NothingIsLed(first, n)
           G == [i \in 1..n |-> {}]
           P == {q[l] : l \in 1..0}
           leaves == first.counts
<1>1. s \in SkeletonStates(n) /\ SetsFit(s.sets, line, {}, n)
  BY NothingFits
<1>2. /\ s.neighbors = [i \in 1..n |-> None] /\ s.leafs = [i \in 1..n |-> None]
      /\ s.counts = leaves
  BY DEF NothingIsLed
<1> HIDE DEF s
<1>3. G \in [1..n -> SUBSET (1..n)] /\ \A i \in 1..n : G[i] = {}
  OBVIOUS
<1>4. P = {}
  OBVIOUS
<1> HIDE DEF G, P
<1>5. \A l \in 1..n : q[l] \in 1..n
  BY WholePostorder
<1>6. SeenFit(s.neighbors, s.leafs, G, q, line, n, 0)
  <2>1. \A p \in (0 + 1)..n : q[p] \in 1..n
    BY <1>5
  <2>2. \A p \in (0 + 1)..n : G[q[p]] = {} /\ s.neighbors[q[p]] = None
                              /\ s.leafs[q[p]] = None
    BY <1>2, <1>3, <2>1
  <2> QED
    BY <1>3, <2>2 DEF SeenFit
<1>7. leaves \in [1..n -> Int]
  BY DEF FirstStates
<1> HIDE DEF leaves
<1>8. CountsFit(leaves, G, P, leaves, up, line, n)
  <2>1. ASSUME NEW j \in 1..n
        PROVE  SumOver(leaves, Subtree(line, n, j))
                   = SumOver(leaves, Subtree(line, n, j))
                         + Cardinality(Covered(G, line, n, j))
                         - Cardinality(Moved(P, up, line, j))
    <3>1. Covered(G, line, n, j) = {}
      BY <1>3 DEF Covered
    <3>2. Moved(P, up, line, j) = {}
      BY <1>4 DEF Moved
    <3>3. Cardinality({}) = 0
      BY FS_EmptySet
    <3>4. SumOver(leaves, Subtree(line, n, j)) \in Int
      BY <1>7, SubtreeSums
    <3> DEFINE A == SumOver(leaves, Subtree(line, n, j))
    <3> HIDE DEF A
    <3>5. A = A + 0 - 0
      BY <3>4 DEF A
    <3> QED
      BY <3>1, <3>2, <3>3, <3>5 DEF A
  <2>2. P \in SUBSET (1..n)
    BY <1>4
  <2> QED
    BY <1>7, <2>1, <2>2 DEF CountsFit
<1>9. SkeletonFits(s, G, {}, P, leaves, up, line, q, n, 0)
  BY <1>1, <1>2, <1>6, <1>8 DEF SkeletonFits
<1>10. AreMerged({}, q, up, n, 0 + 1)
  BY DEF AreMerged
<1>11. IsSeen(G, own, q, n, 0)
  BY <1>3 DEF IsSeen
<1> QED
  BY <1>9, <1>10, <1>11 DEF SkeletonSoFar, s, leaves, P

LEMMA SkeletonEnds ==
    ASSUME NEW n \in Nat, NEW up, Climbs(up, n), NEW line, AreLines(line, up, n),
           NEW q, IsWholePostorder(q, line, n),
           NEW own, OwnIsAbove(own, line, n), NEW m, NEW o,
           HasUppers(m, o, own, n), NEW first \in FirstStates(n),
           IsFirst(first.firsts, q, line, n)
    PROVE  SkeletonSoFar(SkeletonOf(m, o, up, q, first), own, first.counts,
                         up, line, q, n, n)
<1>1. PointsInto(q, n)
  <2>1. \A k \in 1..n : q[k] \in 1..n
    BY WholePostorder
  <2> QED
    BY <2>1 DEF PointsInto, IsWholePostorder
<1>2. PICK g : IsSkeletonLoop(g, m, o, up, q, first, n)
  BY <1>1, SkeletonLoop
<1>3. g[0] = NothingIsLed(first, n)
  BY <1>2 DEF IsSkeletonLoop, NothingIsLed
<1>4. \A k \in 1..n :
          g[k] = SkeletonRow(m, o, up, first.firsts, g[k - 1], k, q[k])
  BY <1>2 DEF IsSkeletonLoop
<1>5. SkeletonOf(m, o, up, q, first) = g[n]
  BY <1>2 DEF IsSkeletonLoop
<1> DEFINE leaves == first.counts
           firsts == first.firsts
           S == {k \in 0..n : SkeletonSoFar(g[k], own, leaves, up, line, q, n, k)}
<1>6. 0 \in S
  <2>1. SkeletonSoFar(g[0], own, leaves, up, line, q, n, 0)
    BY <1>3, SkeletonStarts
  <2> QED
    BY <2>1
<1> HIDE DEF leaves, firsts
<1>7. ASSUME NEW k \in 1..n, k - 1 \in S PROVE k \in S
  <2>1. SkeletonSoFar(g[k - 1], own, leaves, up, line, q, n, k - 1)
    BY <1>7
  <2>2. IsFirst(firsts, q, line, n)
    BY DEF firsts
  <2>3. SkeletonSoFar(SkeletonRow(m, o, up, firsts, g[k - 1], k, q[k]),
                      own, leaves, up, line, q, n, k)
    BY <2>1, <2>2, SkeletonRowFits
  <2>4. SkeletonSoFar(g[k], own, leaves, up, line, q, n, k)
    BY <1>4, <2>3 DEF firsts
  <2> QED
    BY <2>4
<1>8. n \in S
  <2>1. 0..n \subseteq S
    <3> HIDE DEF S
    <3> QED
      BY <1>6, <1>7, CountsUp
  <2> QED
    BY <2>1
<1> QED
  BY <1>5, <1>8 DEF leaves

-----------------------------------------------------------------------------
(***************************************************************************)
(* What the counts of the skeleton add up to.                              *)
(***************************************************************************)
\* What has a child is what a row below it has an entry in.
HaveChildren(up, n) == {i \in 1..n : \E c \in 1..n : up[c] = i}

LEMMA MovedAreBelow ==
    ASSUME NEW n \in Nat, NEW up, NEW line, AreLines(line, up, n), NEW j \in 1..n
    PROVE  Moved(1..n, up, line, j) = Subtree(line, n, j) \ {j}
<1>1. \A d \in 1..n : d \in line[d] /\ line[d] \subseteq d..n
  BY LinesClimb
<1>2. \A d \in 1..n : line[d] = {d} \cup (IF up[d] = None THEN {}
                                          ELSE line[up[d]])
  BY DEF AreLines
<1>3. \A d \in 1..n : up[d] # None => up[d] \in 1..n /\ up[d] > d
  BY DEF AreLines
<1>4. ASSUME NEW d \in 1..n
      PROVE  (up[d] # None /\ j \in line[up[d]]) <=> j \in line[d] /\ d # j
  <2>1. CASE up[d] = None
    BY <1>2, <2>1
  <2>2. CASE up[d] # None
    <3>1. up[d] \in 1..n /\ up[d] > d
      BY <1>3, <2>2
    <3>2. j \in line[up[d]] => j >= up[d]
      BY <1>1, <3>1
    <3>3. line[d] = {d} \cup line[up[d]]
      BY <1>2, <2>2
    <3> QED
      BY <2>2, <3>1, <3>2, <3>3
  <2> QED
    BY <2>1, <2>2
<1> QED
  BY <1>4 DEF Moved, Subtree

LEMMA CoveredAreAbove ==
    ASSUME NEW n \in Nat, NEW F, NEW own, IsFill(F, own, n),
           NEW line, AreLines(line, ForestOf(F, n), n),
           NEW q, IsWholePostorder(q, line, n), NEW G, IsSeen(G, own, q, n, n),
           NEW j \in 1..n
    PROVE  LET kids == Subtree(line, n, j) \cap HaveChildren(ForestOf(F, n), n)
           IN  Covered(G, line, n, j) = F[j] \cup kids /\ F[j] \cap kids = {}
<1> DEFINE up == ForestOf(F, n)
           kids == Subtree(line, n, j) \cap HaveChildren(up, n)
<1>1. /\ Climbs(up, n)
      /\ \A c \in 1..n : F[c] = {} \/ up[c] \in F[c]
      /\ \A c \in 1..n : \A i \in F[c] : up[c] # None /\ i \in 1..n /\ i > c
  BY ForestClimbs
<1>2. \A c \in 1..n : up[c] # None => up[c] \in F[c]
  BY <1>1 DEF ForestOf
<1> HIDE DEF up
<1>3. \A c \in 1..n, i \in 1..n :
          i \in F[c] <=> i > c /\ \E r \in 1..n : c \in line[r] /\ i \in own[r]
  BY RowSubtrees DEF up
<1>4. \A c \in 1..n : F[c] \subseteq line[c]
  BY FillClimbs DEF up
<1>5. \A c \in 1..n : c \in line[c] /\ line[c] \subseteq c..n
  BY LinesClimb DEF up
<1>6. \A r \in 1..n, t \in 1..n : t \in line[r] => line[t] \subseteq line[r]
  BY LinesPass DEF up
<1>7. \A r \in 1..n : own[r] \subseteq F[r]
  BY DEF IsFill
<1>8. ASSUME NEW i \in 1..n
      PROVE  i \in Covered(G, line, n, j)
                 <=> \E r \in 1..n : j \in line[r] /\ i \in own[r]
  <2>1. \A r \in 1..n : \E l \in 1..n : q[l] = r
    BY WholePostorder
  <2>2. \A r \in 1..n : r \in G[i] <=> i \in own[r]
    BY <2>1 DEF IsSeen
  <2>3. G[i] \subseteq 1..n
    BY DEF IsSeen
  <2> QED
    BY <2>2, <2>3 DEF Covered
<1>9. ASSUME NEW i \in 1..n, i \in kids PROVE i <= j
  <2>1. j \in line[i]
    BY <1>9 DEF Subtree
  <2> QED
    BY <1>5, <2>1
<1>10. ASSUME NEW i \in 1..n, i > j
       PROVE  i \in Covered(G, line, n, j) <=> i \in F[j]
  BY <1>3, <1>8, <1>10
<1>11. ASSUME NEW i \in 1..n, i <= j, i \in Covered(G, line, n, j)
       PROVE  i \in kids
  <2>1. PICK r \in 1..n : j \in line[r] /\ i \in own[r]
    BY <1>8, <1>11
  <2>2. i \in line[r] /\ i > r
    BY <1>1, <1>4, <1>7, <2>1
  <2>3. PICK c \in 1..n : up[c] = i /\ c \in line[r]
    BY <2>2, LinesArrive DEF up
  <2>4. j \in line[i]
    BY <1>11, <2>1, <2>2, LinesNest DEF up
  <2> QED
    BY <2>3, <2>4 DEF Subtree, HaveChildren
<1>12. ASSUME NEW i \in 1..n, i \in kids PROVE i \in Covered(G, line, n, j)
  <2>1. j \in line[i]
    BY <1>12 DEF Subtree
  <2>2. PICK c \in 1..n : up[c] = i
    BY <1>12 DEF HaveChildren
  <2>3. up[c] # None
    BY <2>2 DEF None
  <2>4. i \in F[c]
    BY <1>2, <2>2, <2>3
  <2>5. PICK r \in 1..n : c \in line[r] /\ i \in own[r]
    BY <1>3, <2>4
  <2>6. i \in line[r]
    BY <1>4, <1>7, <2>5
  <2>7. j \in line[r]
    BY <1>6, <2>1, <2>6
  <2> QED
    BY <1>8, <2>5, <2>7
<1>13. /\ Covered(G, line, n, j) \subseteq 1..n
       /\ \A i \in F[j] : i \in 1..n /\ i > j
       /\ kids \subseteq 1..n
  BY <1>1 DEF Covered, HaveChildren
<1>14. F[j] \cap kids = {}
  <2>1. ASSUME NEW i \in F[j], i \in kids PROVE FALSE
    <3>1. i \in 1..n /\ i > j
      BY <1>13
    <3>2. i <= j
      BY <1>9, <2>1, <3>1
    <3> QED
      BY <3>1, <3>2
  <2> QED
    BY <2>1
<1>15. Covered(G, line, n, j) = F[j] \cup kids
  <2> HIDE DEF kids
  <2>1. ASSUME NEW i \in 1..n
        PROVE  i \in Covered(G, line, n, j) <=> i \in F[j] \/ i \in kids
    <3>1. CASE i > j
      <4>1. i \notin kids
        BY <1>9, <3>1
      <4> QED
        BY <1>10, <3>1, <4>1
    <3>2. CASE i <= j
      <4>1. i \notin F[j]
        BY <1>13, <3>2
      <4> QED
        BY <1>11, <1>12, <3>2, <4>1
    <3> QED
      BY <3>1, <3>2
  <2> QED
    BY <1>13, <2>1
<1> QED
  BY <1>14, <1>15 DEF up

\* One for each column without a child.
AreLeaves(leaves, H, n) ==
    /\ leaves \in [1..n -> Int]
    /\ \A i \in 1..n : leaves[i] = IF i \in H THEN 0 ELSE 1
LEMMA LeavesAreCounted ==
    ASSUME NEW n \in Nat, NEW H, NEW leaves, AreLeaves(leaves, H, n),
           NEW S \in SUBSET (1..n)
    PROVE  /\ IsFiniteSet(S) /\ Cardinality(S) \in Nat
           /\ Cardinality(S \cap H) \in Nat
           /\ SumOver(leaves, S) = Cardinality(S) - Cardinality(S \cap H)
<1> DEFINE A == {T \in SUBSET S :
                    SumOver(leaves, T) = Cardinality(T) - Cardinality(T \cap H)}
<1>1. IsFiniteSet(S)
  <2>1. IsFiniteSet(1..n)
    BY FS_Interval
  <2> QED
    BY <2>1, FS_Subset
<1>2. ASSUME NEW T \in SUBSET S
      PROVE  /\ IsFiniteSet(T) /\ IsFiniteSet(T \cap H)
             /\ Cardinality(T) \in Nat /\ Cardinality(T \cap H) \in Nat
             /\ \A x \in T : leaves[x] \in Int
  <2>1. IsFiniteSet(T)
    BY <1>1, FS_Subset
  <2>2. IsFiniteSet(T \cap H)
    BY <2>1, FS_Subset
  <2>3. \A x \in T : x \in 1..n
    OBVIOUS
  <2>4. leaves \in [1..n -> Int]
    BY DEF AreLeaves
  <2> QED
    BY <2>1, <2>2, <2>3, <2>4, FS_CardinalityType
<1>3. {} \in A
  <2>1. SumOver(leaves, {}) = 0 /\ Cardinality({}) = 0
    BY SumEmpty, FS_EmptySet
  <2>2. {} \cap H = {}
    OBVIOUS
  <2> QED
    BY <2>1, <2>2
<1>4. ASSUME NEW T \in SUBSET S, NEW x \in T, T \ {x} \in A
      PROVE  T \in A
  <2> DEFINE U == T \ {x}
             t == Cardinality(T)
             u == Cardinality(U)
             v == Cardinality(T \cap H)
             w == Cardinality(U \cap H)
             a == SumOver(leaves, T)
             b == SumOver(leaves, U)
  <2>1. IsFiniteSet(T) /\ IsFiniteSet(T \cap H) /\ \A y \in T : leaves[y] \in Int
    BY <1>2
  <2>2. t \in Nat /\ u \in Nat /\ v \in Nat /\ w \in Nat
    <3>1. U \in SUBSET S
      OBVIOUS
    <3> HIDE DEF U
    <3> QED
      BY <1>2, <3>1
  <2>3. b = u - w
    BY <1>4
  <2>4. a = leaves[x] + b
    BY ZenonT(40), <2>1, SumTakeOff
  <2>5. u = t - 1
    BY <2>1, FS_RemoveElement
  <2>6. IF x \in H THEN w = v - 1 ELSE w = v
    <3>1. CASE x \in H
      <4>1. U \cap H = (T \cap H) \ {x} /\ x \in T \cap H
        BY <3>1
      <4> DEFINE R == T \cap H
      <4>2. IsFiniteSet(R) /\ x \in R
        BY <2>1, <4>1
      <4> HIDE DEF R
      <4>3. Cardinality(R \ {x}) = Cardinality(R) - 1
        BY <4>2, FS_RemoveElement
      <4> QED
        BY <3>1, <4>1, <4>3 DEF R
    <3>2. CASE x \notin H
      <4>1. U \cap H = T \cap H
        BY <3>2
      <4> QED
        BY <3>2, <4>1
    <3> QED
      BY <3>1, <3>2
  <2>7. leaves[x] = IF x \in H THEN 0 ELSE 1
    BY DEF AreLeaves
  <2> HIDE DEF U, t, u, v, w, a, b
  <2>8. a = t - v
    BY <2>2, <2>3, <2>4, <2>5, <2>6, <2>7
  <2> QED
    BY <2>8 DEF a, t, v
<1>5. S \in A
  <2> HIDE DEF A
  <2> QED
    BY <1>1, <1>3, <1>4, SubsetInduction
<1> QED
  BY <1>1, <1>2, <1>5

LEMMA ColumnAddsUp ==
    ASSUME NEW n \in Nat, NEW F, NEW own, IsFill(F, own, n),
           NEW line, AreLines(line, ForestOf(F, n), n),
           NEW q, IsWholePostorder(q, line, n), NEW leaves,
           AreLeaves(leaves, HaveChildren(ForestOf(F, n), n), n), NEW s,
           SkeletonSoFar(s, own, leaves, ForestOf(F, n), line, q, n, n),
           NEW j \in 1..n
    PROVE  /\ s.counts \in [1..n -> Int] /\ Cardinality(F[j]) \in Nat
           /\ SumOver(s.counts, Subtree(line, n, j)) = Cardinality(F[j]) + 1
<1> DEFINE up == ForestOf(F, n)
           T == Subtree(line, n, j)
           kids == T \cap HaveChildren(up, n)
           P == {q[l] : l \in 1..n}
<1>1. PICK G, M : SkeletonFits(s, G, M, P, leaves, up, line, q, n, n)
                  /\ IsSeen(G, own, q, n, n)
  BY DEF SkeletonSoFar
<1>2. P = 1..n
  <2>1. (\A l \in 1..n : q[l] \in 1..n) /\ \A r \in 1..n : \E l \in 1..n : q[l] = r
    BY WholePostorder
  <2> QED
    BY <2>1
<1>3. CountsFit(s.counts, G, 1..n, leaves, up, line, n)
  BY <1>1, <1>2 DEF SkeletonFits
<1> HIDE DEF P, up
<1>4. SumOver(s.counts, T) = SumOver(leaves, T)
          + Cardinality(Covered(G, line, n, j)) - Cardinality(Moved(1..n, up, line, j))
  BY <1>3 DEF CountsFit
<1>5. s.counts \in [1..n -> Int]
  BY <1>3 DEF CountsFit
<1>6. Covered(G, line, n, j) = F[j] \cup kids /\ F[j] \cap kids = {}
  BY <1>1, CoveredAreAbove DEF up
<1>7. Moved(1..n, up, line, j) = T \ {j}
  BY MovedAreBelow DEF up
<1>8. T \in SUBSET (1..n) /\ j \in T
  <2>1. j \in line[j]
    BY LinesClimb
  <2> QED
    BY <2>1 DEF Subtree
<1>9. /\ IsFiniteSet(T) /\ Cardinality(T) \in Nat /\ Cardinality(kids) \in Nat
      /\ SumOver(leaves, T) = Cardinality(T) - Cardinality(kids)
  BY <1>8, LeavesAreCounted DEF up
<1> HIDE DEF T
<1>10. IsFiniteSet(kids)
  BY <1>9, FS_Subset
<1>11. IsFiniteSet(F[j]) /\ Cardinality(F[j]) \in Nat
  <2>1. F[j] \subseteq 1..n /\ IsFiniteSet(1..n)
    BY FS_Interval DEF IsFill
  <2> QED
    BY <2>1, FS_Subset, FS_CardinalityType
<1>12. Cardinality(T \ {j}) = Cardinality(T) - 1
  BY <1>8, <1>9, FS_RemoveElement
<1> HIDE DEF kids
<1>13. Cardinality(F[j] \cup kids) = Cardinality(F[j]) + Cardinality(kids)
  <2>1. Cardinality(F[j] \cap kids) = 0
    BY <1>6, FS_EmptySet
  <2>2. Cardinality(F[j] \cup kids) = Cardinality(F[j]) + Cardinality(kids)
                                          - Cardinality(F[j] \cap kids)
    BY <1>10, <1>11, FS_Union
  <2> QED
    BY <1>9, <1>11, <2>1, <2>2
<1> DEFINE a == SumOver(s.counts, T)
           b == SumOver(leaves, T)
           c == Cardinality(Covered(G, line, n, j))
           d == Cardinality(Moved(1..n, up, line, j))
           t == Cardinality(T)
           u == Cardinality(kids)
           f == Cardinality(F[j])
<1>14. /\ a = b + c - d /\ b = t - u /\ c = f + u /\ d = t - 1
       /\ t \in Nat /\ u \in Nat /\ f \in Nat
  BY <1>4, <1>6, <1>7, <1>9, <1>11, <1>12, <1>13
<1> HIDE DEF a, b, c, d, t, u, f
<1>15. a = f + 1
  BY <1>14
<1> QED
  BY <1>5, <1>11, <1>15 DEF a, f, T

-----------------------------------------------------------------------------
(***************************************************************************)
(* The column counts add up along the forest.                              *)
(***************************************************************************)
\* What has come to a column once the columns up to k have been passed on.
Arrived(up, line, n, x, k) ==
    {y \in 1..n : /\ x \in line[y]
                  /\ y = x \/ \E c \in 1..k : up[c] = x /\ c \in line[y]}

LEMMA AllArrive ==
    ASSUME NEW n \in Nat, NEW up, NEW line, AreLines(line, up, n), NEW k \in 1..n
    PROVE  Arrived(up, line, n, k, k - 1) = Subtree(line, n, k)
<1>1. ASSUME NEW y \in 1..n, k \in line[y], y # k
      PROVE  \E c \in 1..(k - 1) : up[c] = k /\ c \in line[y]
  <2>1. PICK c \in 1..n : up[c] = k /\ c \in line[y]
    BY <1>1, LinesArrive
  <2>2. up[c] > c
    BY <2>1 DEF AreLines, None
  <2>3. c \in 1..(k - 1)
    BY <2>1, <2>2
  <2> QED
    BY <2>1, <2>3
<1> QED
  BY <1>1 DEF Arrived, Subtree

LEMMA OneArrives ==
    ASSUME NEW n \in Nat, NEW up, NEW line, AreLines(line, up, n), NEW k \in 1..n
    PROVE  /\ up[k] # None =>
                  /\ up[k] \in 1..n /\ up[k] > k
                  /\ Arrived(up, line, n, up[k], k)
                         = Arrived(up, line, n, up[k], k - 1) \cup Subtree(line, n, k)
                  /\ Arrived(up, line, n, up[k], k - 1) \cap Subtree(line, n, k) = {}
           /\ \A x \in 1..n : x # up[k] =>
                  Arrived(up, line, n, x, k) = Arrived(up, line, n, x, k - 1)
<1>1. \A c \in 1..k : c = k \/ c \in 1..(k - 1)
  OBVIOUS
<1>2. (\A c \in 1..(k - 1) : c \in 1..k /\ c \in 1..n /\ c < k) /\ k \in 1..k
  OBVIOUS
<1>3. \A x \in 1..n : x # up[k] =>
          Arrived(up, line, n, x, k) = Arrived(up, line, n, x, k - 1)
  <2>1. ASSUME NEW x \in 1..n, x # up[k], NEW y \in 1..n
        PROVE  (\E c \in 1..k : up[c] = x /\ c \in line[y])
                   <=> \E c \in 1..(k - 1) : up[c] = x /\ c \in line[y]
    BY <1>1, <1>2, <2>1
  <2> QED
    BY <2>1 DEF Arrived
<1>4. \A s \in 1..n : s \in line[s] /\ line[s] \subseteq s..n
  BY LinesClimb
<1>5. ASSUME up[k] # None PROVE up[k] \in 1..n /\ up[k] > k
  BY <1>5 DEF AreLines
<1>6. ASSUME up[k] # None PROVE line[k] = {k} \cup line[up[k]]
  BY <1>6 DEF AreLines
<1>7. ASSUME up[k] # None
      PROVE  Arrived(up, line, n, up[k], k)
                 = Arrived(up, line, n, up[k], k - 1) \cup Subtree(line, n, k)
  <2> DEFINE p == up[k]
  <2>1. p \in 1..n /\ p > k
    BY <1>5, <1>7
  <2>2. p \in line[k]
    BY <1>4, <1>6, <1>7, <2>1
  <2>3. ASSUME NEW y \in 1..n, k \in line[y] PROVE p \in line[y]
    BY <2>2, <2>3, LinesPass
  <2>4. ASSUME NEW y \in 1..n
        PROVE  (\E c \in 1..k : up[c] = p /\ c \in line[y])
                   <=> k \in line[y] \/ \E c \in 1..(k - 1) : up[c] = p /\ c \in line[y]
    BY <1>1, <1>2
  <2> HIDE DEF p
  <2> QED
    BY <2>3, <2>4 DEF Arrived, Subtree, p
<1>8. ASSUME up[k] # None
      PROVE  Arrived(up, line, n, up[k], k - 1) \cap Subtree(line, n, k) = {}
  <2> SUFFICES ASSUME NEW y \in Arrived(up, line, n, up[k], k - 1),
                      y \in Subtree(line, n, k)
               PROVE  FALSE
    OBVIOUS
  <2>1. up[k] \in 1..n /\ up[k] > k
    BY <1>5, <1>8
  <2>2. k \notin line[up[k]]
    BY <1>4, <2>1
  <2>3. y \in 1..n /\ k \in line[y]
    BY DEF Subtree
  <2>4. PICK c \in 1..(k - 1) : up[c] = up[k] /\ c \in line[y]
    BY <2>2, <2>3 DEF Arrived
  <2>5. c \in 1..n /\ c < k
    BY <1>2
  <2>6. k \in line[c]
    BY <2>3, <2>4, <2>5, LinesNest
  <2>7. line[c] = {c} \cup line[up[c]]
    BY <1>8, <2>4, <2>5 DEF AreLines
  <2> QED
    BY <2>2, <2>4, <2>5, <2>6, <2>7
<1> QED
  BY <1>3, <1>5, <1>7, <1>8

PassedOn(up, s, row) ==
    LET below == IF up[row] = None THEN s
                 ELSE [s EXCEPT ![up[row]] = @ + s[row]]
    IN  [below EXCEPT ![row] = @ - 1]
IsPassed(t, s, up, n, k) ==
    /\ t \in [1..n -> Int] /\ t[k] = s[k] - 1
    /\ up[k] # None => t[up[k]] = s[up[k]] + s[k]
    /\ \A x \in 1..n : x # k /\ x # up[k] => t[x] = s[x]
LEMMA PassedFacts ==
    ASSUME NEW n \in Nat, NEW up, Climbs(up, n), NEW s \in [1..n -> Int],
           NEW k \in 1..n
    PROVE  IsPassed(PassedOn(up, s, k), s, up, n, k)
<1>1. up[k] = None \/ (up[k] \in 1..n /\ up[k] # k)
  BY DEF Climbs, None
<1>2. CASE up[k] = None
  <2>1. PassedOn(up, s, k) = [s EXCEPT ![k] = @ - 1]
    BY <1>2 DEF PassedOn
  <2>2. k # None
    BY DEF None
  <2> QED
    BY <1>2, <2>1 DEF IsPassed
<1>3. CASE up[k] \in 1..n /\ up[k] # k /\ up[k] # None
  <2> DEFINE t == [s EXCEPT ![up[k]] = @ + s[k]]
  <2>1. PassedOn(up, s, k) = [t EXCEPT ![k] = @ - 1]
    BY <1>3 DEF PassedOn
  <2>2. s[up[k]] + s[k] \in Int
    BY <1>3
  <2>3. /\ t \in [1..n -> Int] /\ t[k] = s[k] /\ t[up[k]] = s[up[k]] + s[k]
        /\ \A x \in 1..n : x # up[k] => t[x] = s[x]
    BY <1>3, <2>2
  <2> HIDE DEF t
  <2> QED
    BY <1>3, <2>1, <2>3 DEF IsPassed
<1> QED
  BY <1>1, <1>2, <1>3

IsPassLoop(g, up, counts, n) ==
    /\ g \in [0..n -> [1..n -> Int]] /\ g[0] = counts
    /\ \A k \in 1..n : IsPassed(g[k], g[k - 1], up, n, k)
    /\ AccumulateCounts(up, counts) = g[n]
LEMMA PassLoop ==
    ASSUME NEW n \in Nat, NEW up, Climbs(up, n), NEW counts \in [1..n -> Int]
    PROVE  \E g : IsPassLoop(g, up, counts, n)
<1> DEFINE E == 1..n
           V == [1..n -> Int]
           s == Indices(n)
           first == counts
           next(x, e) == PassedOn(up, x, e)
<1>1. s \in Seq(E)
  BY IndicesAreTyped
<1>2. first \in V
  OBVIOUS
<1>3. \A x \in V, e \in E : next(x, e) \in V
  BY PassedFacts DEF IsPassed
<1>13. Len(up) = n
  <2>1. up = [i \in 1..n |-> up[i]]
    BY DEF Climbs
  <2> QED
    BY <2>1, WrittenDown
<1>4. AccumulateCounts(up, counts) = Through(s, first, LAMBDA x, e : next(x, e))
  BY <1>13 DEF AccumulateCounts, Through, PassedOn
<1> DEFINE step == [xe \in V \X E |-> next(xe[1], xe[2])]
           Body(h) == [k \in 0..Len(s) |-> IF k = 0 THEN first
                                           ELSE next(h[k - 1], s[k])]
           g == CHOOSE h : h = Body(h)
<1> HIDE DEF E, V, s, first, next
<1>5. \A x \in V, e \in E :
          <<x, e>> \in V \X E /\ step[<<x, e>>] = next(x, e)
  OBVIOUS
<1>6. IsStep(step, V, E)
  <2>1. \A xe \in V \X E : next(xe[1], xe[2]) \in V
    BY <1>3
  <2> QED
    BY <2>1 DEF IsStep
<1> HIDE DEF step
<1>7. g = Body(g)
  <2>1. PICK f \in [0..Len(s) -> V] : IsLoop(f, s, first, step)
    BY <1>1, <1>2, <1>6, LoopExists
  <2>2. \A k \in 0..Len(s) : k # 0 => f[k - 1] \in V /\ s[k] \in E
    <3>1. Len(s) \in Nat /\ \A k \in 1..Len(s) : s[k] \in E
      BY <1>1
    <3>2. \A k \in 0..Len(s) : k # 0 => k \in 1..Len(s) /\ k - 1 \in 0..Len(s)
      BY <3>1
    <3> QED
      BY <3>1, <3>2
  <2>3. \A k \in 0..Len(s) :
            (IF k = 0 THEN first ELSE step[<<f[k - 1], s[k]>>])
                = (IF k = 0 THEN first ELSE next(f[k - 1], s[k]))
    BY <1>5, <2>2
  <2>4. f = Body(f)
    BY <2>1, <2>3 DEF IsLoop
  <2> QED
    BY <2>4
<1>8. Through(s, first, LAMBDA x, e : next(x, e)) = g[Len(s)]
  BY DEF Through
<1> HIDE DEF g
<1>9. /\ g[0] = first /\ Len(s) \in Nat
      /\ \A k \in 1..Len(s) : g[k] = next(g[k - 1], s[k]) /\ s[k] \in E
  <2>1. \A k \in 1..Len(s) : s[k] \in E /\ k \in 0..Len(s) /\ k # 0
    BY <1>1
  <2>2. 0 \in 0..Len(s) /\ Len(s) \in Nat
    BY <1>1
  <2> HIDE DEF Body
  <2>3. \A k \in 0..Len(s) : Body(g)[k] = IF k = 0 THEN first
                                        ELSE next(g[k - 1], s[k])
    BY DEF Body
  <2> QED
    BY <1>7, <2>1, <2>2, <2>3
<1>10. \A k \in 0..Len(s) : g[k] \in V
  <2> DEFINE S == {k \in 0..Len(s) : g[k] \in V}
  <2>1. 0 \in S
    BY <1>2, <1>9
  <2>2. ASSUME NEW k \in 1..Len(s), k - 1 \in S PROVE k \in S
    <3>1. g[k] = next(g[k - 1], s[k]) /\ s[k] \in E /\ g[k - 1] \in V
      BY <1>9, <2>2
    <3>2. next(g[k - 1], s[k]) \in V
      BY <1>3, <3>1
    <3>3. k \in 0..Len(s) /\ g[k] \in V
      BY <1>9, <3>1, <3>2
    <3> QED
      BY <3>3
  <2>3. 0..Len(s) \subseteq S
    <3> HIDE DEF S
    <3> QED
      BY <1>9, <2>1, <2>2, CountsUp
  <2> QED
    BY <2>3
<1>11. g \in [0..Len(s) -> V]
  BY <1>7, <1>10
<1>14. Len(s) = n /\ \A k \in 1..n : s[k] = k
  BY IndicesFacts DEF s
<1>15. g[0] = counts
  BY <1>9 DEF first
<1>16. g \in [0..n -> [1..n -> Int]]
  BY <1>11, <1>14 DEF V
<1>17. ASSUME NEW k \in 1..n PROVE IsPassed(g[k], g[k - 1], up, n, k)
  <2>1. g[k] = PassedOn(up, g[k - 1], k)
    BY <1>9, <1>14 DEF next
  <2>2. g[k - 1] \in [1..n -> Int]
    BY <1>16
  <2> QED
    BY <2>1, <2>2, PassedFacts
<1>18. AccumulateCounts(up, counts) = g[n]
  BY <1>4, <1>8, <1>14
<1>19. IsPassLoop(g, up, counts, n)
  BY <1>15, <1>16, <1>17, <1>18 DEF IsPassLoop
<1> QED
  BY <1>19

AreSums(s, counts, up, line, n, k) ==
    /\ \A x \in 1..n : x <= k =>
           s[x] = SumOver(counts, Subtree(line, n, x)) - 1
    /\ \A x \in 1..n : x > k =>
           s[x] = SumOver(counts, Arrived(up, line, n, x, k))
LEMMA SumsStart ==
    ASSUME NEW n \in Nat, NEW up, NEW line, AreLines(line, up, n),
           NEW counts \in [1..n -> Int]
    PROVE  AreSums(counts, counts, up, line, n, 0)
<1>1. ASSUME NEW x \in 1..n
      PROVE  counts[x] = SumOver(counts, Arrived(up, line, n, x, 0))
  <2> DEFINE S == Arrived(up, line, n, x, 0)
  <2>1. x \in line[x]
    BY LinesClimb
  <2>2. S = {x}
    BY <2>1 DEF Arrived
  <2>3. IsFiniteSet(S)
    BY <2>2, FS_Singleton
  <2>4. x \in S /\ \A y \in S \ {x} : counts[y] = 0
    BY <2>2
  <2>6. counts[x] \in Int
    OBVIOUS
  <2> HIDE DEF S
  <2>5. SumOver(counts, S) = counts[x]
    BY <2>3, <2>4, <2>6, SumOfOne
  <2> QED
    BY <2>5 DEF S
<1> QED
  BY <1>1 DEF AreSums

LEMMA SumsGoOn ==
    ASSUME NEW n \in Nat, NEW up, NEW line, AreLines(line, up, n),
           NEW counts \in [1..n -> Int], NEW k \in 1..n, NEW s \in [1..n -> Int],
           AreSums(s, counts, up, line, n, k - 1), NEW t, IsPassed(t, s, up, n, k)
    PROVE  AreSums(t, counts, up, line, n, k)
<1>1. s[k] = SumOver(counts, Subtree(line, n, k))
  <2>1. Arrived(up, line, n, k, k - 1) = Subtree(line, n, k)
    BY AllArrive
  <2>2. k > k - 1
    OBVIOUS
  <2> QED
    BY <2>1, <2>2 DEF AreSums
<1>2. ASSUME NEW x \in 1..n, x <= k
      PROVE  t[x] = SumOver(counts, Subtree(line, n, x)) - 1
  <2>1. CASE x = k
    BY <1>1, <2>1 DEF IsPassed
  <2>2. CASE x # k
    <3>1. x <= k - 1
      BY <1>2, <2>2
    <3>2. s[x] = SumOver(counts, Subtree(line, n, x)) - 1
      BY <3>1 DEF AreSums
    <3>3. x # up[k]
      <4>1. up[k] = None \/ up[k] > k
        BY DEF AreLines
      <4> QED
        BY <3>1, <4>1 DEF None
    <3>4. t[x] = s[x]
      BY <2>2, <3>3 DEF IsPassed
    <3> QED
      BY <3>2, <3>4
  <2> QED
    BY <2>1, <2>2
<1>3. ASSUME NEW x \in 1..n, x > k
      PROVE  t[x] = SumOver(counts, Arrived(up, line, n, x, k))
  <2>1. x > k - 1 /\ x # k
    BY <1>3
  <2>2. s[x] = SumOver(counts, Arrived(up, line, n, x, k - 1))
    BY <2>1 DEF AreSums
  <2>3. CASE x # up[k]
    <3>1. Arrived(up, line, n, x, k) = Arrived(up, line, n, x, k - 1)
      BY <2>3, OneArrives
    <3>2. t[x] = s[x]
      BY <2>1, <2>3 DEF IsPassed
    <3> QED
      BY <2>2, <3>1, <3>2
  <2>4. CASE x = up[k]
    <3> DEFINE S == Arrived(up, line, n, x, k - 1)
               T == Subtree(line, n, k)
    <3>1. x # None
      BY DEF None
    <3>2. Arrived(up, line, n, x, k) = S \cup T /\ S \cap T = {}
      BY <2>4, <3>1, OneArrives
    <3>3. t[x] = s[x] + s[k]
      BY <2>4, <3>1 DEF IsPassed
    <3>4. S \subseteq 1..n /\ T \subseteq 1..n
      BY DEF Arrived, Subtree
    <3>7. IsFiniteSet(1..n)
      BY FS_Interval
    <3> HIDE DEF S, T
    <3>5. IsFiniteSet(S) /\ IsFiniteSet(T) /\ \A y \in S \cup T : counts[y] \in Int
      BY <3>4, <3>7, FS_Subset
    <3>6. SumOver(counts, S \cup T) = SumOver(counts, S) + SumOver(counts, T)
      BY <3>2, <3>5, SumJoin
    <3> QED
      BY <1>1, <2>2, <3>2, <3>3, <3>6 DEF S, T
  <2> QED
    BY <2>3, <2>4
<1> QED
  BY <1>2, <1>3 DEF AreSums

LEMMA CountsAccumulate ==
    ASSUME NEW n \in Nat, NEW up, Climbs(up, n), NEW line, AreLines(line, up, n),
           NEW counts \in [1..n -> Int]
    PROVE  /\ AccumulateCounts(up, counts) \in [1..n -> Int]
           /\ \A j \in 1..n : AccumulateCounts(up, counts)[j]
                  = SumOver(counts, Subtree(line, n, j)) - 1
<1>1. PICK g : IsPassLoop(g, up, counts, n)
  BY PassLoop
<1>2. /\ g \in [0..n -> [1..n -> Int]] /\ g[0] = counts
      /\ \A k \in 1..n : IsPassed(g[k], g[k - 1], up, n, k)
      /\ AccumulateCounts(up, counts) = g[n]
  BY <1>1 DEF IsPassLoop
<1> DEFINE S == {k \in 0..n : AreSums(g[k], counts, up, line, n, k)}
<1>3. 0 \in S
  BY <1>2, SumsStart
<1>4. ASSUME NEW k \in 1..n, k - 1 \in S PROVE k \in S
  <2>1. g[k - 1] \in [1..n -> Int] /\ IsPassed(g[k], g[k - 1], up, n, k)
    BY <1>2
  <2>2. AreSums(g[k - 1], counts, up, line, n, k - 1)
    BY <1>4
  <2>3. AreSums(g[k], counts, up, line, n, k)
    BY <2>1, <2>2, SumsGoOn
  <2> QED
    BY <2>3
<1>5. n \in S
  <2>1. 0..n \subseteq S
    <3> HIDE DEF S
    <3> QED
      BY <1>3, <1>4, CountsUp
  <2> QED
    BY <2>1
<1>6. \A j \in 1..n : g[n][j] = SumOver(counts, Subtree(line, n, j)) - 1
  BY <1>5 DEF AreSums
<1>7. n \in 0..n
  OBVIOUS
<1> QED
  BY <1>2, <1>6, <1>7

-----------------------------------------------------------------------------
(***************************************************************************)
(* The degrees of Gilbert, Ng and Peyton are those of the filled graph.    *)
(***************************************************************************)
LEMMA DegreesParts ==
    ASSUME NEW m, NEW o, NEW up, NEW q
    PROVE  DegreesFromEliminationForest(m, o, up, q)
               = AccumulateCounts(up,
                     SkeletonOf(m, o, up, q, FirstDescendants(up, q)).counts)
BY DEF DegreesFromEliminationForest, SkeletonOf

LEMMA FillIsAbove ==
    ASSUME NEW n \in Nat, NEW F, NEW own, IsFill(F, own, n),
           NEW line, AreLines(line, ForestOf(F, n), n)
    PROVE  OwnIsAbove(own, line, n)
<1>1. \A j \in 1..n : F[j] \subseteq line[j]
  BY FillClimbs
<1>2. \A j \in 1..n : own[j] \subseteq F[j] /\ F[j] \subseteq 1..n
  BY DEF IsFill
<1>3. \A j \in 1..n : \A i \in F[j] : i > j
  BY DEF IsFill
<1> SUFFICES ASSUME NEW r \in 1..n, NEW c \in own[r]
             PROVE  c \in line[r] /\ c # r /\ c \in 1..n
  BY DEF OwnIsAbove
<1>4. c \in F[r]
  BY <1>2
<1>5. c \in line[r] /\ c \in 1..n /\ c > r
  BY <1>1, <1>2, <1>3, <1>4
<1> QED
  BY <1>5

LEMMA DegreesFit ==
    ASSUME NEW n \in Nat, NEW F, NEW own, IsFill(F, own, n), NEW m, NEW o,
           HasUppers(m, o, own, n)
    PROVE  LET up == ForestOf(F, n)
               d == DegreesFromEliminationForest(m, o, up,
                        PostorderFromEliminationForest(up))
           IN  /\ d \in [1..n -> Nat]
               /\ \A j \in 1..n : d[j] = Cardinality(F[j])
<1> DEFINE up == ForestOf(F, n)
           q == PostorderFromEliminationForest(up)
           line == [s \in 1..n |-> Range(Path(up, s, {None}))]
           first == FirstDescendants(up, q)
           s == SkeletonOf(m, o, up, q, first)
           leaves == first.counts
           d == AccumulateCounts(up, s.counts)
<1>1. Climbs(up, n)
  BY ForestClimbs
<1> HIDE DEF up
<1>2. AreLines(line, up, n)
  BY <1>1, LinesOfClimbing
<1> HIDE DEF line
<1>3. IsWholePostorder(q, line, n)
  BY <1>1, <1>2, PostorderFits DEF IsWholePostorder
<1> HIDE DEF q
<1>4. /\ first \in FirstStates(n)
      /\ \A i \in 1..n :
             /\ first.firsts[i] \in 1..n /\ i \in line[q[first.firsts[i]]]
             /\ \A l \in 1..n : i \in line[q[l]] => first.firsts[i] <= l
             /\ (\E c \in 1..n : up[c] = i) => leaves[i] = 0
             /\ (\A c \in 1..n : up[c] # i) => leaves[i] = 1
  BY <1>1, <1>2, <1>3, FirstsFit
<1> HIDE DEF first
<1>5. IsFirst(first.firsts, q, line, n)
  BY <1>4 DEF IsFirst
<1>6. AreLeaves(leaves, HaveChildren(up, n), n)
  <2>1. leaves \in [1..n -> Int]
    BY <1>4 DEF FirstStates
  <2>2. ASSUME NEW i \in 1..n
        PROVE  leaves[i] = IF i \in HaveChildren(up, n) THEN 0 ELSE 1
    BY <1>4 DEF HaveChildren
  <2> QED
    BY <2>1, <2>2 DEF AreLeaves
<1>7. OwnIsAbove(own, line, n)
  BY <1>2, FillIsAbove DEF up
<1>8. SkeletonSoFar(s, own, leaves, up, line, q, n, n)
  BY <1>1, <1>2, <1>3, <1>4, <1>5, <1>7, SkeletonEnds
<1> HIDE DEF s, leaves
<1>9. \A j \in 1..n :
          /\ s.counts \in [1..n -> Int] /\ Cardinality(F[j]) \in Nat
          /\ SumOver(s.counts, Subtree(line, n, j)) = Cardinality(F[j]) + 1
  BY <1>2, <1>3, <1>6, <1>8, ColumnAddsUp DEF up
<1>10. s.counts \in [1..n -> Int]
  <2>1. s \in SkeletonStates(n)
    BY <1>8 DEF SkeletonSoFar, SkeletonFits
  <2> QED
    BY <2>1 DEF SkeletonStates
<1>11. /\ d \in [1..n -> Int]
       /\ \A j \in 1..n : d[j] = SumOver(s.counts, Subtree(line, n, j)) - 1
  BY <1>1, <1>2, <1>10, CountsAccumulate
<1>12. d = DegreesFromEliminationForest(m, o, up, q)
  BY DegreesParts DEF s, first
<1> HIDE DEF d
<1>13. ASSUME NEW j \in 1..n PROVE d[j] = Cardinality(F[j]) /\ d[j] \in Nat
  <2> DEFINE a == SumOver(s.counts, Subtree(line, n, j))
             f == Cardinality(F[j])
  <2>1. d[j] = a - 1 /\ a = f + 1 /\ f \in Nat
    BY <1>9, <1>11
  <2> HIDE DEF a, f
  <2>2. d[j] = f /\ d[j] \in Nat
    BY <2>1
  <2> QED
    BY <2>2 DEF f
<1>14. d \in [1..n -> Nat]
  BY <1>11, <1>13
<1> QED
  BY <1>12, <1>13, <1>14 DEF q, up

-----------------------------------------------------------------------------
(***************************************************************************)
(* The columns of a row, before and after the diagonal.                    *)
(***************************************************************************)
\* An ordering is undone by its inverse.
Undoes(o, n) ==
    \A i \in 1..n : /\ ToNew(o, i) \in 1..n /\ ToNew(o, ToOld(o, i)) = i
                    /\ ToOld(o, i) \in 1..n /\ ToOld(o, ToNew(o, i)) = i
LEMMA OrderingUndoes ==
    ASSUME NEW o, NEW n \in Nat, IsOrdering(o, n)
    PROVE  Undoes(o, n)
<1>1. CASE o.permutation = <<>>
  BY <1>1 DEF Undoes, ToNew, ToOld
<1>2. CASE o.permutation # <<>>
  <2>1. /\ o.permutation \in [1..n -> 1..n] /\ o.inverse \in [1..n -> 1..n]
        /\ \A i \in 1..n : /\ o.inverse[o.permutation[i]] = i
                           /\ o.permutation[o.inverse[i]] = i
    BY <1>2 DEF IsOrdering, Orders
  <2> QED
    BY <1>2, <2>1 DEF Undoes, ToNew, ToOld
<1> QED
  BY <1>1, <1>2

PermutedColumns(m, o, row) ==
    [k \in DOMAIN PermutedRow(m, o, row) |-> PermutedRow(m, o, row)[k].column]

LEMMA EnteredInside ==
    ASSUME NEW m, IsCoordinateMatrix(m), Symmetric(m), NEW o, Undoes(o, m.rows)
    PROVE  /\ \A e \in CoordinateGraph(m) :
                  /\ e = <<e[1], e[2]>> /\ e[1] \in 1..m.rows /\ e[2] \in 1..m.rows
                  /\ <<e[2], e[1]>> \in CoordinateGraph(m)
           /\ Entered(m, o) \subseteq (1..m.rows) \X (1..m.rows)
           /\ \A i, j \in 1..m.rows :
                  <<i, j>> \in Entered(m, o) => <<j, i>> \in Entered(m, o)
<1> DEFINE CG == CoordinateGraph(m)
           n == m.rows
<1>1. CG \subseteq (1..m.rows) \X (1..m.columns)
  <2>1. \A k \in DOMAIN m.entries : Place(m.entries[k]) \in Places(m)
    BY MatrixFacts, EntryFacts
  <2> QED
    BY <2>1 DEF CoordinateGraph, Places
<1>2. \A e \in CG : <<e[2], e[1]>> \in CG
  BY DEF Symmetric
<1>3. Entered(m, o) = {<<ToNew(o, e[1]), ToNew(o, e[2])>> : e \in CG}
  BY DEF Entered
<1> HIDE DEF CG, n
<1>4. \A e \in CG : e = <<e[1], e[2]>> /\ e[1] \in 1..n
  BY <1>1 DEF n
<1>5. \A e \in CG : e[2] \in 1..n
  <2> SUFFICES ASSUME NEW e \in CG PROVE e[2] \in 1..n
    OBVIOUS
  <2>1. <<e[2], e[1]>>[1] \in 1..n
    BY <1>2, <1>4
  <2> QED
    BY <2>1
<1>6. \A i \in 1..n : ToNew(o, i) \in 1..n
  BY DEF Undoes, n
<1>7. Entered(m, o) \subseteq (1..n) \X (1..n)
  BY <1>3, <1>4, <1>5, <1>6
<1>8. ASSUME NEW i \in 1..n, NEW j \in 1..n, <<i, j>> \in Entered(m, o)
      PROVE  <<j, i>> \in Entered(m, o)
  <2>1. PICK e \in CG : <<i, j>> = <<ToNew(o, e[1]), ToNew(o, e[2])>>
    BY <1>3, <1>8
  <2>2. i = ToNew(o, e[1]) /\ j = ToNew(o, e[2])
    BY <2>1
  <2> DEFINE d == <<e[2], e[1]>>
  <2>3. d \in CG /\ d[1] = e[2] /\ d[2] = e[1]
    BY <1>2
  <2> HIDE DEF d
  <2>4. <<j, i>> = <<ToNew(o, d[1]), ToNew(o, d[2])>>
    BY <2>2, <2>3
  <2> QED
    BY <1>3, <2>3, <2>4
<1> QED
  BY <1>2, <1>4, <1>5, <1>7, <1>8 DEF CG, n

LEMMA PermutedColumnsFit ==
    ASSUME NEW m, IsCoordinateMatrix(m), Symmetric(m), NEW o, Undoes(o, m.rows),
           NEW row \in 1..m.rows
    PROVE  /\ PermutedColumns(m, o, row) \in Seq(1..m.rows)
           /\ \A c \in 1..m.rows : c \in Range(PermutedColumns(m, o, row))
                                       <=> <<row, c>> \in Entered(m, o)
<1> DEFINE n == m.rows
           E == m.entries
           old == ToOld(o, row)
           a == m.offsets[old]
           b == m.offsets[old + 1]
           stored == RowEntries(m, ToOld(o, row))
           CG == CoordinateGraph(m)
           columns == PermutedColumns(m, o, row)
<1>1. /\ old \in 1..n /\ ToNew(o, old) = row
      /\ \A i \in 1..n : ToNew(o, i) = row => i = old
  BY DEF Undoes
<1>2. /\ a \in Nat /\ b \in Nat
      /\ \A k : k \in (a + 1)..b <=> k \in DOMAIN E /\ E[k].row = old
  BY <1>1, RowSlices
<1>3. stored = SubSeq(E, a + 1, b)
  BY DEF RowEntries, RowEntryOffset
<1>4. CG = {Place(E[k]) : k \in DOMAIN E}
  BY DEF CoordinateGraph
<1>5. \A e \in CG : e = <<e[1], e[2]>> /\ e[1] \in 1..n /\ e[2] \in 1..n
  BY EnteredInside
<1>6. Entered(m, o) = {<<ToNew(o, e[1]), ToNew(o, e[2])>> : e \in CG}
  BY DEF Entered
<1>7. E \in Seq(MatrixEntries(m))
  BY MatrixFacts
<1>8. PermutedRow(m, o, row)
          = <<>> \o [k \in DOMAIN stored |->
                 Entry(row, ToNew(o, stored[k].column), stored[k].value)]
  BY DEF PermutedRow
<1>9. \A i \in 1..n : ToNew(o, i) \in 1..n
  BY DEF Undoes
<1> HIDE DEF E, a, b, stored, CG, old, n
<1>11. /\ DOMAIN stored = 1..(b - a)
       /\ \A k \in 1..(b - a) : k + a \in (a + 1)..b /\ stored[k] = E[k + a]
  <2>1. CASE b < a + 1
    <3>1. stored = <<>>
      BY <1>2, <1>3, <1>7, <2>1
    <3> QED
      BY <1>2, <2>1, <3>1
  <2>2. CASE b >= a + 1
    <3>1. a + 1 \in DOMAIN E /\ b \in DOMAIN E
      BY <1>2, <2>2
    <3>2. DOMAIN E = 1..Len(E) /\ Len(E) \in Nat
      BY <1>7
    <3>3. a + 1 \in 1..Len(E) /\ b \in 1..Len(E)
      BY <3>1, <3>2
    <3> QED
      BY <1>2, <1>3, <1>7, <2>2, <3>3
  <2> QED
    BY <1>2, <2>1, <2>2
<1> DEFINE made == [k \in DOMAIN stored |->
               Entry(row, ToNew(o, stored[k].column), stored[k].value)]
<1>12. PermutedRow(m, o, row) = made
  <2>1. made \in Seq({made[k] : k \in 1..(b - a)})
    BY <1>2, <1>11
  <2>2. <<>> \o made = made
    BY <2>1
  <2> QED
    BY <1>8, <2>2
<1>13. /\ columns = [k \in 1..(b - a) |-> ToNew(o, E[k + a].column)]
       /\ DOMAIN columns = 1..(b - a)
  <2>1. \A i, c, v : Entry(i, c, v).column = c
    BY DEF Entry
  <2>2. /\ DOMAIN made = 1..(b - a)
        /\ \A k \in 1..(b - a) : made[k].column = ToNew(o, E[k + a].column)
    BY <1>11, <2>1
  <2>3. columns = [k \in DOMAIN made |-> made[k].column]
    BY <1>12 DEF PermutedColumns
  <2> HIDE DEF made, columns
  <2> QED
    BY <2>2, <2>3
<1>14. ASSUME NEW k \in (a + 1)..b
       PROVE  /\ E[k].column \in 1..n /\ <<old, E[k].column>> \in CG
  <2>1. <<old, E[k].column>> \in CG
    BY <1>2, <1>4 DEF Place
  <2> QED
    BY <1>5, <2>1
<1> HIDE DEF columns
<1>15. columns \in Seq(1..n)
  <2>1. \A k \in 1..(b - a) : columns[k] \in 1..n
    BY <1>9, <1>11, <1>13, <1>14
  <2>2. b - a \in Nat \/ 1..(b - a) = {}
    BY <1>2
  <2>3. CASE b - a \in Nat
    <3> DEFINE l == b - a
    <3>1. l \in Nat /\ \A k \in 1..l : columns[k] \in 1..n
      BY <2>1, <2>3
    <3>2. columns = [k \in 1..l |-> columns[k]]
      BY <1>13
    <3> HIDE DEF l
    <3>3. [k \in 1..l |-> columns[k]] \in Seq(1..n)
      BY <3>1
    <3> QED
      BY <3>2, <3>3
  <2>4. CASE 1..(b - a) = {}
    <3>1. columns = [k \in 1..0 |-> columns[k]]
      BY <1>13, <2>4
    <3> QED
      BY <3>1
  <2> QED
    BY <2>2, <2>3, <2>4
<1>16. ASSUME NEW c \in 1..n, c \in Range(columns)
       PROVE  <<row, c>> \in Entered(m, o)
  <2>1. PICK k \in 1..(b - a) : c = ToNew(o, E[k + a].column)
    BY <1>13, <1>16 DEF Range
  <2> DEFINE e == <<old, E[k + a].column>>
  <2>2. e \in CG /\ e[1] = old /\ e[2] = E[k + a].column
    BY <1>11, <1>14
  <2> HIDE DEF e
  <2>3. <<row, c>> = <<ToNew(o, e[1]), ToNew(o, e[2])>>
    BY <1>1, <2>1, <2>2
  <2> QED
    BY <1>6, <2>2, <2>3
<1>17. ASSUME NEW c \in 1..n, <<row, c>> \in Entered(m, o)
       PROVE  c \in Range(columns)
  <2>1. PICK e \in CG : <<row, c>> = <<ToNew(o, e[1]), ToNew(o, e[2])>>
    BY <1>6, <1>17
  <2>2. e[1] = old /\ c = ToNew(o, e[2])
    BY <1>1, <1>5, <2>1
  <2>3. PICK k \in DOMAIN E : e = <<E[k].row, E[k].column>>
    BY <1>4 DEF Place
  <2>4. E[k].row = old /\ E[k].column = e[2]
    BY <2>2, <2>3
  <2>5. k \in (a + 1)..b
    BY <1>2, <2>4
  <2>6. k - a \in 1..(b - a) /\ (k - a) + a = k
    BY <1>2, <2>5
  <2>7. columns[k - a] = c
    BY <1>13, <2>2, <2>4, <2>6
  <2> QED
    BY <1>13, <2>6, <2>7 DEF Range
<1> QED
  BY <1>15, <1>16, <1>17 DEF n, columns

LEMMA AppendedRanges ==
    ASSUME NEW D
    PROVE  \A p \in Seq(D), x \in D : Range(Append(p, x)) = Range(p) \cup {x}
BY AppendFacts

LEMMA LowerColumnsPicked ==
    ASSUME NEW n \in Nat, NEW m, NEW o, NEW row \in 1..n,
           PermutedColumns(m, o, row) \in Seq(1..n)
    PROVE  /\ LowerColumns(m, o, row) \in Seq(1..n)
           /\ \A c : c \in Range(LowerColumns(m, o, row))
                         <=> c \in Range(PermutedColumns(m, o, row)) /\ c < row
<1> DEFINE E == 1..n
           V == Seq(1..n)
           s == PermutedColumns(m, o, row)
           first == <<>>
           next(x, e) == IF e < row THEN Append(x, e) ELSE x
<1>1. s \in Seq(E)
  OBVIOUS
<1>2. first \in V
  OBVIOUS
<1>3. \A x \in V, e \in E : next(x, e) \in V
  <2>1. \A x \in V, e \in E : Append(x, e) \in V
    OBVIOUS
  <2> HIDE DEF V
  <2> QED
    BY <2>1
<1>4. LowerColumns(m, o, row) = Through(s, first, LAMBDA x, e : next(x, e))
  BY DEF LowerColumns, PermutedColumns, Filtered, Through
<1> DEFINE step == [xe \in V \X E |-> next(xe[1], xe[2])]
           Body(h) == [k \in 0..Len(s) |-> IF k = 0 THEN first
                                           ELSE next(h[k - 1], s[k])]
           g == CHOOSE h : h = Body(h)
<1> HIDE DEF E, V, s, first, next
<1>5. \A x \in V, e \in E :
          <<x, e>> \in V \X E /\ step[<<x, e>>] = next(x, e)
  OBVIOUS
<1>6. IsStep(step, V, E)
  <2>1. \A xe \in V \X E : next(xe[1], xe[2]) \in V
    BY <1>3
  <2> QED
    BY <2>1 DEF IsStep
<1> HIDE DEF step
<1>7. g = Body(g)
  <2>1. PICK f \in [0..Len(s) -> V] : IsLoop(f, s, first, step)
    BY <1>1, <1>2, <1>6, LoopExists
  <2>2. \A k \in 0..Len(s) : k # 0 => f[k - 1] \in V /\ s[k] \in E
    <3>1. Len(s) \in Nat /\ \A k \in 1..Len(s) : s[k] \in E
      BY <1>1
    <3>2. \A k \in 0..Len(s) : k # 0 => k \in 1..Len(s) /\ k - 1 \in 0..Len(s)
      BY <3>1
    <3> QED
      BY <3>1, <3>2
  <2>3. \A k \in 0..Len(s) :
            (IF k = 0 THEN first ELSE step[<<f[k - 1], s[k]>>])
                = (IF k = 0 THEN first ELSE next(f[k - 1], s[k]))
    BY <1>5, <2>2
  <2>4. f = Body(f)
    BY <2>1, <2>3 DEF IsLoop
  <2> QED
    BY <2>4
<1>8. Through(s, first, LAMBDA x, e : next(x, e)) = g[Len(s)]
  BY DEF Through
<1> HIDE DEF g
<1>9. /\ g[0] = first /\ Len(s) \in Nat
      /\ \A k \in 1..Len(s) : g[k] = next(g[k - 1], s[k]) /\ s[k] \in E
  <2>1. \A k \in 1..Len(s) : s[k] \in E /\ k \in 0..Len(s) /\ k # 0
    BY <1>1
  <2>2. 0 \in 0..Len(s) /\ Len(s) \in Nat
    BY <1>1
  <2> HIDE DEF Body
  <2>3. \A k \in 0..Len(s) : Body(g)[k] = IF k = 0 THEN first
                                        ELSE next(g[k - 1], s[k])
    BY DEF Body
  <2> QED
    BY <1>7, <2>1, <2>2, <2>3
<1>10. \A k \in 0..Len(s) : g[k] \in V
  <2> DEFINE S == {k \in 0..Len(s) : g[k] \in V}
  <2>1. 0 \in S
    BY <1>2, <1>9
  <2>2. ASSUME NEW k \in 1..Len(s), k - 1 \in S PROVE k \in S
    <3>1. g[k] = next(g[k - 1], s[k]) /\ s[k] \in E /\ g[k - 1] \in V
      BY <1>9, <2>2
    <3>2. next(g[k - 1], s[k]) \in V
      BY <1>3, <3>1
    <3>3. k \in 0..Len(s) /\ g[k] \in V
      BY <1>9, <3>1, <3>2
    <3> QED
      BY <3>3
  <2>3. 0..Len(s) \subseteq S
    <3> HIDE DEF S
    <3> QED
      BY <1>9, <2>1, <2>2, CountsUp
  <2> QED
    BY <2>3
<1>11. g \in [0..Len(s) -> V]
  BY <1>7, <1>10
<1>13. \A k \in 1..Len(s) :
           g[k] = IF s[k] < row THEN Append(g[k - 1], s[k]) ELSE g[k - 1]
  BY <1>9 DEF next
<1>14. \A k \in 0..Len(s) : g[k] \in Seq(1..n)
  BY <1>10 DEF V
<1>22. \A p \in Seq(E), x \in E : Range(Append(p, x)) = Range(p) \cup {x}
  BY AppendedRanges
<1> DEFINE Picked(j) == {s[i] : i \in {l \in 1..j : s[l] < row}}
           S == {j \in 0..Len(s) : Range(g[j]) = Picked(j)}
<1>15. 0 \in S
  <2>1. Range(g[0]) = {}
    BY <1>9 DEF first, Range
  <2>2. Picked(0) = {}
    OBVIOUS
  <2> QED
    BY <1>9, <2>1, <2>2
<1>16. ASSUME NEW k \in 1..Len(s), k - 1 \in S PROVE k \in S
  <2>1. /\ g[k - 1] \in Seq(1..n) /\ s[k] \in 1..n /\ k \in 0..Len(s)
        /\ Range(g[k - 1]) = Picked(k - 1)
    <3>1. k - 1 \in 0..Len(s) /\ k \in 0..Len(s)
      BY <1>9
    <3> QED
      BY <1>9, <1>14, <1>16, <3>1 DEF E
  <2>2. \A l \in 1..k : l = k \/ l \in 1..(k - 1)
    BY <1>9
  <2>3. (\A l \in 1..(k - 1) : l \in 1..k) /\ k \in 1..k
    BY <1>9
  <2>4. CASE s[k] < row
    <3>1. Picked(k) = Picked(k - 1) \cup {s[k]}
      BY <2>2, <2>3, <2>4
    <3> DEFINE p == g[k - 1]
    <3>2. g[k] = Append(p, s[k]) /\ p \in Seq(1..n)
      BY <1>13, <2>1, <2>4
    <3> HIDE DEF p
    <3>3. Range(Append(p, s[k])) = Range(p) \cup {s[k]}
      BY <1>22, <2>1, <3>2 DEF E
    <3> QED
      BY <2>1, <3>1, <3>2, <3>3 DEF p
  <2>5. CASE ~(s[k] < row)
    <3>1. Picked(k) = Picked(k - 1)
      BY <2>2, <2>3, <2>5
    <3>2. g[k] = g[k - 1]
      BY <1>13, <2>5
    <3> QED
      BY <2>1, <3>1, <3>2
  <2> QED
    BY <2>4, <2>5
<1>17. Len(s) \in S
  <2>1. 0..Len(s) \subseteq S
    <3> HIDE DEF S
    <3> QED
      BY <1>9, <1>15, <1>16, CountsUp
  <2>2. Len(s) \in 0..Len(s)
    BY <1>9
  <2> QED
    BY <2>1, <2>2
<1>18. Range(s) = {s[i] : i \in 1..Len(s)}
  BY <1>1 DEF Range
<1>19. \A c : c \in Picked(Len(s)) <=> c \in Range(s) /\ c < row
  BY <1>18
<1>20. LowerColumns(m, o, row) = g[Len(s)]
  BY <1>4, <1>8
<1>21. g[Len(s)] \in Seq(1..n)
  <2>1. Len(s) \in 0..Len(s)
    BY <1>9
  <2> QED
    BY <1>14, <2>1
<1> QED
  BY <1>17, <1>19, <1>20, <1>21 DEF s

LEMMA UpperColumnsPicked ==
    ASSUME NEW n \in Nat, NEW m, NEW o, NEW row \in 1..n,
           PermutedColumns(m, o, row) \in Seq(1..n)
    PROVE  /\ UpperColumns(m, o, row) \in Seq(1..n)
           /\ \A c : c \in Range(UpperColumns(m, o, row))
                         <=> c \in Range(PermutedColumns(m, o, row)) /\ c > row
<1> DEFINE E == 1..n
           V == Seq(1..n)
           s == PermutedColumns(m, o, row)
           first == <<>>
           next(x, e) == IF e > row THEN Append(x, e) ELSE x
<1>1. s \in Seq(E)
  OBVIOUS
<1>2. first \in V
  OBVIOUS
<1>3. \A x \in V, e \in E : next(x, e) \in V
  <2>1. \A x \in V, e \in E : Append(x, e) \in V
    OBVIOUS
  <2> HIDE DEF V
  <2> QED
    BY <2>1
<1>4. UpperColumns(m, o, row) = Through(s, first, LAMBDA x, e : next(x, e))
  BY DEF UpperColumns, PermutedColumns, Filtered, Through
<1> DEFINE step == [xe \in V \X E |-> next(xe[1], xe[2])]
           Body(h) == [k \in 0..Len(s) |-> IF k = 0 THEN first
                                           ELSE next(h[k - 1], s[k])]
           g == CHOOSE h : h = Body(h)
<1> HIDE DEF E, V, s, first, next
<1>5. \A x \in V, e \in E :
          <<x, e>> \in V \X E /\ step[<<x, e>>] = next(x, e)
  OBVIOUS
<1>6. IsStep(step, V, E)
  <2>1. \A xe \in V \X E : next(xe[1], xe[2]) \in V
    BY <1>3
  <2> QED
    BY <2>1 DEF IsStep
<1> HIDE DEF step
<1>7. g = Body(g)
  <2>1. PICK f \in [0..Len(s) -> V] : IsLoop(f, s, first, step)
    BY <1>1, <1>2, <1>6, LoopExists
  <2>2. \A k \in 0..Len(s) : k # 0 => f[k - 1] \in V /\ s[k] \in E
    <3>1. Len(s) \in Nat /\ \A k \in 1..Len(s) : s[k] \in E
      BY <1>1
    <3>2. \A k \in 0..Len(s) : k # 0 => k \in 1..Len(s) /\ k - 1 \in 0..Len(s)
      BY <3>1
    <3> QED
      BY <3>1, <3>2
  <2>3. \A k \in 0..Len(s) :
            (IF k = 0 THEN first ELSE step[<<f[k - 1], s[k]>>])
                = (IF k = 0 THEN first ELSE next(f[k - 1], s[k]))
    BY <1>5, <2>2
  <2>4. f = Body(f)
    BY <2>1, <2>3 DEF IsLoop
  <2> QED
    BY <2>4
<1>8. Through(s, first, LAMBDA x, e : next(x, e)) = g[Len(s)]
  BY DEF Through
<1> HIDE DEF g
<1>9. /\ g[0] = first /\ Len(s) \in Nat
      /\ \A k \in 1..Len(s) : g[k] = next(g[k - 1], s[k]) /\ s[k] \in E
  <2>1. \A k \in 1..Len(s) : s[k] \in E /\ k \in 0..Len(s) /\ k # 0
    BY <1>1
  <2>2. 0 \in 0..Len(s) /\ Len(s) \in Nat
    BY <1>1
  <2> HIDE DEF Body
  <2>3. \A k \in 0..Len(s) : Body(g)[k] = IF k = 0 THEN first
                                        ELSE next(g[k - 1], s[k])
    BY DEF Body
  <2> QED
    BY <1>7, <2>1, <2>2, <2>3
<1>10. \A k \in 0..Len(s) : g[k] \in V
  <2> DEFINE S == {k \in 0..Len(s) : g[k] \in V}
  <2>1. 0 \in S
    BY <1>2, <1>9
  <2>2. ASSUME NEW k \in 1..Len(s), k - 1 \in S PROVE k \in S
    <3>1. g[k] = next(g[k - 1], s[k]) /\ s[k] \in E /\ g[k - 1] \in V
      BY <1>9, <2>2
    <3>2. next(g[k - 1], s[k]) \in V
      BY <1>3, <3>1
    <3>3. k \in 0..Len(s) /\ g[k] \in V
      BY <1>9, <3>1, <3>2
    <3> QED
      BY <3>3
  <2>3. 0..Len(s) \subseteq S
    <3> HIDE DEF S
    <3> QED
      BY <1>9, <2>1, <2>2, CountsUp
  <2> QED
    BY <2>3
<1>11. g \in [0..Len(s) -> V]
  BY <1>7, <1>10
<1>13. \A k \in 1..Len(s) :
           g[k] = IF s[k] > row THEN Append(g[k - 1], s[k]) ELSE g[k - 1]
  BY <1>9 DEF next
<1>14. \A k \in 0..Len(s) : g[k] \in Seq(1..n)
  BY <1>10 DEF V
<1>22. \A p \in Seq(E), x \in E : Range(Append(p, x)) = Range(p) \cup {x}
  BY AppendedRanges
<1> DEFINE Picked(j) == {s[i] : i \in {l \in 1..j : s[l] > row}}
           S == {j \in 0..Len(s) : Range(g[j]) = Picked(j)}
<1>15. 0 \in S
  <2>1. Range(g[0]) = {}
    BY <1>9 DEF first, Range
  <2>2. Picked(0) = {}
    OBVIOUS
  <2> QED
    BY <1>9, <2>1, <2>2
<1>16. ASSUME NEW k \in 1..Len(s), k - 1 \in S PROVE k \in S
  <2>1. /\ g[k - 1] \in Seq(1..n) /\ s[k] \in 1..n /\ k \in 0..Len(s)
        /\ Range(g[k - 1]) = Picked(k - 1)
    <3>1. k - 1 \in 0..Len(s) /\ k \in 0..Len(s)
      BY <1>9
    <3> QED
      BY <1>9, <1>14, <1>16, <3>1 DEF E
  <2>2. \A l \in 1..k : l = k \/ l \in 1..(k - 1)
    BY <1>9
  <2>3. (\A l \in 1..(k - 1) : l \in 1..k) /\ k \in 1..k
    BY <1>9
  <2>4. CASE s[k] > row
    <3>1. Picked(k) = Picked(k - 1) \cup {s[k]}
      BY <2>2, <2>3, <2>4
    <3> DEFINE p == g[k - 1]
    <3>2. g[k] = Append(p, s[k]) /\ p \in Seq(1..n)
      BY <1>13, <2>1, <2>4
    <3> HIDE DEF p
    <3>3. Range(Append(p, s[k])) = Range(p) \cup {s[k]}
      BY <1>22, <2>1, <3>2 DEF E
    <3> QED
      BY <2>1, <3>1, <3>2, <3>3 DEF p
  <2>5. CASE ~(s[k] > row)
    <3>1. Picked(k) = Picked(k - 1)
      BY <2>2, <2>3, <2>5
    <3>2. g[k] = g[k - 1]
      BY <1>13, <2>5
    <3> QED
      BY <2>1, <3>1, <3>2
  <2> QED
    BY <2>4, <2>5
<1>17. Len(s) \in S
  <2>1. 0..Len(s) \subseteq S
    <3> HIDE DEF S
    <3> QED
      BY <1>9, <1>15, <1>16, CountsUp
  <2>2. Len(s) \in 0..Len(s)
    BY <1>9
  <2> QED
    BY <2>1, <2>2
<1>18. Range(s) = {s[i] : i \in 1..Len(s)}
  BY <1>1 DEF Range
<1>19. \A c : c \in Picked(Len(s)) <=> c \in Range(s) /\ c > row
  BY <1>18
<1>20. UpperColumns(m, o, row) = g[Len(s)]
  BY <1>4, <1>8
<1>21. g[Len(s)] \in Seq(1..n)
  <2>1. Len(s) \in 0..Len(s)
    BY <1>9
  <2> QED
    BY <1>14, <2>1
<1> QED
  BY <1>17, <1>19, <1>20, <1>21 DEF s

-----------------------------------------------------------------------------
(***************************************************************************)
(* The sequential analysis.                                                *)
(***************************************************************************)
\* The columns before and after a row, as the fill starts from them.
LEMMA ColumnsOfRows ==
    ASSUME NEW m, IsCoordinateMatrix(m), Symmetric(m), NEW o,
           IsOrdering(o, m.rows), NEW own,
           \A j \in 1..m.rows :
               own[j] = {i \in 1..m.rows : i > j /\ <<i, j>> \in Entered(m, o)}
    PROVE  /\ HasUppers(m, o, own, m.rows)
           /\ \A row \in 1..m.rows :
                  /\ LowerColumns(m, o, row) \in Seq(1..m.rows)
                  /\ \A c \in 1..m.rows :
                         c \in Range(LowerColumns(m, o, row)) <=> row \in own[c]
<1> DEFINE n == m.rows
           all(row) == PermutedColumns(m, o, row)
           lower(row) == LowerColumns(m, o, row)
           upper(row) == UpperColumns(m, o, row)
           E == Entered(m, o)
<1>1. n \in Nat
  BY DEF IsCoordinateMatrix
<1>2. Undoes(o, n)
  BY <1>1, OrderingUndoes
<1>3. \A i, j \in 1..n : <<i, j>> \in E => <<j, i>> \in E
  BY <1>2, EnteredInside
<1>4. ASSUME NEW row \in 1..n
      PROVE  /\ all(row) \in Seq(1..n)
             /\ \A c \in 1..n : c \in Range(all(row)) <=> <<row, c>> \in E
  BY <1>2, PermutedColumnsFit
<1>5. ASSUME NEW row \in 1..n
      PROVE  /\ lower(row) \in Seq(1..n)
             /\ \A c : c \in Range(lower(row)) <=> c \in Range(all(row)) /\ c < row
  BY <1>1, <1>4, LowerColumnsPicked
<1>6. ASSUME NEW row \in 1..n
      PROVE  /\ upper(row) \in Seq(1..n)
             /\ \A c : c \in Range(upper(row)) <=> c \in Range(all(row)) /\ c > row
  BY <1>1, <1>4, UpperColumnsPicked
<1>7. \A s \in Seq(1..n) : Range(s) \subseteq 1..n
  <2>1. ASSUME NEW D, NEW s \in Seq(D) PROVE Range(s) \subseteq D
    <3>1. DOMAIN s = 1..Len(s) /\ \A k \in 1..Len(s) : s[k] \in D
      OBVIOUS
    <3> QED
      BY <3>1 DEF Range
  <2> QED
    BY <2>1
<1>8. ASSUME NEW row \in 1..n PROVE Range(all(row)) \subseteq 1..n
  BY <1>4, <1>7
<1> HIDE DEF all, lower, upper, E
<1>9. ASSUME NEW row \in 1..n
      PROVE  \A c : c \in Range(upper(row)) <=> c \in own[row]
  <2>1. own[row] = {i \in 1..n : i > row /\ <<i, row>> \in E}
    BY DEF E
  <2> HIDE DEF n
  <2> QED
    BY <1>3, <1>4, <1>6, <1>8, <2>1
<1>10. HasUppers(m, o, own, n)
  BY <1>6, <1>9 DEF HasUppers, upper
<1>11. ASSUME NEW row \in 1..n, NEW c \in 1..n
       PROVE  c \in Range(lower(row)) <=> row \in own[c]
  <2>1. own[c] = {i \in 1..n : i > c /\ <<i, c>> \in E}
    BY DEF E
  <2>2. c < row <=> row > c
    BY <1>1
  <2> HIDE DEF n
  <2> QED
    BY <1>4, <1>5, <2>1, <2>2
<1> QED
  BY <1>5, <1>10, <1>11 DEF lower

\* It gives every column its parent and its degree.
LEMMA SequentialForest ==
    ASSUME NEW m, IsCoordinateMatrix(m), Symmetric(m), NEW o,
           IsOrdering(o, m.rows)
    PROVE  LET found == EliminationForestAndDegrees(m, o)
               rows(j) == RowsIn(Filled(m, o), j)
           IN  /\ found.parents \in [1..m.rows -> 0..m.rows]
               /\ found.degrees \in [1..m.rows -> Nat]
               /\ \A j \in 1..m.rows :
                      /\ found.degrees[j] = Cardinality(rows(j))
                      /\ found.parents[j] =
                             IF rows(j) = {} THEN None ELSE Min(rows(j))
<1> DEFINE n == m.rows
           own == [j \in 1..n |-> {i \in 1..n :
                      i > j /\ <<i, j>> \in Entered(m, o)}]
           F == [j \in 1..n |-> RowsIn(Filled(m, o), j)]
           tree == ForestOf(F, n)
           q == PostorderFromEliminationForest(tree)
           d == DegreesFromEliminationForest(m, o, tree, q)
           found == EliminationForestAndDegrees(m, o)
<1>1. n \in Nat
  BY DEF IsCoordinateMatrix
<1>2. Undoes(o, n)
  BY <1>1, OrderingUndoes
<1>3. Entered(m, o) \subseteq (1..n) \X (1..n)
  BY <1>2, EnteredInside
<1>4. \A j \in 1..n : own[j] = {i \in 1..n : i > j /\ <<i, j>> \in Entered(m, o)}
  OBVIOUS
<1>5. \A j \in 1..n : F[j] = RowsIn(Filled(m, o), j)
  OBVIOUS
<1>6. IsFill(F, own, n)
  BY <1>1, <1>3, FilledIsFill
<1> HIDE DEF own, F
<1>7. /\ HasUppers(m, o, own, n)
      /\ \A row \in 1..n :
             /\ LowerColumns(m, o, row) \in Seq(1..n)
             /\ \A c \in 1..n :
                    c \in Range(LowerColumns(m, o, row)) <=> row \in own[c]
  BY <1>4, ColumnsOfRows
<1>8. EliminationForest(m, o) = tree
  BY <1>1, <1>6, <1>7, EliminationForestFits
<1>9. found = [parents |-> tree, degrees |-> d]
  BY <1>8 DEF EliminationForestAndDegrees
<1>10. d \in [1..n -> Nat] /\ \A j \in 1..n : d[j] = Cardinality(F[j])
  BY <1>1, <1>6, <1>7, DegreesFit
<1>11. tree \in [1..n -> 0..n]
  BY <1>1, <1>6, ForestClimbs DEF Climbs
<1>12. \A j \in 1..n : tree[j] = IF F[j] = {} THEN None ELSE Min(F[j])
  BY DEF ForestOf
<1> HIDE DEF d, tree
<1>13. found.parents = tree /\ found.degrees = d
  BY <1>9
<1> HIDE DEF found
<1>14. /\ found.parents \in [1..n -> 0..n] /\ found.degrees \in [1..n -> Nat]
       /\ \A j \in 1..n :
              /\ found.degrees[j] = Cardinality(F[j])
              /\ found.parents[j] = IF F[j] = {} THEN None ELSE Min(F[j])
  BY <1>10, <1>11, <1>12, <1>13
<1> QED
  BY <1>5, <1>14 DEF found
-----------------------------------------------------------------------------
(***************************************************************************)
(* The forest and the degrees without compressed paths.                    *)
(***************************************************************************)
\* What an entry changes.
SimpleEdge(s, row, column) ==
    LET path == Path(s.parents, column, s.marked \cup {None})
    IN  [marked |-> s.marked \cup Range(path),
         parents |-> <<>> \o [i \in DOMAIN s.parents |->
             IF i \in Range(path) /\ s.parents[i] = None
             THEN row ELSE s.parents[i]],
         degrees |-> <<>> \o [i \in DOMAIN s.degrees |->
             s.degrees[i] + (IF i \in Range(path) THEN 1 ELSE 0)]]
SimpleRow(s, row, columns) ==
    Through(columns, [s EXCEPT !.marked = {row}],
            LAMBDA t, column : SimpleEdge(t, row, column))

\* In the middle of a row that has met the columns in met.
Upwards(F, n, row, met) ==
    [j \in 1..n |->
        IF \/ ForestOf(F, n)[j] # None /\ ForestOf(F, n)[j] < row
           \/ ForestOf(F, n)[j] = row /\ j \in met
        THEN ForestOf(F, n)[j] ELSE None]
Counted(F, n, row, met) ==
    [j \in 1..n |-> Cardinality({i \in F[j] : i < row})
                        + (IF j \in met THEN 1 ELSE 0)]
Amid(F, n, row, met) ==
    [marked |-> met \cup {row}, parents |-> Upwards(F, n, row, met),
     degrees |-> Counted(F, n, row, met)]

\* What is met has the row, and what is above it below the row is met too.
IsMet(met, F, n, row) ==
    \A j \in met : /\ j \in 1..n /\ row \in F[j]
                   /\ ForestOf(F, n)[j] = row \/ ForestOf(F, n)[j] \in met
Leads(line, c, row) == {j \in line[c] : j < row}

LEMMA UpwardsClimb ==
    ASSUME NEW n \in Nat, NEW F, NEW own, IsFill(F, own, n), NEW row, NEW met
    PROVE  Climbs(Upwards(F, n, row, met), n)
<1>1. Climbs(ForestOf(F, n), n)
  BY ForestClimbs
<1>2. \A j \in 1..n : Upwards(F, n, row, met)[j] \in {None, ForestOf(F, n)[j]}
  BY DEF Upwards
<1>3. None \in 0..n
  BY DEF None
<1>4. \A j \in 1..n : Upwards(F, n, row, met)[j] \in 0..n
  BY <1>1, <1>2, <1>3 DEF Climbs
<1>5. Upwards(F, n, row, met) \in [1..n -> 0..n]
  BY <1>4 DEF Upwards
<1> QED
  BY <1>1, <1>2, <1>5 DEF Climbs

\* The way up from a column that the row has meets all below the row that is
\* not met yet.
LEMMA WayUp ==
    ASSUME NEW n \in Nat, NEW F, NEW own, IsFill(F, own, n),
           NEW line, AreLines(line, ForestOf(F, n), n),
           NEW row \in 1..n, NEW met, IsMet(met, F, n, row),
           NEW c \in 1..n, row \in own[c]
    PROVE  /\ Range(Path(Upwards(F, n, row, met), c, (met \cup {row}) \cup {None}))
                  = Leads(line, c, row) \ met
           /\ IsMet(met \cup Leads(line, c, row), F, n, row)
<1> DEFINE tree == ForestOf(F, n)
           up == Upwards(F, n, row, met)
           stops == (met \cup {row}) \cup {None}
           R == Range(Path(up, c, stops))
           A == Leads(line, c, row)
<1>1. /\ Climbs(up, n) /\ None \in stops /\ c \in 0..n
  BY UpwardsClimb
<1>2. /\ R \subseteq 1..n /\ R \cap stops = {}
      /\ c \notin stops => c \in R
      /\ \A k \in R : up[k] \in R \cup stops
      /\ \A T : c \in T
             /\ (\A k \in T : k \in 1..n /\ k \notin stops => up[k] \in T)
                 => R \subseteq T
  BY <1>1, PathFacts
<1>3. /\ Climbs(tree, n)
      /\ \A j \in 1..n : \A i \in F[j] :
             tree[j] # None /\ tree[j] <= i /\ i \in 1..n /\ i > j
  BY ForestClimbs
<1>4. \A j \in 1..n : tree[j] = None \/ (tree[j] \in 1..n /\ tree[j] > j)
  BY <1>3 DEF Climbs, None
<1>5. /\ \A j \in 1..n : j \in line[j] /\ line[j] \subseteq j..n
      /\ \A j \in 1..n : \A i \in line[j] : line[i] \subseteq line[j]
  BY LinesClimb, LinesPass
<1>6. row \in F[c] /\ c < row
  BY <1>3 DEF IsFill
<1>7. \A j \in 1..n : up[j] = IF \/ tree[j] # None /\ tree[j] < row
                                 \/ tree[j] = row /\ j \in met
                              THEN tree[j] ELSE None
  BY DEF Upwards
<1> HIDE DEF R, up
<1>8. \A j \in A : j \in 1..n /\ row \in F[j] /\ tree[j] # None /\ tree[j] <= row
                   /\ tree[j] \in line[c]
  <2> TAKE j \in A
  <2>1. j \in line[c] /\ j < row /\ j \in 1..n
    BY <1>5 DEF Leads
  <2>2. row \in F[j]
    BY <1>6, <2>1, FillGoesUp
  <2>3. tree[j] # None /\ tree[j] <= row
    BY <1>3, <2>1, <2>2
  <2>4. tree[j] \in line[j]
    BY <1>4, <1>5, <2>1, <2>3 DEF AreLines
  <2> QED
    BY <1>5, <2>1, <2>2, <2>3, <2>4
<1>9. \A j \in A : tree[j] = row \/ tree[j] \in A
  BY <1>4, <1>8 DEF Leads
<1>10. \A j \in met : j \in 1..n /\ row \in F[j] /\ j < row
                      /\ (tree[j] = row \/ tree[j] \in met)
  BY <1>3 DEF IsMet
<1>11. R \subseteq A \cup stops
  <2> DEFINE T == A \cup stops
  <2>1. c \in T
    BY <1>5, <1>6 DEF Leads
  <2>2. ASSUME NEW k \in T, k \in 1..n, k \notin stops PROVE up[k] \in T
    <3>1. k \in A /\ k \notin met
      BY <2>2
    <3>2. CASE tree[k] = row
      <4>1. up[k] = None
        BY <1>7, <2>2, <3>1, <3>2
      <4> QED
        BY <4>1
    <3>3. CASE tree[k] # row
      <4>1. up[k] = tree[k]
        BY <1>4, <1>7, <1>8, <2>2, <3>1, <3>3
      <4> QED
        BY <1>9, <3>1, <3>3, <4>1
    <3> QED
      BY <3>2, <3>3
  <2> HIDE DEF T
  <2>3. R \subseteq T
    BY <1>2, <2>1, <2>2
  <2> QED
    BY <2>3 DEF T
<1>12. A \subseteq R \cup met
  <2> DEFINE U == R \cup met \cup (row..n)
  <2>1. ASSUME NEW x \in U PROVE x \in 1..n /\ (tree[x] = None \/ tree[x] \in U)
    <3>1. CASE x \in R
      <4>1. x \in A /\ x \notin met /\ x \in 1..n /\ x \notin stops
        BY <1>2, <1>11, <3>1
      <4>2. CASE tree[x] = row
        BY <4>1, <4>2
      <4>3. CASE tree[x] # row
        <5>1. up[x] = tree[x] /\ tree[x] # None
          BY <1>4, <1>7, <1>8, <4>1, <4>3
        <5>2. tree[x] \in R \cup stops
          BY <1>2, <3>1, <5>1
        <5> QED
          BY <4>1, <5>1, <5>2
      <4> QED
        BY <4>2, <4>3
    <3>2. CASE x \in met
      BY <1>10, <3>2
    <3>3. CASE x \in row..n
      BY <1>4, <3>3
    <3> QED
      BY <3>1, <3>2, <3>3
  <2>2. c \in U
    BY <1>2, <1>6 DEF None
  <2> HIDE DEF U
  <2>3. line[c] \subseteq U
    BY <2>1, <2>2, LineWithin
  <2> QED
    BY <2>3 DEF U, Leads
<1>13. R = A \ met
  <2>1. row \notin A /\ None \notin A
    BY <1>8 DEF Leads, None
  <2> QED
    BY <1>2, <1>11, <1>12
<1>14. IsMet(met \cup A, F, n, row)
  BY <1>8, <1>9, <1>10 DEF IsMet
<1> QED
  BY <1>13, <1>14 DEF R, up

\* An entry of the row.
LEMMA SimpleEdgeFits ==
    ASSUME NEW n \in Nat, NEW F, NEW own, IsFill(F, own, n),
           NEW line, AreLines(line, ForestOf(F, n), n),
           NEW row \in 1..n, NEW met, IsMet(met, F, n, row),
           NEW c \in 1..n, row \in own[c]
    PROVE  SimpleEdge(Amid(F, n, row, met), row, c)
               = Amid(F, n, row, met \cup Leads(line, c, row))
<1> DEFINE tree == ForestOf(F, n)
           A == Leads(line, c, row)
           s == Amid(F, n, row, met)
           t == Amid(F, n, row, met \cup A)
           R == Range(Path(s.parents, c, s.marked \cup {None}))
           ps == [i \in 1..n |-> IF i \in R /\ s.parents[i] = None
                                 THEN row ELSE s.parents[i]]
           ds == [i \in 1..n |-> s.degrees[i] + (IF i \in R THEN 1 ELSE 0)]
<1>1. /\ s.parents = Upwards(F, n, row, met) /\ s.marked = met \cup {row}
      /\ s.degrees = Counted(F, n, row, met)
      /\ DOMAIN s.parents = 1..n /\ DOMAIN s.degrees = 1..n
  BY DEF Amid, Upwards, Counted
<1>2. R = A \ met /\ IsMet(met \cup A, F, n, row)
  <2>1. R = Range(Path(Upwards(F, n, row, met), c,
                       (met \cup {row}) \cup {None}))
    <3> HIDE DEF s
    <3> QED
      BY <1>1
  <2> HIDE DEF s, R, A
  <2>2. /\ Range(Path(Upwards(F, n, row, met), c, (met \cup {row}) \cup {None}))
               = A \ met
        /\ IsMet(met \cup A, F, n, row)
    BY WayUp DEF A
  <2> QED
    BY <2>1, <2>2
<1>3. SimpleEdge(s, row, c)
          = [marked |-> s.marked \cup R, parents |-> <<>> \o ps,
             degrees |-> <<>> \o ds]
  BY <1>1 DEF SimpleEdge
<1>4. <<>> \o ps = ps /\ <<>> \o ds = ds
  <2>1. ps = [i \in 1..n |-> ps[i]] /\ ds = [i \in 1..n |-> ds[i]]
    OBVIOUS
  <2> HIDE DEF ps, ds
  <2> QED
    BY <2>1, WrittenDown
<1> HIDE DEF R, s
<1>5. s.marked \cup R = (met \cup A) \cup {row}
  BY <1>1, <1>2
<1>6. ps = Upwards(F, n, row, met \cup A)
  <2>1. ASSUME NEW j \in 1..n PROVE ps[j] = Upwards(F, n, row, met \cup A)[j]
    <3>1. s.parents[j] = IF \/ tree[j] # None /\ tree[j] < row
                            \/ tree[j] = row /\ j \in met
                         THEN tree[j] ELSE None
      BY <1>1 DEF Upwards
    <3>2. Upwards(F, n, row, met \cup A)[j]
              = IF \/ tree[j] # None /\ tree[j] < row
                   \/ tree[j] = row /\ j \in met \cup A
                THEN tree[j] ELSE None
      BY DEF Upwards
    <3>3. ps[j] = IF j \in R /\ s.parents[j] = None THEN row ELSE s.parents[j]
      OBVIOUS
    <3>4. j \in A => row \in F[j]
      BY <1>2 DEF IsMet
    <3>5. j \in A => tree[j] # None /\ tree[j] <= row /\ tree[j] \in 1..n
      BY <3>4, ForestClimbs DEF Climbs, None
    <3>6. row # None
      BY DEF None
    <3> HIDE DEF ps, tree, A
    <3>7. CASE j \in A \ met
      BY <1>2, <3>1, <3>2, <3>3, <3>5, <3>6, <3>7
    <3>8. CASE j \notin A \ met
      BY <1>2, <3>1, <3>2, <3>3, <3>8
    <3> QED
      BY <3>7, <3>8
  <2> QED
    BY <2>1 DEF Upwards
<1>7. ds = Counted(F, n, row, met \cup A)
  <2>1. ASSUME NEW j \in 1..n PROVE ds[j] = Counted(F, n, row, met \cup A)[j]
    <3> DEFINE before == Cardinality({i \in F[j] : i < row})
    <3>1. ds[j] = s.degrees[j] + (IF j \in R THEN 1 ELSE 0)
      OBVIOUS
    <3>2. s.degrees[j] = before + (IF j \in met THEN 1 ELSE 0)
      BY <1>1 DEF Counted
    <3>3. Counted(F, n, row, met \cup A)[j]
              = before + (IF j \in met \cup A THEN 1 ELSE 0)
      BY DEF Counted
    <3>4. before \in Nat
      <4>1. IsFiniteSet(1..n) /\ {i \in F[j] : i < row} \subseteq 1..n
        BY FS_Interval DEF IsFill
      <4> QED
        BY <4>1, FS_Subset, FS_CardinalityType
    <3> HIDE DEF before, ds, A
    <3>5. CASE j \in met
      BY <1>2, <3>1, <3>2, <3>3, <3>4, <3>5
    <3>6. CASE j \notin met
      BY <1>2, <3>1, <3>2, <3>3, <3>4, <3>6
    <3> QED
      BY <3>5, <3>6
  <2> QED
    BY <2>1 DEF Counted
<1> HIDE DEF ps, ds, A
<1>8. SimpleEdge(s, row, c)
          = [marked |-> (met \cup A) \cup {row},
             parents |-> Upwards(F, n, row, met \cup A),
             degrees |-> Counted(F, n, row, met \cup A)]
  BY <1>3, <1>4, <1>5, <1>6, <1>7
<1> QED
  BY <1>2, <1>8 DEF Amid, s, A

\* At the start of a row no column is met.
RowBegun(s, row) == [s EXCEPT !.marked = {row}]

\* All entries of a row: the columns that it meets are those that have it.
Meets(F, n, row) == {j \in 1..n : row \in F[j]}
LEMMA SimpleRowFits ==
    ASSUME NEW n \in Nat, NEW F, NEW own, IsFill(F, own, n),
           NEW line, AreLines(line, ForestOf(F, n), n),
           NEW row \in 1..n, NEW columns \in Seq(1..n),
           \A c \in 1..n : c \in Range(columns) <=> row \in own[c],
           NEW before, RowBegun(before, row) = Amid(F, n, row, {})
    PROVE  SimpleRow(before, row, columns) = Amid(F, n, row, Meets(F, n, row))
<1>01. \A j \in 1..n, i \in 1..n :
           i \in F[j] <=> i > j /\ \E r \in 1..n : j \in line[r] /\ i \in own[r]
  BY RowSubtrees
<1>02. \A c \in 1..n : row \in own[c] <=>
                         \E l \in 1..Len(columns) : columns[l] = c
  BY DEF Range
<1>0. ASSUME NEW old, IsMet(old, F, n, row), NEW c \in 1..n, row \in own[c]
      PROVE  SimpleEdge(Amid(F, n, row, old), row, c)
                 = Amid(F, n, row, old \cup Leads(line, c, row))
  BY <1>0, SimpleEdgeFits
<1> DEFINE len == Len(columns)
           first == RowBegun(before, row)
           met(k) == {j \in 1..n : j < row /\ \E l \in 1..k : j \in line[columns[l]]}
           next(x, e) == SimpleEdge(x, row, e)
           Body(h) == [k \in 0..len |-> IF k = 0 THEN first
                                        ELSE next(h[k - 1], columns[k])]
           f == [k \in 0..len |-> Amid(F, n, row, met(k))]
           g == CHOOSE h : h = Body(h)
<1>1. /\ len \in Nat
      /\ \A k \in 1..len : columns[k] \in 1..n /\ row \in own[columns[k]]
  <2>1. \A k \in 1..len : columns[k] \in 1..n /\ columns[k] \in Range(columns)
    BY DEF Range
  <2> QED
    BY <2>1
<1>2. met(0) = {}
  OBVIOUS
<1>3. ASSUME NEW k \in 1..len
      PROVE  met(k) = met(k - 1) \cup Leads(line, columns[k], row)
  <2>1. \A l : l \in 1..k <=> l \in 1..(k - 1) \/ l = k
    BY <1>1
  <2>2. line[columns[k]] \subseteq 1..n
    <3>1. line[columns[k]] \subseteq columns[k]..n /\ columns[k] \in 1..n
      BY <1>1, LinesClimb
    <3> QED
      BY <3>1
  <2> QED
    BY <2>1, <2>2 DEF Leads
<1> HIDE DEF met
<1> DEFINE S == {k \in 0..len : IsMet(met(k), F, n, row)}
<1>4. 0..len \subseteq S
  <2>1. 0 \in S
    BY <1>1, <1>2 DEF IsMet
  <2>2. ASSUME NEW k \in 1..len, k - 1 \in S PROVE k \in S
    <3>1. IsMet(met(k - 1), F, n, row) /\ k \in 0..len
      BY <1>1, <2>2
    <3>2. columns[k] \in 1..n /\ row \in own[columns[k]]
      BY <1>1
    <3>3. IsMet(met(k - 1) \cup Leads(line, columns[k], row), F, n, row)
      BY <3>1, <3>2, WayUp
    <3>4. IsMet(met(k), F, n, row)
      <4>1. met(k) = met(k - 1) \cup Leads(line, columns[k], row)
        BY <1>3
      <4> QED
        BY <3>3, <4>1
    <3> QED
      BY <3>1, <3>4
  <2> HIDE DEF S
  <2> QED
    BY <1>1, <2>1, <2>2, CountsUp
<1>5. \A k \in 1..len :
          next(Amid(F, n, row, met(k - 1)), columns[k]) = Amid(F, n, row, met(k))
  <2> TAKE k \in 1..len
  <2>1. k - 1 \in 0..len
    BY <1>1
  <2>2. IsMet(met(k - 1), F, n, row)
    BY <1>4, <2>1
  <2>3. SimpleEdge(Amid(F, n, row, met(k - 1)), row, columns[k])
            = Amid(F, n, row, met(k - 1) \cup Leads(line, columns[k], row))
    <3>1. columns[k] \in 1..n /\ row \in own[columns[k]]
      BY <1>1
    <3> DEFINE c == columns[k]
               old == met(k - 1)
    <3>2. c \in 1..n /\ row \in own[c] /\ IsMet(old, F, n, row)
      BY <2>2, <3>1
    <3> HIDE DEF c, old, S
    <3>3. SimpleEdge(Amid(F, n, row, old), row, c)
              = Amid(F, n, row, old \cup Leads(line, c, row))
      BY <1>0, <3>2
    <3> QED
      BY <3>3 DEF c, old
  <2> QED
    BY <1>3, <2>3
<1>6. first = Amid(F, n, row, met(0))
  BY <1>2
<1> HIDE DEF next, first, len
<1>7. f = Body(f)
  <2>1. ASSUME NEW k \in 0..len PROVE f[k] = Body(f)[k]
    <3>1. CASE k = 0
      BY <1>6, <3>1
    <3>2. CASE k # 0
      <4>1. k \in 1..len /\ k - 1 \in 0..len
        BY <1>1, <3>2
      <4> QED
        BY <1>5, <3>2, <4>1
    <3> QED
      BY <3>1, <3>2
  <2> QED
    BY <2>1
<1>8. g = Body(g)
  <2> HIDE DEF f, Body
  <2> QED
    BY <1>7
<1>9. SimpleRow(before, row, columns) = g[len]
  BY DEF SimpleRow, Through, RowBegun, first, next, len
<1> HIDE DEF g
<1>10. /\ g[0] = first
       /\ \A k \in 1..len : g[k] = next(g[k - 1], columns[k])
  <2>1. \A k \in 0..len : Body(g)[k] = IF k = 0 THEN first
                                       ELSE next(g[k - 1], columns[k])
    OBVIOUS
  <2>2. 0 \in 0..len /\ \A k \in 1..len : k \in 0..len /\ k # 0
    BY <1>1
  <2> HIDE DEF Body
  <2> QED
    BY <1>8, <2>1, <2>2
<1> DEFINE T == {k \in 0..len : g[k] = Amid(F, n, row, met(k))}
<1>11. 0..len \subseteq T
  <2>1. 0 \in T
    BY <1>1, <1>6, <1>10
  <2>2. \A k \in 1..len : k - 1 \in T => k \in T
    BY <1>5, <1>10
  <2> HIDE DEF T
  <2> QED
    BY <1>1, <2>1, <2>2, CountsUp
<1>12. g[len] = Amid(F, n, row, met(len))
  BY <1>1, <1>11
<1>13. met(len) = Meets(F, n, row)
  <2>1. ASSUME NEW j \in 1..n PROVE j \in met(len) <=> row \in F[j]
    <3>1. row \in F[j] <=> row > j /\ \E c \in 1..n : j \in line[c] /\ row \in own[c]
      BY <1>01
    <3>2. \A c \in 1..n : row \in own[c] <=> \E l \in 1..len : columns[l] = c
      BY <1>02 DEF len
    <3> QED
      BY <1>1, <3>1, <3>2 DEF met
  <2>2. met(len) \subseteq 1..n
    BY DEF met
  <2> QED
    BY <2>1, <2>2 DEF Meets
<1> QED
  BY <1>9, <1>12, <1>13

\* Between two rows.
After(F, n, row) ==
    [marked |-> IF row = 0 THEN {} ELSE Meets(F, n, row) \cup {row},
     parents |-> Upwards(F, n, row + 1, {}),
     degrees |-> Counted(F, n, row + 1, {})]
LEMMA AfterRow ==
    ASSUME NEW n \in Nat, NEW F, NEW own, IsFill(F, own, n), NEW row \in 1..n
    PROVE  /\ RowBegun(After(F, n, row - 1), row) = Amid(F, n, row, {})
           /\ Amid(F, n, row, Meets(F, n, row)) = After(F, n, row)
<1>1. RowBegun(After(F, n, row - 1), row) = Amid(F, n, row, {})
  <2>1. (row - 1) + 1 = row
    OBVIOUS
  <2>2. {} \cup {row} = {row}
    OBVIOUS
  <2> QED
    BY <2>1, <2>2 DEF After, Amid, RowBegun
<1> DEFINE met == Meets(F, n, row)
           tree == ForestOf(F, n)
<1>2. /\ Climbs(tree, n) /\ row # None
      /\ \A j \in 1..n : F[j] = {} \/ tree[j] \in F[j]
      /\ \A j \in 1..n : \A i \in F[j] :
             tree[j] # None /\ tree[j] <= i /\ i \in 1..n /\ i > j
  BY ForestClimbs DEF None
<1>3. Upwards(F, n, row, met) = Upwards(F, n, row + 1, {})
  <2>1. ASSUME NEW j \in 1..n
        PROVE  Upwards(F, n, row, met)[j] = Upwards(F, n, row + 1, {})[j]
    <3>1. tree[j] \in 0..n
      BY <1>2 DEF Climbs
    <3>2. tree[j] = row => j \in met
      <4>1. tree[j] # None => F[j] # {}
        BY DEF ForestOf
      <4> QED
        BY <1>2, <4>1 DEF Meets
    <3>3. Upwards(F, n, row, met)[j] = IF \/ tree[j] # None /\ tree[j] < row
                                          \/ tree[j] = row /\ j \in met
                                       THEN tree[j] ELSE None
      BY DEF Upwards
    <3>4. Upwards(F, n, row + 1, {})[j]
              = IF tree[j] # None /\ tree[j] < row + 1 THEN tree[j] ELSE None
      BY DEF Upwards
    <3> HIDE DEF tree, met
    <3> QED
      BY <1>2, <3>1, <3>2, <3>3, <3>4
  <2> QED
    BY <2>1 DEF Upwards
<1>4. Counted(F, n, row, met) = Counted(F, n, row + 1, {})
  <2>1. ASSUME NEW j \in 1..n
        PROVE  Counted(F, n, row, met)[j] = Counted(F, n, row + 1, {})[j]
    <3> DEFINE old == {i \in F[j] : i < row}
               new == {i \in F[j] : i < row + 1}
    <3>1. /\ Counted(F, n, row, met)[j]
                 = Cardinality(old) + (IF j \in met THEN 1 ELSE 0)
          /\ Counted(F, n, row + 1, {})[j] = Cardinality(new) + 0
      BY DEF Counted
    <3>2. F[j] \subseteq 1..n
      BY DEF IsFill
    <3>3. IsFiniteSet(old) /\ Cardinality(old) \in Nat
      <4>1. IsFiniteSet(1..n) /\ old \subseteq 1..n
        BY <3>2, FS_Interval
      <4> QED
        BY <4>1, FS_Subset, FS_CardinalityType
    <3>4. CASE row \in F[j]
      <4>1. new = old \cup {row} /\ row \notin old
        BY <3>2, <3>4
      <4>2. Cardinality(new) = Cardinality(old) + 1
        BY <3>3, <4>1, FS_AddElement
      <4>3. j \in met
        BY <3>4 DEF Meets
      <4> HIDE DEF met, old, new
      <4> QED
        BY <3>1, <3>3, <4>2, <4>3
    <3>5. CASE row \notin F[j]
      <4>1. new = old
        BY <3>2, <3>5
      <4>2. j \notin met
        BY <3>5 DEF Meets
      <4> HIDE DEF met, old, new
      <4> QED
        BY <3>1, <3>3, <4>1, <4>2
    <3> QED
      BY <3>4, <3>5
  <2> QED
    BY <2>1 DEF Counted
<1>5. Amid(F, n, row, met) = After(F, n, row)
  <2>1. row # 0
    OBVIOUS
  <2> QED
    BY <1>3, <1>4, <2>1 DEF Amid, After
<1> QED
  BY <1>1, <1>5

\* All rows give every column its parent and the number of its rows.
LEMMA SimpleForestFits ==
    ASSUME NEW m, NEW o, m.rows \in Nat, NEW F, NEW own, IsFill(F, own, m.rows),
           \A row \in 1..m.rows :
               /\ LowerColumns(m, o, row) \in Seq(1..m.rows)
               /\ \A c \in 1..m.rows :
                      c \in Range(LowerColumns(m, o, row)) <=> row \in own[c]
    PROVE  SimpleEliminationForestAndDegrees(m, o)
               = [parents |-> ForestOf(F, m.rows),
                  degrees |-> [j \in 1..m.rows |-> Cardinality(F[j])]]
<1> DEFINE n == m.rows
           s == Indices(n)
           first == [parents |-> Constant(n, None), degrees |-> Constant(n, 0),
                     marked |-> {}]
           next(x, e) == SimpleRow(x, e, LowerColumns(m, o, e))
           Body(h) == [k \in 0..Len(s) |-> IF k = 0 THEN first
                                           ELSE next(h[k - 1], s[k])]
           f == [k \in 0..n |-> After(F, n, k)]
           g == CHOOSE h : h = Body(h)
<1>1. PICK line : AreLines(line, ForestOf(F, n), n)
  BY ForestClimbs, LinesOfClimbing
<1>2. Len(s) = n /\ \A k \in 1..n : s[k] = k
  BY IndicesFacts
<1>3. /\ Climbs(ForestOf(F, n), n)
      /\ \A j \in 1..n : F[j] \subseteq 1..n /\ \A i \in F[j] : i > j
  BY ForestClimbs DEF IsFill
<1>4. first = After(F, n, 0)
  <2>1. Upwards(F, n, 0 + 1, {}) = [j \in 1..n |-> None]
    <3>1. \A j \in 1..n : ~(ForestOf(F, n)[j] # None /\ ForestOf(F, n)[j] < 0 + 1)
      BY <1>3 DEF Climbs, None
    <3> QED
      BY <3>1 DEF Upwards
  <2>2. Counted(F, n, 0 + 1, {}) = [j \in 1..n |-> 0]
    <3>1. \A j \in 1..n : {i \in F[j] : i < 0 + 1} = {}
      BY <1>3
    <3>2. \A j \in 1..n : Cardinality({i \in F[j] : i < 0 + 1}) = 0
      BY <3>1, FS_EmptySet
    <3> QED
      BY <3>2 DEF Counted
  <2>3. Constant(n, None) = [j \in 1..n |-> None] /\ Constant(n, 0) = [j \in 1..n |-> 0]
    BY ConstantFacts
  <2> QED
    BY <2>1, <2>2, <2>3 DEF After
<1>5. \A k \in 1..n : next(After(F, n, k - 1), k) = After(F, n, k)
  <2> TAKE k \in 1..n
  <2>1. RowBegun(After(F, n, k - 1), k) = Amid(F, n, k, {})
    BY AfterRow
  <2>2. SimpleRow(After(F, n, k - 1), k, LowerColumns(m, o, k))
            = Amid(F, n, k, Meets(F, n, k))
    BY <1>1, <2>1, SimpleRowFits
  <2> QED
    BY <2>2, AfterRow
<1>6. SimpleEliminationForestAndDegrees(m, o)
          = [parents |-> g[Len(s)].parents, degrees |-> g[Len(s)].degrees]
  BY DEF SimpleEliminationForestAndDegrees, SimpleRow, SimpleEdge, Through
<1> HIDE DEF next, first, s
<1>7. f = Body(f)
  <2>1. ASSUME NEW k \in 0..n PROVE f[k] = Body(f)[k]
    <3>1. CASE k = 0
      BY <1>2, <1>4, <3>1
    <3>2. CASE k # 0
      <4>1. k \in 1..n /\ k - 1 \in 0..n
        BY <3>2
      <4> QED
        BY <1>2, <1>5, <3>2, <4>1
    <3> QED
      BY <3>1, <3>2
  <2> QED
    BY <1>2, <2>1
<1>8. g = Body(g)
  <2> HIDE DEF f, Body
  <2> QED
    BY <1>7
<1> HIDE DEF g
<1>9. /\ g[0] = first
      /\ \A k \in 1..n : g[k] = next(g[k - 1], k)
  <2>1. \A k \in 0..Len(s) : Body(g)[k] = IF k = 0 THEN first
                                          ELSE next(g[k - 1], s[k])
    OBVIOUS
  <2>2. 0 \in 0..n /\ \A k \in 1..n : k \in 0..n /\ k # 0
    OBVIOUS
  <2> HIDE DEF Body
  <2> QED
    BY <1>2, <1>8, <2>1, <2>2
<1> DEFINE T == {k \in 0..n : g[k] = After(F, n, k)}
<1>10. 0..n \subseteq T
  <2>1. 0 \in T
    BY <1>4, <1>9
  <2>2. \A k \in 1..n : k - 1 \in T => k \in T
    BY <1>5, <1>9
  <2> HIDE DEF T
  <2> QED
    BY <2>1, <2>2, CountsUp
<1>11. g[n] = After(F, n, n)
  BY <1>10
<1>12. Upwards(F, n, n + 1, {}) = ForestOf(F, n)
  <2>1. \A j \in 1..n : Upwards(F, n, n + 1, {})[j] = ForestOf(F, n)[j]
    BY <1>3 DEF Upwards, Climbs
  <2> QED
    BY <2>1 DEF Upwards, ForestOf
<1>13. Counted(F, n, n + 1, {}) = [j \in 1..n |-> Cardinality(F[j])]
  <2>1. \A j \in 1..n : {i \in F[j] : i < n + 1} = F[j]
    BY <1>3
  <2>2. \A j \in 1..n : Cardinality(F[j]) + 0 = Cardinality(F[j])
    <3>1. IsFiniteSet(1..n)
      BY FS_Interval
    <3>2. \A j \in 1..n : Cardinality(F[j]) \in Nat
      BY <1>3, <3>1, FS_Subset, FS_CardinalityType
    <3> QED
      BY <3>2
  <2> QED
    BY <2>1, <2>2 DEF Counted
<1>14. g[Len(s)].parents = ForestOf(F, n)
       /\ g[Len(s)].degrees = [j \in 1..n |-> Cardinality(F[j])]
  <2>1. g[Len(s)] = After(F, n, n)
    BY <1>2, <1>11
  <2>2. /\ After(F, n, n).parents = Upwards(F, n, n + 1, {})
        /\ After(F, n, n).degrees = Counted(F, n, n + 1, {})
    BY DEF After
  <2> HIDE DEF n
  <2> QED
    BY <1>12, <1>13, <2>1, <2>2
<1> QED
  BY <1>6, <1>14
-----------------------------------------------------------------------------
(***************************************************************************)
(* Fundamental supernodes.                                                 *)
(***************************************************************************)
\* In every fundamental supernode each column but the first is the parent of the
\* one before it and has one row less.
AllJoin(sizes, up, deg) ==
    \A t \in 1..Len(sizes) :
        \A j \in (OffsetScan(sizes)[t] + 2)..OffsetScan(sizes)[t + 1] :
            Joins(up, deg, j)
LEMMA FundamentalsJoin ==
    ASSUME NEW n \in Nat, NEW up, NEW deg, deg \in [1..n -> Nat]
    PROVE  AllJoin(FormFundamentalSupernodes(up, deg), up, deg)
<1>0. PICK g : AreJoined(g, up, deg, n)
  BY FundamentalsLoop
<1>1. /\ g[0] = <<>> /\ g[n] = FormFundamentalSupernodes(up, deg)
      /\ \A k \in 1..n : g[k] = SizesWith(up, deg, g[k - 1], k)
      /\ \A k \in 0..n :
             /\ g[k] \in Seq(Nat \ {0}) /\ (k > 0 => g[k] # <<>>)
             /\ Last(OffsetScan(g[k])) = k
  BY <1>0 DEF AreJoined
<1> DEFINE S == {k \in 0..n : AllJoin(g[k], up, deg)}
<1>2. 0 \in S
  BY <1>1 DEF AllJoin
<1>3. ASSUME NEW k \in 1..n, k - 1 \in S PROVE k \in S
  <2> DEFINE old == g[k - 1]
             new == g[k]
             m == Len(old)
             a == OffsetScan(old)
             b == OffsetScan(new)
  <2>1. /\ k - 1 \in 0..n /\ k \in 0..n
        /\ old \in Seq(Nat \ {0}) /\ new \in Seq(Nat \ {0})
        /\ new # <<>> /\ (k > 1 => old # <<>>)
        /\ Last(a) = k - 1 /\ Last(b) = k
        /\ new = SizesWith(up, deg, old, k)
    <3>1. k - 1 \in 0..n /\ k \in 0..n /\ k > 0 /\ (k > 1 => k - 1 > 0)
      OBVIOUS
    <3>2. /\ old \in Seq(Nat \ {0}) /\ (k - 1 > 0 => old # <<>>)
          /\ Last(a) = k - 1
      BY <1>1, <3>1
    <3>3. new \in Seq(Nat \ {0}) /\ (k > 0 => new # <<>>) /\ Last(b) = k
      BY <1>1, <3>1
    <3>4. new = SizesWith(up, deg, old, k)
      BY <1>1
    <3> HIDE DEF old, new, a, b
    <3> QED
      BY <3>1, <3>2, <3>3, <3>4
  <2>2. AllJoin(old, up, deg)
    BY <1>3
  <2>3. m \in Nat /\ Len(new) \in Nat /\ old \in Seq(Nat) /\ new \in Seq(Nat)
    BY <2>1
  <2> HIDE DEF old, new, S
  <2>4. a[m + 1] = k - 1
    BY <2>1, <2>3, OffsetScanFacts
  <2>5. b[Len(new) + 1] = k
    BY <2>1, <2>3, OffsetScanFacts
  <2>6. CASE k > 1 /\ Joins(up, deg, k)
    <3>1. /\ m # 0 /\ Len(new) = m
          /\ \A t \in 1..(m - 1) : new[t] = old[t]
      BY <2>1, <2>3, <2>6 DEF SizesWith
    <3>2. \A t \in 0..(m - 1) : b[t + 1] = a[t + 1]
      <4>1. m - 1 \in Nat /\ m - 1 <= Len(new) /\ m - 1 <= Len(old)
        BY <2>3, <3>1
      <4> QED
        BY <2>3, <3>1, <4>1, ScansAgree
    <3> HIDE DEF m, a, b
    <3>3. \A t \in 1..m : b[t] = a[t]
      <4>1. \A t \in 1..m : t - 1 \in 0..(m - 1) /\ (t - 1) + 1 = t
        BY <2>3
      <4> QED
        BY <3>2, <4>1
    <3>4. ASSUME NEW t \in 1..m, NEW j \in (b[t] + 2)..b[t + 1]
          PROVE  Joins(up, deg, j)
      <4>1. CASE t # m
        <5>1. t + 1 \in 1..m
          BY <2>3, <4>1
        <5>2. b[t] = a[t] /\ b[t + 1] = a[t + 1]
          BY <3>3, <5>1
        <5> QED
          BY <2>2, <3>4, <5>2 DEF AllJoin, a, m
      <4>2. CASE t = m
        <5>1. b[t] = a[t] /\ b[t + 1] = k /\ a[t + 1] = k - 1
          BY <2>4, <2>5, <3>1, <3>3, <4>2
        <5>2. CASE j = k
          BY <2>6, <5>2
        <5>3. CASE j # k
          <6>1. j \in (a[t] + 2)..a[t + 1]
            BY <3>4, <5>1, <5>3
          <6> QED
            BY <2>2, <6>1 DEF AllJoin, a, m
        <5> QED
          BY <5>2, <5>3
      <4> QED
        BY <4>1, <4>2
    <3>5. AllJoin(new, up, deg)
      BY <3>1, <3>4 DEF AllJoin, b
    <3> QED
      BY <2>1, <3>5 DEF S, new
  <2>7. CASE ~(k > 1 /\ Joins(up, deg, k))
    <3>1. /\ Len(new) = m + 1
          /\ \A t \in 1..m : new[t] = old[t]
      BY <2>1, <2>3, <2>7 DEF SizesWith
    <3>2. \A t \in 0..m : b[t + 1] = a[t + 1]
      <4>1. m <= Len(new) /\ m <= Len(old)
        BY <2>3, <3>1
      <4> QED
        BY <2>3, <3>1, <4>1, ScansAgree
    <3> HIDE DEF m, a, b
    <3>3. \A t \in 1..(m + 1) : b[t] = a[t]
      <4>1. \A t \in 1..(m + 1) : t - 1 \in 0..m /\ (t - 1) + 1 = t
        BY <2>3
      <4> QED
        BY <3>2, <4>1
    <3>4. ASSUME NEW t \in 1..(m + 1), NEW j \in (b[t] + 2)..b[t + 1]
          PROVE  Joins(up, deg, j)
      <4>1. CASE t # m + 1
        <5>1. t \in 1..m /\ t + 1 \in 1..(m + 1)
          BY <2>3, <4>1
        <5>2. b[t] = a[t] /\ b[t + 1] = a[t + 1]
          BY <3>3, <5>1
        <5> QED
          BY <2>2, <3>4, <5>1, <5>2 DEF AllJoin, a, m
      <4>2. CASE t = m + 1
        <5>1. b[t] = k - 1 /\ b[t + 1] = k
          BY <2>4, <2>5, <3>1, <3>3, <4>2
        <5> QED
          BY <3>4, <5>1
      <4> QED
        BY <4>1, <4>2
    <3>5. AllJoin(new, up, deg)
      BY <3>1, <3>4 DEF AllJoin, b
    <3> QED
      BY <2>1, <3>5 DEF S, new
  <2> QED
    BY <2>6, <2>7
<1> HIDE DEF S
<1>4. n \in S
  <2>1. 0..n \subseteq S
    BY <1>2, <1>3, CountsUp
  <2> QED
    BY <2>1
<1> QED
  BY <1>1, <1>4 DEF S

\* A column that joins is the first row of the one before it, which has its
\* other rows, too.
LEMMA JoinedRows ==
    ASSUME NEW n \in Nat, NEW F, NEW own, IsFill(F, own, n),
           NEW deg, \A j \in 1..n : deg[j] = Cardinality(F[j]),
           NEW j \in 2..n, Joins(ForestOf(F, n), deg, j)
    PROVE  F[j - 1] = {j} \cup F[j]
<1>1. j - 1 \in 1..n /\ j \in 1..n /\ j # None
  BY DEF None
<1>2. /\ ForestOf(F, n)[j - 1] = j
      /\ Cardinality(F[j]) = Cardinality(F[j - 1]) - 1
  BY <1>1 DEF Joins
<1>3. F[j - 1] # {}
  BY <1>1, <1>2 DEF ForestOf
<1>4. j \in F[j - 1] /\ \A i \in F[j - 1] : i >= j
  BY <1>1, <1>2, <1>3, ForestClimbs
<1> DEFINE rest == F[j - 1] \ {j}
<1>5. rest \subseteq F[j]
  <2>1. \A i \in rest : i > j
    BY <1>1, <1>4 DEF IsFill
  <2> QED
    BY <1>1, <1>4, <2>1 DEF IsFill
<1>6. /\ IsFiniteSet(F[j]) /\ IsFiniteSet(F[j - 1])
      /\ Cardinality(F[j - 1]) \in Nat
  <2>1. IsFiniteSet(1..n)
    BY FS_Interval
  <2>2. F[j] \subseteq 1..n /\ F[j - 1] \subseteq 1..n
    BY <1>1 DEF IsFill
  <2> QED
    BY <2>1, <2>2, FS_Subset, FS_CardinalityType
<1>7. Cardinality(rest) = Cardinality(F[j - 1]) - 1
  BY <1>4, <1>6, FS_RemoveElement
<1>8. rest = F[j]
  BY <1>2, <1>5, <1>6, <1>7, FS_Subset
<1> QED
  BY <1>4, <1>8

LEMMA FundamentalsFit ==
    ASSUME NEW n \in Nat, NEW F, NEW own, IsFill(F, own, n),
           NEW deg, deg = [j \in 1..n |-> Cardinality(F[j])],
           deg \in [1..n -> Nat], NEW up, up = ForestOf(F, n),
           NEW sizes, sizes = FormFundamentalSupernodes(up, deg),
           NEW starts, starts = OffsetScan(sizes)
    PROVE  /\ Last(starts) = n
           /\ \A s \in DOMAIN sizes :
                  \A j \in (starts[s] + 1)..starts[s + 1] :
                      /\ j \in 1..n /\ starts[s + 1] \in 1..n
                      /\ F[j] = ((j + 1)..starts[s + 1]) \cup F[starts[s + 1]]
<1>1. sizes \in Seq(Nat \ {0}) /\ Last(starts) = n
  BY FundamentalsCover
<1>2. AllJoin(sizes, up, deg)
  BY FundamentalsJoin
<1>3. sizes \in Seq(Nat) /\ Len(sizes) \in Nat /\ DOMAIN sizes = 1..Len(sizes)
      /\ \A s \in 1..Len(sizes) : sizes[s] \in Nat
  BY <1>1
<1>4. \A s \in 1..Len(sizes) :
          /\ starts[s] \in Nat /\ starts[s + 1] \in Nat /\ starts[s + 1] <= n
  BY <1>1, <1>3, OffsetsNest
<1>5. ASSUME NEW s \in 1..Len(sizes), NEW j \in (starts[s] + 1)..starts[s + 1]
      PROVE  /\ j \in 1..n /\ starts[s + 1] \in 1..n
             /\ F[j] = ((j + 1)..starts[s + 1]) \cup F[starts[s + 1]]
  <2> DEFINE a == starts[s]
             e == starts[s + 1]
             Wrong == {k \in (a + 1)..e : F[k] # ((k + 1)..e) \cup F[e]}
  <2>1. a \in Nat /\ e \in 1..n /\ j \in (a + 1)..e
    BY <1>4
  <2>2. \A k \in (a + 2)..e : F[k - 1] = {k} \cup F[k]
    <3> TAKE k \in (a + 2)..e
    <3>1. k \in 2..n
      BY <2>1
    <3>2. Joins(ForestOf(F, n), deg, k)
      BY <1>2 DEF AllJoin
    <3> QED
      BY SMTT(30), <3>1, <3>2, JoinedRows
  <2> HIDE DEF a, e
  <2>3. ASSUME NEW k \in Wrong PROVE \E l \in Wrong : l > k
    <3>1. k \in (a + 1)..e /\ F[k] # ((k + 1)..e) \cup F[e]
      OBVIOUS
    <3>2. k # e
      BY <2>1, <3>1
    <3>3. k + 1 \in (a + 2)..e /\ k + 1 \in (a + 1)..e /\ (k + 1) - 1 = k
      BY <2>1, <3>1, <3>2
    <3>4. F[k] = {k + 1} \cup F[k + 1]
      BY <2>2, <3>3
    <3>5. (k + 1)..e = {k + 1} \cup ((k + 1) + 1)..e
      <4>1. k \in Nat /\ e \in Nat /\ k + 1 <= e
        BY <2>1, <3>1, <3>2
      <4> HIDE DEF Wrong
      <4>2. \A i : i \in (k + 1)..e <=> i = k + 1 \/ i \in ((k + 1) + 1)..e
        BY <4>1
      <4> QED
        BY <4>2
    <3>6. F[k + 1] # ((k + 1) + 1)..e \cup F[e]
      BY <3>1, <3>4, <3>5
    <3> QED
      BY <2>1, <3>3, <3>6
  <2>4. Wrong \subseteq 1..n
    BY <2>1
  <2> HIDE DEF Wrong
  <2>5. Wrong = {}
    BY <2>3, <2>4, FromAbove
  <2>6. F[j] = ((j + 1)..e) \cup F[e]
    BY <2>1, <2>5 DEF Wrong
  <2>7. j \in 1..n
    BY <2>1
  <2> QED
    BY <2>1, <2>6, <2>7 DEF e
<1> QED
  BY ZenonT(40), <1>1, <1>3, <1>5
-----------------------------------------------------------------------------
(***************************************************************************)
(* Both analyses.                                                          *)
(***************************************************************************)
\* The tables that the tasks write to are functions.
TableInv ==
    phase = "analyzing" =>
        /\ parents = [i \in DOMAIN parents |-> parents[i]]
        /\ degrees = [i \in DOMAIN degrees |-> degrees[i]]

LEMMA ResizedIsTable ==
    ASSUME NEW s, NEW n \in Nat, NEW r, r = Resized(s, n)
    PROVE  r = [i \in DOMAIN r |-> r[i]]
<1> DEFINE f == [i \in 1..n |-> IF i \in DOMAIN s THEN s[i] ELSE None]
<1>1. f = [i \in 1..n |-> f[i]]
  OBVIOUS
<1>2. r = <<>> \o f
  BY DEF Resized
<1> HIDE DEF f
<1>3. <<>> \o f = f /\ DOMAIN f = 1..n
  BY <1>1, WrittenDown
<1> QED
  BY <1>1, <1>2, <1>3

\* Only the analyses begin or end an analysis.
LEMMA OtherSteps ==
    ASSUME Next, ~StartAnalysis, ~AnalysisStep, ~EndAnalysis, ~SequentialAnalysis
    PROVE  phase' \in {"editing", "ready"}
<1>1. CASE EditStep \/ DrawSample
  BY <1>1 DEF EditStep, QueueAddition, QueueRemoval, AddAtOnce,
              ChangeValue, Flush, Edit, DrawSample
<1>2. CASE \/ Analyzed \/ Factored \/ FactoredWithoutSupernodes \/ Expand
           \/ CloneObject \/ RefactorFromArrays \/ Replace
           \/ RefactorFromMatrix \/ SolveSystem \/ RefineSystem
  BY <1>2 DEF Analyzed, Factored, FactoredWithoutSupernodes, Expand,
              CloneObject, RefactorFromArrays, Replace,
              RefactorFromMatrix, SolveSystem, RefineSystem, MaySolveNow,
              Becomes, Renewed
<1>3. CASE NextProblem
  BY <1>3 DEF NextProblem
<1> QED
  BY <1>1, <1>2, <1>3 DEF Next, EditStep

LEMMA TableStep ==
    ASSUME IndInv, TableInv, [Next]_vars
    PROVE  TableInv'
<1>1. CASE StartAnalysis
  <2>1. /\ parents' = Resized(parents, matrix.rows)
        /\ degrees' = Resized(degrees, matrix.rows)
    BY <1>1 DEF StartAnalysis, BeginAnalysis
  <2>2. matrix.rows \in Nat
    BY RowsAreNatural
  <2>3. /\ parents' = [i \in DOMAIN parents' |-> parents'[i]]
        /\ degrees' = [i \in DOMAIN degrees' |-> degrees'[i]]
    BY <2>1, <2>2, ResizedIsTable
  <2> QED
    BY <2>3 DEF TableInv
<1>2. CASE AnalysisStep
  <2>1. phase = "analyzing" /\ UNCHANGED phase
    BY <1>2 DEF AnalysisStep
  <2>2. PICK s \in DOMAIN tasks :
            ComputeColumn(s) \/ LinkColumn(s) \/ PublishColumn(s)
    BY <1>2 DEF AnalysisStep, TaskStep
  <2>3. CASE ComputeColumn(s)
    <3>1. PICK x, y : /\ parents' = [parents EXCEPT ![tasks[s].column] = x]
                      /\ degrees' = [degrees EXCEPT ![tasks[s].column] = y]
      BY <2>3 DEF ComputeColumn
    <3>2. /\ parents' = [i \in DOMAIN parents' |-> parents'[i]]
          /\ degrees' = [i \in DOMAIN degrees' |-> degrees'[i]]
      BY <3>1
    <3> QED
      BY <3>2 DEF TableInv
  <2>4. CASE LinkColumn(s) \/ PublishColumn(s)
    <3>1. UNCHANGED <<parents, degrees>>
      BY <2>4 DEF LinkColumn, PublishColumn
    <3> QED
      BY <2>1, <3>1 DEF TableInv
  <2> QED
    BY <2>2, <2>3, <2>4
<1>3. CASE UNCHANGED vars
  BY <1>3 DEF TableInv, vars, analysis
<1>4. CASE EndAnalysis \/ SequentialAnalysis
  BY <1>4 DEF EndAnalysis, SequentialAnalysis, TableInv
<1>5. CASE /\ Next /\ ~StartAnalysis /\ ~AnalysisStep
           /\ ~EndAnalysis /\ ~SequentialAnalysis
  BY <1>5, OtherSteps DEF TableInv
<1> QED
  BY <1>1, <1>2, <1>3, <1>4, <1>5

LEMMA SequentialIsExact ==
    ASSUME IndInv, SequentialAnalysis
    PROVE  ForestIsExact'
<1> DEFINE n == matrix.rows
           found == EliminationForestAndDegrees(matrix, ordering)
           rows(j) == RowsIn(Filled(matrix, ordering), j)
<1>1. /\ SupernodalControls # {} /\ UNCHANGED <<matrix, ordering>>
      /\ parents' = found.parents /\ degrees' = found.degrees
  BY DEF SequentialAnalysis, AnalyzeSequentially
<1>2. Symmetric(matrix)
  BY <1>1 DEF SupernodalControls, Suits, Symmetric
<1>3. IsCoordinateMatrix(matrix) /\ IsOrdering(ordering, n)
  BY ProblemShape
<1> HIDE DEF found
<1>4. /\ found.parents \in [1..n -> 0..n] /\ found.degrees \in [1..n -> Nat]
      /\ \A j \in 1..n :
             /\ found.degrees[j] = Cardinality(rows(j))
             /\ found.parents[j] = IF rows(j) = {} THEN None ELSE Min(rows(j))
  BY <1>2, <1>3, SequentialForest DEF found
<1>5. /\ parents' \in [1..n -> 0..n] /\ degrees' \in [1..n -> Nat]
      /\ \A j \in 1..n :
             /\ degrees'[j] = Cardinality(rows(j))
             /\ parents'[j] = IF rows(j) = {} THEN None ELSE Min(rows(j))
  BY <1>1, <1>4
<1> QED
  BY <1>1, <1>5 DEF ForestIsExact, IsExact

LEMMA ParallelIsExact ==
    ASSUME IndInv, ForestInv, TableInv, EndAnalysis
    PROVE  ForestIsExact'
<1> DEFINE n == matrix.rows
           filled == Filled(matrix, ordering)
<1>1. /\ phase = "analyzing" /\ AllTasksDone
      /\ UNCHANGED <<matrix, ordering, parents, degrees>>
  BY DEF EndAnalysis, analysis
<1>2. \A j \in 1..n : IsExact(filled, j)
  BY <1>1, ResultsFollow DEF ResultsAreExact
<1>3. /\ parents = [i \in 1..n |-> parents[i]]
      /\ degrees = [i \in 1..n |-> degrees[i]]
  BY <1>1 DEF TableInv, ForestInv, ShapeInv
<1>4. n \in Nat
  BY RowsAreNatural
<1>5. IsFill(Rows, Own, n)
  BY <1>1 DEF ForestInv, Grounds
<1>6. ASSUME NEW j \in 1..n
      PROVE  /\ parents[j] \in 0..n /\ degrees[j] \in Nat
  <2>1. Rows[j] = RowsIn(filled, j) /\ Rows[j] \subseteq 1..n
    BY <1>5 DEF Rows, IsFill
  <2>2. /\ degrees[j] = Cardinality(Rows[j])
        /\ parents[j] = IF Rows[j] = {} THEN None ELSE Min(Rows[j])
    BY <1>2, <2>1 DEF IsExact
  <2>3. Cardinality(Rows[j]) \in Nat
    <3>1. IsFiniteSet(1..n)
      BY <1>4, FS_Interval
    <3> QED
      BY <2>1, <3>1, FS_Subset, FS_CardinalityType
  <2>4. Rows[j] # {} => Min(Rows[j]) \in Rows[j]
    <3>1. Rows[j] \subseteq Nat
      BY <2>1
    <3> QED
      BY <3>1, MinFacts
  <2>5. parents[j] \in 0..n
    BY <1>4, <2>1, <2>2, <2>4 DEF None
  <2> QED
    BY <2>2, <2>3, <2>5
<1>7. parents \in [1..n -> 0..n] /\ degrees \in [1..n -> Nat]
  BY <1>3, <1>6
<1>8. n' = n /\ filled' = filled
  BY <1>1
<1> QED
  BY <1>1, <1>2, <1>7 DEF ForestIsExact, IsExact

LEMMA ForestStepIsExact ==
    ASSUME IndInv, ForestInv, TableInv, ForestIsExact, [Next]_vars
    PROVE  ForestIsExact'
<1>1. CASE EndAnalysis
  BY <1>1, ParallelIsExact
<1>2. CASE SequentialAnalysis
  BY <1>2, SequentialIsExact
<1>3. CASE UNCHANGED vars
  BY <1>3 DEF ForestIsExact, IsExact, vars, analysis
<1>4. CASE StartAnalysis
  BY <1>4 DEF StartAnalysis, ForestIsExact
<1>5. CASE AnalysisStep
  BY <1>5 DEF AnalysisStep, ForestIsExact
<1>6. CASE /\ Next /\ ~StartAnalysis /\ ~AnalysisStep
           /\ ~EndAnalysis /\ ~SequentialAnalysis
  BY <1>6, OtherSteps DEF ForestIsExact
<1> QED
  BY <1>1, <1>2, <1>3, <1>4, <1>5, <1>6

\* Whatever the order of the columns, and however the tasks of a parallel
\* analysis interleave, an analysis that has returned has written for every
\* column its parent in the elimination forest of the filled matrix and the
\* number of rows that the column has there (EliminationForestAndDegrees, and
\* the parallel analysis of supernodal/factorization).
THEOREM ForestHolds ==
    ASSUME OrderingsFit
    PROVE  Spec => []ForestIsExact
<1>1. Init => TableInv /\ ForestIsExact
  BY DEF Init, TableInv, ForestIsExact
<1>2. IndInv /\ TableInv /\ [Next]_vars => TableInv'
  BY TableStep
<1>3. IndInv /\ ForestInv /\ TableInv /\ ForestIsExact /\ [Next]_vars
          => ForestIsExact'
  BY ForestStepIsExact
<1> QED
  BY <1>1, <1>2, <1>3, IndInvHolds, ForestInvHolds, OrderingsKeepSeparating,
     PTL DEF Spec

\* What is analyzed is symmetric.
SymmetricInv == phase \in {"analyzing", "analyzed"} => Symmetric(matrix)

LEMMA SymmetricStep ==
    ASSUME SymmetricInv, [Next]_vars
    PROVE  SymmetricInv'
<1>1. CASE StartAnalysis \/ SequentialAnalysis
  <2>1. SupernodalControls # {} /\ UNCHANGED matrix
    BY <1>1 DEF StartAnalysis, SequentialAnalysis
  <2> QED
    BY <2>1 DEF SymmetricInv, SupernodalControls, Suits, Symmetric
<1>2. CASE AnalysisStep \/ EndAnalysis \/ UNCHANGED vars
  <2>1. UNCHANGED matrix /\ (UNCHANGED phase \/ phase = "analyzing")
    BY <1>2 DEF AnalysisStep, EndAnalysis, vars
  <2> QED
    BY <2>1 DEF SymmetricInv, Symmetric
<1>3. CASE /\ Next /\ ~StartAnalysis /\ ~AnalysisStep
           /\ ~EndAnalysis /\ ~SequentialAnalysis
  BY <1>3, OtherSteps DEF SymmetricInv
<1> QED
  BY <1>1, <1>2, <1>3

\* The forest that has been found can be put into a postorder.
LEMMA PostorderFollows ==
    ASSUME IndInv, SymmetricInv, ForestIsExact
    PROVE  PostorderIsExact
<1> SUFFICES ASSUME phase = "analyzed"
             PROVE  SubtreesContiguous(FillFromParents(parents))
  BY DEF PostorderIsExact
<1> DEFINE n == matrix.rows
           line == [s \in 1..n |-> Range(Path(parents, s, {None}))]
           post == FillPostorder(FillFromParents(parents))
           T(s) == Subtree(line, n, s)
<1>1. n \in Nat /\ Climbs(parents, n)
  BY ProblemShape, ExactForestClimbs DEF SymmetricInv
<1>2. AreLines(line, parents, n)
  BY <1>1, LinesOfClimbing
<1>3. DOMAIN parents = 1..n
  BY <1>1 DEF Climbs
<1> HIDE DEF line
<1>4. \A s \in 1..n : Below(s) = T(s) \ {s}
  <2> TAKE s \in 1..n
  <2>1. Below(s) = {t \in 1..n : t # s /\ s \in Range(Walk(parents, t))}
    <3>1. Below(s) = {t \in DOMAIN parents : t # s /\
              \E up \in {Walk(parents, t)} : s \in Range(up)}
      BY DEF Below, Walk
    <3> QED
      BY <1>3, <3>1
  <2>2. \A t \in 1..n : s \in Range(Walk(parents, t)) <=> s \in line[t]
    BY <1>1, <1>2, WalkFacts
  <2> QED
    BY <2>1, <2>2 DEF Subtree
<1>5. ASSUME NEW s \in 1..n
      PROVE  {post.postorder[k] :
                 k \in post.firsts[s]..(post.firsts[s] + Cardinality(Below(s)))}
                 = Below(s) \cup {s}
  <2>1. /\ IsFiniteSet(T(s)) /\ Cardinality(T(s)) \in Nat /\ s \in T(s)
        /\ {post.postorder[k] : k \in post.firsts[s]..
               (post.firsts[s] + (Cardinality(T(s)) - 1))} = T(s)
    BY <1>1, <1>2, PostorderIsFilled
  <2>2. Below(s) = T(s) \ {s}
    BY <1>4
  <2>3. Cardinality(Below(s)) = Cardinality(T(s)) - 1
    BY <2>1, <2>2, FS_RemoveElement
  <2>4. Below(s) \cup {s} = T(s)
    BY <2>1, <2>2
  <2> HIDE DEF post, T
  <2> QED
    BY <2>1, <2>3, <2>4
<1> QED
  BY <1>3, <1>5 DEF SubtreesContiguous

\* In the postorder of the forest that an analysis returns every subtree is a
\* row of places of its own, which begins where FillPostorder says and ends
\* with its top (AssemblyForest::FillPostorder).
THEOREM PostorderHolds ==
    ASSUME OrderingsFit
    PROVE  Spec => []PostorderIsExact
<1>1. Init => SymmetricInv
  BY DEF Init, SymmetricInv
<1>2. SymmetricInv /\ [Next]_vars => SymmetricInv'
  BY SymmetricStep
<1>3. IndInv /\ SymmetricInv /\ ForestIsExact => PostorderIsExact
  BY PostorderFollows
<1> QED
  BY <1>1, <1>2, <1>3, IndInvHolds, ForestHolds, PTL DEF Spec

\* The forest that an analysis returns is that of the fill.
OwnIsListed(own) ==
    \A row \in 1..matrix.rows :
        /\ LowerColumns(matrix, ordering, row) \in Seq(1..matrix.rows)
        /\ \A c \in 1..matrix.rows :
               c \in Range(LowerColumns(matrix, ordering, row)) <=> row \in own[c]
LEMMA FoundIsForest ==
    ASSUME IndInv, SymmetricInv, ForestIsExact, phase = "analyzed"
    PROVE  /\ parents = ForestOf(Rows, matrix.rows)
           /\ degrees = [j \in 1..matrix.rows |-> Cardinality(Rows[j])]
           /\ degrees \in [1..matrix.rows -> Nat]
           /\ \E own : /\ IsFill(Rows, own, matrix.rows)
                       /\ OwnIsListed(own)
<1> DEFINE n == matrix.rows
           own == [j \in 1..n |-> {i \in 1..n :
                      i > j /\ <<i, j>> \in Entered(matrix, ordering)}]
<1>1. /\ n \in Nat /\ IsCoordinateMatrix(matrix) /\ Symmetric(matrix)
      /\ IsOrdering(ordering, n)
  BY ProblemShape DEF SymmetricInv
<1>2. Undoes(ordering, n)
  BY <1>1, OrderingUndoes
<1>3. Entered(matrix, ordering) \subseteq (1..n) \X (1..n)
  BY <1>1, <1>2, EnteredInside
<1>4. \A j \in 1..n : own[j]
          = {i \in 1..n : i > j /\ <<i, j>> \in Entered(matrix, ordering)}
  OBVIOUS
<1> HIDE DEF own
<1>5. IsFill(Rows, own, n)
  BY <1>1, <1>3, <1>4, FilledIsFill DEF Rows
<1>6. OwnIsListed(own)
  BY <1>1, <1>4, ColumnsOfRows DEF OwnIsListed
<1>7. /\ parents \in [1..n -> 0..n] /\ degrees \in [1..n -> Nat]
      /\ \A j \in 1..n :
             /\ degrees[j] = Cardinality(Rows[j])
             /\ parents[j] = IF Rows[j] = {} THEN None ELSE Min(Rows[j])
  BY DEF ForestIsExact, IsExact, Rows
<1>8. parents = ForestOf(Rows, n)
  BY <1>7 DEF ForestOf
<1>9. degrees = [j \in 1..n |-> Cardinality(Rows[j])]
  BY <1>7
<1> QED
  BY <1>5, <1>6, <1>7, <1>8, <1>9

\* What the simple algorithm finds, and the fundamental supernodes.
LEMMA SimpleFollows ==
    ASSUME IndInv, SymmetricInv, ForestIsExact
    PROVE  SimpleForestIsExact
<1> SUFFICES ASSUME phase = "analyzed"
             PROVE  SimpleEliminationForestAndDegrees(matrix, ordering) = Forest
  BY DEF SimpleForestIsExact
<1>1. PICK own : /\ IsFill(Rows, own, matrix.rows) /\ matrix.rows \in Nat
                 /\ parents = ForestOf(Rows, matrix.rows)
                 /\ degrees = [j \in 1..matrix.rows |-> Cardinality(Rows[j])]
                 /\ OwnIsListed(own)
  BY FoundIsForest, ProblemShape
<1>2. SimpleEliminationForestAndDegrees(matrix, ordering)
          = [parents |-> ForestOf(Rows, matrix.rows),
             degrees |-> [j \in 1..matrix.rows |-> Cardinality(Rows[j])]]
  BY <1>1, SimpleForestFits DEF OwnIsListed
<1> QED
  BY <1>1, <1>2 DEF Forest

LEMMA FundamentalsFollow ==
    ASSUME IndInv, SymmetricInv, ForestIsExact
    PROVE  FundamentalsAreExact
<1> SUFFICES ASSUME phase = "analyzed"
             PROVE  /\ Last(OffsetScan(FormFundamentalSupernodes(parents, degrees)))
                            = matrix.rows
                    /\ AreDense(FormFundamentalSupernodes(parents, degrees),
                                Filled(matrix, ordering))
  BY DEF FundamentalsAreExact
<1> DEFINE n == matrix.rows
           sizes == FormFundamentalSupernodes(parents, degrees)
           starts == OffsetScan(sizes)
<1>1. PICK own : /\ IsFill(Rows, own, n) /\ n \in Nat
                 /\ parents = ForestOf(Rows, n)
                 /\ degrees = [j \in 1..n |-> Cardinality(Rows[j])]
                 /\ degrees \in [1..n -> Nat]
  BY FoundIsForest, ProblemShape
<1>2. /\ Last(starts) = n
      /\ \A s \in DOMAIN sizes : \A j \in (starts[s] + 1)..starts[s + 1] :
             /\ j \in 1..n /\ starts[s + 1] \in 1..n
             /\ Rows[j] = ((j + 1)..starts[s + 1]) \cup Rows[starts[s + 1]]
  <2> HIDE DEF n, sizes, starts
  <2>1. sizes = FormFundamentalSupernodes(parents, degrees) /\ starts = OffsetScan(sizes)
    BY DEF sizes, starts
  <2> QED
    BY SMTT(30), <1>1, <2>1, FundamentalsFit
<1>3. \A j \in 1..n : Rows[j] = RowsIn(Filled(matrix, ordering), j)
  BY DEF Rows
<1> QED
  BY <1>2, <1>3 DEF AreDense

\* The simple algorithm, which walks the forest that it has so far for every
\* entry, agrees with the forest and the degrees that an analysis returns
\* (SimpleEliminationForestAndDegrees).
THEOREM SimpleForestHolds ==
    ASSUME OrderingsFit
    PROVE  Spec => []SimpleForestIsExact
<1>1. Init => SymmetricInv
  BY DEF Init, SymmetricInv
<1>2. SymmetricInv /\ [Next]_vars => SymmetricInv'
  BY SymmetricStep
<1>3. IndInv /\ SymmetricInv /\ ForestIsExact => SimpleForestIsExact
  BY SimpleFollows
<1> QED
  BY <1>1, <1>2, <1>3, IndInvHolds, ForestHolds, PTL DEF Spec

\* The fundamental supernodes that are formed from the forest and the degrees
\* are of all columns, and dense: each of their columns has the ones after it
\* and the rows of the last one, so that they can be stored as blocks
\* (FormFundamentalSupernodes).
THEOREM FundamentalsHold ==
    ASSUME OrderingsFit
    PROVE  Spec => []FundamentalsAreExact
<1>1. Init => SymmetricInv
  BY DEF Init, SymmetricInv
<1>2. SymmetricInv /\ [Next]_vars => SymmetricInv'
  BY SymmetricStep
<1>3. IndInv /\ SymmetricInv /\ ForestIsExact => FundamentalsAreExact
  BY FundamentalsFollow
<1> QED
  BY <1>1, <1>2, <1>3, IndInvHolds, ForestHolds, PTL DEF Spec

\* No child is missing from a list; what a task writes is the parent and the
\* number of rows of its column in the filled matrix, and when all tasks are
\* done every column has them; an analysis of either kind returns them, and so
\* does the simple algorithm; they can be put into a postorder, and their
\* fundamental supernodes are dense.
THEOREM ForestFound ==
    ASSUME OrderingsFit
    PROVE  Spec => []ForestIsFound
<1>1. IndInv /\ ForestInv => ResultsAreExact
  BY ResultsFollow
<1>2. ChildrenAreListed /\ ResultsAreExact /\ ForestIsExact
        /\ PostorderIsExact /\ SimpleForestIsExact /\ FundamentalsAreExact
      => ForestIsFound
  BY DEF ForestIsFound
<1> QED
  BY <1>1, <1>2, ChildrenListed, ForestHolds, PostorderHolds,
     SimpleForestHolds, FundamentalsHold, IndInvHolds, ForestInvHolds,
     OrderingsKeepSeparating, PTL

\* Whatever a program does with the object, and whatever object it takes the
\* buffers over from, the buffer of values has room for the factor that lies in
\* it; no parallel solve is refused; and after it the boundaries of the
\* supernodes lie in their buffer, apart from each other, with as many columns
\* as the right-hand sides (SparseLDL, and the parallel solves of
\* supernodal/solve).
THEOREM WorkspaceHolds ==
    ASSUME OrderingsFit
    PROVE  Spec => []WorkspaceFits
<1>1. Init => WorkspaceInv
  <2> SUFFICES ASSUME Init PROVE WorkspaceInv
    OBVIOUS
  <2>1. /\ ldl = NoLDL /\ boundaries = NoWorkspace /\ outcome.kind = "none"
        /\ NoLDL.isSupernodal = FALSE
    BY DEF Init, NoOutcome, NoLDL
  <2> QED
    BY <2>1, EmptyHasRoom DEF WorkspaceInv
<1>2. WorkspaceInv => WorkspaceFits
  <2> SUFFICES ASSUME WorkspaceInv PROVE WorkspaceFits
    OBVIOUS
  <2>1. ldl.isSupernodal => ldl.values >= FactorValues(ldl.factor)
    BY DEF WorkspaceInv, HasRoom
  <2>2. outcome.kind # "threw"
    BY DEF WorkspaceInv
  <2> DEFINE views == boundaries.views
             deg == ldl.factor.degrees
  <2>3. ASSUME boundaries.allocated
        PROVE  /\ Len(views) = Len(deg)
               /\ \A s \in DOMAIN views :
                      /\ views[s].height = deg[s]
                      /\ outcome.kind = "solved" /\ outcome.parallel =>
                             views[s].width = Width(outcome.b)
                      /\ Cells(views[s]) \subseteq 1..boundaries.capacity
                      /\ \A t \in DOMAIN views \ {s} :
                             Cells(views[s]) \cap Cells(views[t]) = {}
    <3>1. /\ ldl.isSupernodal /\ deg \in Seq(Nat)
          /\ IsWorkspace(boundaries, deg) /\ boundaries.capacity \in Nat
      <4>1. ldl.isSupernodal
        BY <2>3 DEF WorkspaceInv, NoWorkspace
      <4> QED
        BY <4>1 DEF WorkspaceInv, HasRoom, IsSetUp, HasSupernodes, IsWorkspace
    <3>2. PICK w : /\ HasColumns(boundaries, deg, w)
                   /\ outcome.kind = "solved" /\ outcome.parallel =>
                          w = Width(outcome.b)
      BY <2>3, <3>1 DEF WorkspaceInv, IsWorkspace
    <3> HIDE DEF deg
    <3>3. /\ Len(views) = Len(deg)
          /\ \A s \in DOMAIN views :
                 /\ views[s].height = deg[s] /\ views[s].width = w
                 /\ Cells(views[s]) \subseteq 1..boundaries.capacity
                 /\ \A t \in DOMAIN views \ {s} :
                        Cells(views[s]) \cap Cells(views[t]) = {}
      BY <3>1, <3>2, CellsFit
    <3> QED
      BY <3>2, <3>3
  <2> QED
    BY <2>1, <2>2, <2>3 DEF WorkspaceFits
<1>3. IndInv /\ ForestIsExact /\ WorkspaceInv /\ [Next]_vars => WorkspaceInv'
  BY WorkspaceStep
<1> QED
  BY <1>1, <1>2, <1>3, IndInvHolds, ForestHolds, PTL DEF Spec
=============================================================================
