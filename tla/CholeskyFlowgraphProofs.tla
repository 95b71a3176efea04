---------------------- MODULE CholeskyFlowgraphProofs ----------------------
(***************************************************************************)
(* The flow graph for dense Cholesky is correct for every number of tiles, *)
(* every sequence of matrices, outside failures and outside resets of the  *)
(* context, until a run has lost tasks unseen (the history variable        *)
(* unseen); its types and the order of notice and cancellation even after, *)
(* and all of it if cancellation is disabled.                              *)
(***************************************************************************)
EXTENDS CholeskyFlowgraph, TLAPS, FiniteSetTheorems, WellFoundedInduction

-----------------------------------------------------------------------------
(***************************************************************************)
(* The graph.                                                              *)
(***************************************************************************)
\* Every node comes after its predecessors.
Weight(n) == n[1] + n[2] + n[3]

LEMMA NodeFacts ==
    ASSUME NEW n \in Node
    PROVE  /\ n = <<n[1], n[2], n[3]>>
           /\ n[1] \in 1..NumTiles /\ n[2] \in 1..NumTiles
           /\ n[3] \in 1..NumTiles
           /\ n[3] <= n[2] /\ n[2] <= n[1]
           /\ Weight(n) \in Nat
           /\ Target(n) \in Tile
BY DEF Node, Weight, Target, Tile

LEMMA NodeFrom ==
    ASSUME NEW i \in 1..NumTiles, NEW k \in 1..NumTiles, NEW j \in 1..NumTiles,
           j <= k, k <= i
    PROVE  <<i, k, j>> \in Node
BY DEF Node

\* The tiles cover the matrix, and the last one is not empty.
LEMMA Tiling ==
    /\ NumTiles \in Nat /\ NumTiles >= 1
    /\ (NumTiles - 1) * TileSize < Height /\ Height <= NumTiles * TileSize
<1> DEFINE a == Height + TileSize - 1
<1>1. /\ Height \in Nat /\ TileSize \in Nat /\ TileSize > 0
      /\ Height >= 3 * TileSize
  BY FlowgraphAssumption
<1>2. /\ NumTiles \in Int
      /\ TileSize * NumTiles <= a /\ a < TileSize * NumTiles + TileSize
  BY <1>1 DEF NumTiles
<1>3. NumTiles >= 1
  BY <1>1, <1>2
<1>4. /\ (NumTiles - 1) * TileSize = TileSize * NumTiles - TileSize
      /\ NumTiles * TileSize = TileSize * NumTiles
  BY <1>1, <1>2
<1> QED
  BY <1>1, <1>2, <1>3, <1>4

\* The columns in the first j tiles.
ColumnsIn(j) == IF j = NumTiles THEN Height ELSE j * TileSize

LEMMA ColumnsFacts ==
    /\ ColumnsIn(0) = 0
    /\ \A j \in 0..NumTiles : ColumnsIn(j) \in 0..Height
    /\ \A j \in 1..NumTiles :
          TileWidth(j) \in Nat \ {0}
          /\ ColumnsIn(j) = ColumnsIn(j - 1) + TileWidth(j)
<1>1. /\ Height \in Nat /\ TileSize \in Nat /\ TileSize > 0
      /\ NumTiles \in Nat /\ NumTiles >= 1
      /\ (NumTiles - 1) * TileSize < Height /\ Height <= NumTiles * TileSize
  BY FlowgraphAssumption, Tiling
<1>2. ASSUME NEW j \in 0..(NumTiles - 1)
      PROVE  /\ j * TileSize \in Nat
             /\ j * TileSize <= (NumTiles - 1) * TileSize
             /\ (j + 1) * TileSize = j * TileSize + TileSize
  BY <1>1
<1>3. ASSUME NEW j \in 1..NumTiles
      PROVE  /\ TileWidth(j) = IF j = NumTiles
                               THEN Height - (j - 1) * TileSize ELSE TileSize
             /\ TileWidth(j) > 0
  <2> DEFINE rest == Height - (j - 1) * TileSize
  <2>1. rest \in Int /\ rest > 0
    BY <1>1, <1>2
  <2>2. j = NumTiles => rest <= TileSize
    BY <1>1, <1>2, NumTiles * TileSize = (NumTiles - 1) * TileSize + TileSize
  <2>3. j # NumTiles => TileSize < rest
    BY <1>1, <1>2, j * TileSize = (j - 1) * TileSize + TileSize
  <2>4. PICK w \in {TileSize, rest} : \A y \in {TileSize, rest} : w <= y
    BY <1>1, <2>1
  <2>5. \A y \in {TileSize, rest} : Min({TileSize, rest}) <= y
    BY <2>4 DEF Min
  <2>6. Min({TileSize, rest}) \in {TileSize, rest}
    BY <2>4 DEF Min
  <2> QED
    BY <1>1, <2>1, <2>2, <2>3, <2>5, <2>6 DEF TileWidth
<1>4. ColumnsIn(0) = 0
  BY <1>1 DEF ColumnsIn
<1>5. \A j \in 0..NumTiles : ColumnsIn(j) \in 0..Height
  BY <1>1, <1>2 DEF ColumnsIn
<1>6. \A j \in 1..NumTiles : ColumnsIn(j) = ColumnsIn(j - 1) + TileWidth(j)
  <2> TAKE j \in 1..NumTiles
  <2>1. j - 1 \in 0..(NumTiles - 1) /\ j - 1 # NumTiles
    BY <1>1
  <2>2. j * TileSize = (j - 1) * TileSize + TileSize
    BY <1>1
  <2> QED
    BY <1>1, <1>2, <1>3, <2>1, <2>2 DEF ColumnsIn
<1>7. \A j \in 1..NumTiles : TileWidth(j) \in Nat \ {0}
  BY <1>1, <1>2, <1>3
<1> QED
  BY <1>4, <1>5, <1>6, <1>7

LEMMA PredecessorFacts ==
    ASSUME NEW n \in Node
    PROVE  /\ Predecessors(n) \subseteq Node
           /\ IsFiniteSet(Predecessors(n))
           /\ \A p \in Predecessors(n) : Weight(p) < Weight(n)
           /\ Predecessors(n) = {} => n = FactorOf(1)
<1> DEFINE last == <<n[1], n[2], n[3] - 1>>
           solve == SolveOf(n[1], n[3])
           other == SolveOf(n[2], n[3])
           factor == FactorOf(n[3])
<1> USE NodeFacts DEF Weight
<1>1. n[3] > 1 => last \in Node /\ Weight(last) < Weight(n)
  <2> SUFFICES ASSUME n[3] > 1 PROVE last \in Node /\ Weight(last) < Weight(n)
    OBVIOUS
  <2>1. n[3] - 1 \in 1..NumTiles /\ n[3] - 1 <= n[2]
    BY Tiling
  <2>2. last \in Node
    BY <2>1, NodeFrom
  <2> QED
    BY <2>2
<1>2. solve \in Node /\ other \in Node /\ factor \in Node
  BY NodeFrom DEF SolveOf, FactorOf
<1>3. n[2] # n[3] => Weight(solve) < Weight(n) /\ Weight(other) < Weight(n)
  BY DEF SolveOf
<1>4. n[1] # n[3] => Weight(factor) < Weight(n)
  BY DEF FactorOf
<1>5. LastUpdate(n) = IF n[3] > 1 THEN {last} ELSE {}
  BY DEF LastUpdate
<1>6. Predecessors(n) =
          LastUpdate(n) \cup (IF IsFactor(n) THEN {}
                              ELSE IF n[2] = n[3] THEN {factor}
                              ELSE {solve, other})
  BY DEF Predecessors
<1>7. Predecessors(n) \subseteq {last, solve, other, factor}
  BY <1>5, <1>6
<1>8. IsFiniteSet(Predecessors(n))
  <2>1. IsFiniteSet({last, solve, other, factor})
    <3> HIDE DEF last, solve, other, factor
    <3>1. IsFiniteSet({last})
      BY FS_Singleton
    <3>2. IsFiniteSet({last} \cup {solve})
      BY <3>1, FS_AddElement
    <3>3. IsFiniteSet(({last} \cup {solve}) \cup {other})
      BY <3>2, FS_AddElement
    <3>4. IsFiniteSet((({last} \cup {solve}) \cup {other}) \cup {factor})
      BY <3>3, FS_AddElement
    <3>5. {last, solve, other, factor} =
              (({last} \cup {solve}) \cup {other}) \cup {factor}
      OBVIOUS
    <3> QED
      BY <3>4, <3>5
  <2> QED
    BY <1>7, <2>1, FS_Subset
<1>9. \A p \in Predecessors(n) : p \in Node /\ Weight(p) < Weight(n)
  <2> HIDE DEF last, solve, other, factor, Weight
  <2> QED
    BY <1>1, <1>2, <1>3, <1>4, <1>5, <1>6 DEF IsFactor
<1>10. Predecessors(n) = {} => n = FactorOf(1)
  <2> SUFFICES ASSUME Predecessors(n) = {} PROVE n = FactorOf(1)
    OBVIOUS
  <2>1. ~(n[3] > 1)
    BY <1>5, <1>6
  <2>2. n[1] = n[3]
    BY <1>6 DEF IsFactor
  <2>3. n[3] = 1 /\ n[2] = 1 /\ n[1] = 1
    BY <2>1, <2>2, Tiling
  <2> QED
    BY <2>3 DEF FactorOf
<1> QED
  BY <1>8, <1>9, <1>10

\* The predecessors that the properties need.
LEMMA PredecessorsOf ==
    ASSUME NEW n \in Node
    PROVE  /\ n[3] > 1 => <<n[1], n[2], n[3] - 1>> \in Predecessors(n)
           /\ ~IsFactor(n) /\ n[2] = n[3] => FactorOf(n[3]) \in Predecessors(n)
           /\ n[2] # n[3] => /\ SolveOf(n[1], n[3]) \in Predecessors(n)
                             /\ SolveOf(n[2], n[3]) \in Predecessors(n)
BY NodeFacts DEF Predecessors, LastUpdate, IsFactor

\* A set of nodes that has every node whose predecessors it has has all nodes.
LEMMA AllNodes ==
    ASSUME NEW S \in SUBSET Node,
           \A n \in Node : Predecessors(n) \subseteq S => n \in S
    PROVE  S = Node
<1> SUFFICES ASSUME Node \ S # {} PROVE FALSE
  OBVIOUS
<1> DEFINE T == {Weight(n) : n \in Node \ S}
<1>1. T \subseteq Nat /\ T # {}
  BY NodeFacts
<1>2. PICK w \in T : \A v \in T : ~(<<v, w>> \in OpToRel(<, Nat))
  BY <1>1, NatLessThanWellFounded, WFMin
<1>3. PICK n \in Node \ S : w = Weight(n)
  OBVIOUS
<1>4. \A m \in Node \ S : ~(Weight(m) < Weight(n))
  BY <1>1, <1>2, <1>3 DEF OpToRel
<1>5. Predecessors(n) \subseteq S
  BY <1>3, <1>4, PredecessorFacts
<1> QED
  BY <1>3, <1>5

\* One more message: it is the last one if the set then has all of P.
LEMMA Count ==
    ASSUME NEW P, IsFiniteSet(P), NEW S, NEW n \in P, n \notin S
    PROVE  /\ Cardinality(P \cap S) \in Nat
           /\ Cardinality(P \cap (S \cup {n})) = Cardinality(P \cap S) + 1
           /\ Cardinality(P \cap S) + 1 >= Cardinality(P)
                  <=> P \subseteq S \cup {n}
           /\ Cardinality(P \cap S) < Cardinality(P)
<1> DEFINE before == P \cap S
           after == P \cap (S \cup {n})
<1>1. IsFiniteSet(before) /\ IsFiniteSet(after)
  BY FS_Subset
<1>2. /\ Cardinality(before) \in Nat /\ Cardinality(after) \in Nat
      /\ Cardinality(P) \in Nat
  BY <1>1, FS_CardinalityType
<1>3. after = before \cup {n} /\ n \notin before
  OBVIOUS
<1>4. Cardinality(after) = Cardinality(before) + 1
  BY <1>1, <1>3, FS_AddElement
<1>5. after \in SUBSET P
  OBVIOUS
<1>6. /\ Cardinality(after) <= Cardinality(P)
      /\ Cardinality(P) = Cardinality(after) => P = after
  BY <1>5, FS_Subset
<1>7. P \subseteq S \cup {n} <=> P = after
  OBVIOUS
<1>8. Cardinality(after) >= Cardinality(P) <=> P = after
  BY <1>2, <1>6
<1> HIDE DEF before, after
<1> QED
  BY <1>2, <1>4, <1>6, <1>7, <1>8 DEF before, after

-----------------------------------------------------------------------------
(***************************************************************************)
(* The invariant.                                                          *)
(***************************************************************************)
\* A counter holds fewer messages than its node waits for.
Control ==
    /\ phase \in {"idle", "waiting"}
    /\ task \in [Node -> {"none", "ready", "working", "cancelling"}]
    /\ received \in [Node -> Nat]
    /\ \A n \in Node :
          received[n] # 0 => received[n] < Cardinality(Predecessors(n))
    /\ applied \in [Tile -> Nat]
    /\ \A t \in Tile : applied[t] <= t[2]
    /\ pivots \in 0..Height /\ result \in -1..Height
    /\ failed \in BOOLEAN /\ notified \in BOOLEAN
    /\ ctx \in {"live", "cancelled"}
    /\ bad \in Inputs \cup {0}
    /\ runs \in 0..MaxRuns
    /\ dropped \in BOOLEAN

\* The flag of the sparse factorization is set first.
FlagInv ==
    /\ failed => notified
    /\ ctx = "cancelled" => notified
    /\ dropped => notified

\* The nodes in S, and no others, have sent their messages in this run.
SentInv(S) ==
    /\ S \in SUBSET Node
    /\ \A n \in S : Predecessors(n) \subseteq S
    /\ \A n \in Node :
          received[n] = IF Predecessors(n) \subseteq S THEN 0
                        ELSE Cardinality(Predecessors(n) \cap S)
    /\ \A n \in Node : task[n] # "none" =>
          Predecessors(n) \subseteq S /\ n \notin S

\* Every change of a tile has been sent, and unless the graph has failed, what
\* has been sent is in the tile.
TilesInv(S) ==
    /\ \A n \in Node : applied[Target(n)] >= n[3] => n \in S
    /\ ~failed => \A n \in S : applied[Target(n)] >= n[3]

\* What OperandsReady says, also of the node that cancels.
WorkInv ==
    \A n \in Node : task[n] \in {"working", "cancelling"} =>
        /\ applied[Target(n)] = n[3] - 1
        /\ \A t \in Operands(n) : applied[t] = t[2]
        /\ task[n] = "cancelling" => failed

\* Unless a task has been destroyed, no node is forgotten.
ProgressInv(S) ==
    ~dropped =>
        \A n \in Node \ S : Predecessors(n) \subseteq S => task[n] # "none"

\* The first m diagonal tiles are factored and counted.  After a breakdown, a
\* part of the next one is counted, and no other one is factored.
PivotInv(m) ==
    /\ m \in 0..NumTiles
    /\ \A j \in 1..NumTiles : applied[<<j, j>>] = j <=> j <= m
    /\ bad # 0 => m < bad
    /\ ~failed => pivots = ColumnsIn(m)
    /\ failed => /\ m < NumTiles
                 /\ ColumnsIn(m) <= pivots /\ pivots < ColumnsIn(m + 1)
                 /\ \A n \in Node : IsFactor(n) => task[n] # "working"

RunInv(S, m) ==
    /\ SentInv(S) /\ TilesInv(S) /\ WorkInv /\ ProgressInv(S) /\ PivotInv(m)
    /\ runs > 0

\* Between two runs: nothing is left of the last one, unless it has lost
\* tasks unseen.
IdleInv ==
    /\ \A n \in Node : task[n] = "none"
    /\ ~dropped => \A n \in Node : received[n] = 0
    /\ RunReturnsTruth

\* What holds until a run has lost tasks unseen.
IndInv ==
    /\ Control /\ FlagInv
    /\ phase = "waiting" => \E S \in SUBSET Node, m \in Nat : RunInv(S, m)
    /\ phase = "idle" => IdleInv

\* What holds always.
Basic ==
    /\ TypeOK /\ FlagInv
    /\ \A n \in Node : task[n] = "cancelling" => notified
    /\ phase = "idle" => \A n \in Node : task[n] = "none"
    /\ ~Cancellation => ctx = "live" /\ ~dropped /\ ~unseen

-----------------------------------------------------------------------------
(***************************************************************************)
(* The messages.                                                           *)
(***************************************************************************)
\* A node sends: it joins the nodes that have, and whoever has then heard from
\* all predecessors has a task.
LEMMA SendStep ==
    ASSUME Control, NEW S, SentInv(S), NEW n \in Node, task[n] # "none", Send(n)
    PROVE  /\ received' \in [Node -> Nat]
           /\ task' \in [Node -> {"none", "ready", "working", "cancelling"}]
           /\ \A m \in Node : received'[m] # 0 =>
                 received'[m] < Cardinality(Predecessors(m))
           /\ SentInv(S \cup {n})'
           /\ \A m \in Node : task'[m] \in {"working", "cancelling"} =>
                 m # n /\ task'[m] = task[m]
           /\ \A m \in Node \ (S \cup {n}) :
                 Predecessors(m) \subseteq S \cup {n} =>
                    \/ task'[m] = "ready"
                    \/ Predecessors(m) \subseteq S /\ task'[m] = task[m]
<1> DEFINE R == S \cup {n}
           completed == CompletedBy(n)
<1>1. /\ S \in SUBSET Node /\ n \notin S /\ Predecessors(n) \subseteq S
      /\ task \in [Node -> {"none", "ready", "working", "cancelling"}]
      /\ received \in [Node -> Nat]
  BY DEF SentInv, Control
<1>2. /\ received' = [m \in Node |->
                IF m \in completed THEN 0
                ELSE IF m \in Successors(n) THEN received[m] + 1
                ELSE received[m]]
      /\ task' = [m \in Node |->
                IF m = n THEN "none"
                ELSE IF m \in completed THEN "ready"
                ELSE task[m]]
  BY DEF Send
<1>3. ASSUME NEW m \in Node, n \in Predecessors(m)
      PROVE  /\ m # n /\ m \notin S /\ task[m] = "none"
             /\ m \in Successors(n)
             /\ m \in completed <=> Predecessors(m) \subseteq R
             /\ m \notin completed =>
                   /\ received'[m] = Cardinality(Predecessors(m) \cap R)
                   /\ received'[m] < Cardinality(Predecessors(m))
  <2> DEFINE P == Predecessors(m)
  <2>1. m # n /\ m \notin S /\ task[m] = "none" /\ ~(P \subseteq S)
    BY <1>1, <1>3, PredecessorFacts, NodeFacts DEF SentInv
  <2>2. IsFiniteSet(P)
    BY PredecessorFacts
  <2>3. received[m] = Cardinality(P \cap S)
    BY <2>1 DEF SentInv
  <2>4. m \in Successors(n)
    BY <1>3 DEF Successors
  <2>5. /\ Cardinality(P \cap S) \in Nat
        /\ Cardinality(P \cap R) = Cardinality(P \cap S) + 1
        /\ Cardinality(P \cap S) + 1 >= Cardinality(P) <=> P \subseteq R
    BY <1>1, <1>3, <2>2, Count
  <2>6. m \in completed <=> P \subseteq R
    BY <2>3, <2>4, <2>5 DEF CompletedBy
  <2>7. Cardinality(P) \in Nat
    BY <2>2, FS_CardinalityType
  <2> HIDE DEF P, R, completed
  <2> QED
    BY <1>2, <2>1, <2>3, <2>4, <2>5, <2>6, <2>7 DEF P
<1>4. ASSUME NEW m \in Node, n \notin Predecessors(m)
      PROVE  /\ m \notin completed
             /\ received'[m] = received[m]
             /\ task'[m] = IF m = n THEN "none" ELSE task[m]
             /\ Predecessors(m) \subseteq R <=> Predecessors(m) \subseteq S
             /\ Predecessors(m) \cap R = Predecessors(m) \cap S
  <2>1. m \notin Successors(n)
    BY <1>4 DEF Successors
  <2>2. m \notin completed
    BY <2>1 DEF CompletedBy
  <2> HIDE DEF completed
  <2> QED
    BY <1>2, <1>4, <2>1, <2>2
<1>5. received' \in [Node -> Nat]
  BY <1>1, <1>2
<1>6. task' \in [Node -> {"none", "ready", "working", "cancelling"}]
  BY <1>1, <1>2
<1>7. \A m \in Node : received'[m] # 0 =>
          received'[m] < Cardinality(Predecessors(m))
  <2> HIDE DEF completed, R
  <2> TAKE m \in Node
  <2>1. CASE n \in Predecessors(m)
    BY <1>2, <1>3, <2>1
  <2>2. CASE n \notin Predecessors(m)
    BY <1>4, <2>2 DEF Control
  <2> QED
    BY <2>1, <2>2
<1>8. \A m \in R : Predecessors(m) \subseteq R
  BY <1>1 DEF SentInv
<1>9. \A m \in Node :
          received'[m] = IF Predecessors(m) \subseteq R THEN 0
                         ELSE Cardinality(Predecessors(m) \cap R)
  <2> HIDE DEF completed, R
  <2> TAKE m \in Node
  <2>1. CASE n \in Predecessors(m)
    BY <1>2, <1>3, <2>1
  <2>2. CASE n \notin Predecessors(m)
    BY <1>4, <2>2 DEF SentInv
  <2> QED
    BY <2>1, <2>2
<1>10. ASSUME NEW m \in Node
       PROVE  /\ task'[m] # "none" => Predecessors(m) \subseteq R /\ m \notin R
              /\ task'[m] \in {"working", "cancelling"} =>
                    m # n /\ task'[m] = task[m]
              /\ m \notin R /\ Predecessors(m) \subseteq R =>
                    \/ task'[m] = "ready"
                    \/ Predecessors(m) \subseteq S /\ task'[m] = task[m]
  <2>1. CASE n \in Predecessors(m)
    <3> HIDE DEF completed
    <3> QED
      BY <1>2, <1>3, <2>1
  <2>2. CASE n \notin Predecessors(m)
    <3> HIDE DEF completed
    <3> QED
      BY <1>4, <2>2 DEF SentInv
  <2> QED
    BY <2>1, <2>2
<1>11. SentInv(R)'
  BY <1>1, <1>8, <1>9, <1>10 DEF SentInv
<1> QED
  BY <1>5, <1>6, <1>7, <1>10, <1>11

-----------------------------------------------------------------------------
(***************************************************************************)
(* The order of the work.                                                  *)
(***************************************************************************)
\* A node with a task finds its target after the last change before its own,
\* and what it reads final.
LEMMA ReadyToWork ==
    ASSUME Control, NEW S, SentInv(S), TilesInv(S), ~failed,
           NEW n \in Node, task[n] = "ready"
    PROVE  /\ applied[Target(n)] = n[3] - 1
           /\ \A t \in Operands(n) : applied[t] = t[2]
<1> USE NodeFacts
<1>1. Predecessors(n) \subseteq S /\ n \notin S /\ S \subseteq Node
  BY DEF SentInv
<1>2. \A t \in Tile : applied[t] \in Nat /\ applied[t] <= t[2]
  BY DEF Control
<1>3. \A p \in S : applied[Target(p)] >= p[3]
  BY DEF TilesInv
<1>4. n[3] \in Nat /\ n[3] >= 1
  BY Tiling
<1>5. applied[Target(n)] = n[3] - 1
  <2>1. applied[Target(n)] \in Nat /\ ~(applied[Target(n)] >= n[3])
    BY <1>1, <1>2 DEF TilesInv
  <2>2. CASE n[3] = 1
    BY <2>1, <2>2
  <2>3. CASE n[3] > 1
    <3> DEFINE last == <<n[1], n[2], n[3] - 1>>
    <3>1. last \in S
      BY <1>1, <2>3, PredecessorsOf
    <3>2. Target(last) = Target(n) /\ last[3] = n[3] - 1
      BY DEF Target
    <3>3. applied[Target(n)] >= n[3] - 1
      BY <1>3, <3>1, <3>2
    <3> QED
      BY <1>4, <2>1, <3>3
  <2> QED
    BY <1>4, <2>2, <2>3
<1>6. ASSUME NEW i \in 1..NumTiles, NEW j \in 1..NumTiles, <<i, j, j>> \in S
      PROVE  applied[<<i, j>>] = j
  <2>1. Target(<<i, j, j>>) = <<i, j>> /\ <<i, j>> \in Tile
    BY <1>1, <1>6 DEF Target
  <2>2. applied[<<i, j>>] >= j
    BY <1>3, <1>6, <2>1
  <2> QED
    BY <1>2, <2>1, <2>2, Tiling
<1>7. CASE IsFactor(n)
  BY <1>5, <1>7 DEF Operands
<1>8. CASE ~IsFactor(n) /\ n[2] = n[3]
  <2>1. <<n[3], n[3], n[3]>> \in S
    BY <1>1, <1>8, PredecessorsOf DEF FactorOf
  <2>2. Operands(n) = {<<n[3], n[3]>>}
    BY <1>8 DEF Operands
  <2> QED
    BY <1>5, <1>6, <2>1, <2>2
<1>9. CASE ~IsFactor(n) /\ n[2] # n[3]
  <2>1. <<n[1], n[3], n[3]>> \in S /\ <<n[2], n[3], n[3]>> \in S
    BY <1>1, <1>9, PredecessorsOf DEF SolveOf
  <2>2. Operands(n) = {<<n[1], n[3]>>, <<n[2], n[3]>>}
    BY <1>9 DEF Operands
  <2> QED
    BY <1>5, <1>6, <2>1, <2>2
<1> QED
  BY <1>7, <1>8, <1>9

\* When the last changes of a diagonal tile are due, the diagonal tiles before
\* it have been factored.
LEMMA FactorsInOrder ==
    ASSUME NEW S, SentInv(S), TilesInv(S),
           NEW a \in 1..NumTiles, NEW b \in 1..NumTiles, a < b,
           applied[<<b, b>>] >= a
    PROVE  /\ FactorOf(a) \in S
           /\ <<b, a, a>> \in S
<1>1. /\ <<b, b, a>> \in Node /\ <<b, a, a>> \in Node /\ FactorOf(a) \in Node
  BY NodeFrom, Tiling DEF FactorOf
<1>2. <<b, b, a>> \in S
  BY <1>1 DEF TilesInv, Target
<1>3. <<b, a, a>> \in S
  <2>1. SolveOf(b, a) \in Predecessors(<<b, b, a>>)
    <3>1. <<b, b, a>>[1] = b /\ <<b, b, a>>[2] = b /\ <<b, b, a>>[3] = a
      OBVIOUS
    <3>2. a # b
      BY Tiling
    <3> QED
      BY <1>1, <3>1, <3>2, PredecessorsOf
  <2> QED
    BY <1>2, <2>1 DEF SentInv, SolveOf
<1>4. FactorOf(a) \in S
  <2>1. FactorOf(a) \in Predecessors(<<b, a, a>>)
    <3>1. <<b, a, a>>[1] = b /\ <<b, a, a>>[2] = a /\ <<b, a, a>>[3] = a
      OBVIOUS
    <3>2. ~IsFactor(<<b, a, a>>)
      BY <3>1, Tiling DEF IsFactor
    <3> QED
      BY <1>1, <3>1, <3>2, PredecessorsOf
  <2> QED
    BY <1>3, <2>1 DEF SentInv
<1> QED
  BY <1>3, <1>4

LEMMA FactorNode ==
    ASSUME NEW n \in Node, IsFactor(n)
    PROVE  /\ n = FactorOf(n[1]) /\ n[2] = n[1] /\ n[3] = n[1]
           /\ Target(n) = <<n[1], n[1]>>
<1>1. n[1] \in Int /\ n[2] \in Int /\ n[3] \in Int
  BY NodeFacts, Tiling
<1>2. n[3] = n[1] /\ n[2] = n[1]
  BY <1>1, NodeFacts DEF IsFactor
<1>3. n = <<n[1], n[1], n[1]>>
  BY <1>2, NodeFacts
<1> QED
  BY <1>2, <1>3 DEF FactorOf, Target

\* The factorization nodes work one after the other.
LEMMA Exclusive ==
    ASSUME NEW S, SentInv(S), TilesInv(S), WorkInv,
           NEW m \in Node, NEW n \in Node, IsFactor(m), IsFactor(n),
           task[m] \in {"working", "cancelling"},
           task[n] \in {"working", "cancelling"}
    PROVE  m = n
<1>1. ASSUME NEW p \in Node, NEW q \in Node, IsFactor(p), IsFactor(q),
             task[p] \in {"working", "cancelling"},
             task[q] \in {"working", "cancelling"}, p[1] < q[1]
      PROVE  FALSE
  <2>1. p[1] \in 1..NumTiles /\ q[1] \in 1..NumTiles
    BY NodeFacts
  <2>2. applied[<<q[1], q[1]>>] = q[1] - 1
    BY <1>1, FactorNode DEF WorkInv
  <2>3. applied[<<q[1], q[1]>>] >= p[1]
    BY <1>1, <2>1, <2>2, Tiling
  <2>4. p \in S
    BY <1>1, <2>1, <2>3, FactorsInOrder, FactorNode
  <2> QED
    BY <1>1, <2>4 DEF SentInv
<1>2. m[1] = n[1]
  BY <1>1, NodeFacts, Tiling
<1> QED
  BY <1>2, FactorNode

\* The tile that is being factored is the first one that is not.
LEMMA FactorPosition ==
    ASSUME Control, NEW S, SentInv(S), TilesInv(S), WorkInv, ~failed,
           NEW m \in Nat, PivotInv(m), NEW n \in Node, IsFactor(n),
           task[n] \in {"working", "cancelling"}
    PROVE  n[1] = m + 1
<1> DEFINE j == n[1]
<1>1. j \in 1..NumTiles /\ NumTiles \in Nat
  BY NodeFacts, Tiling
<1>2. applied[<<j, j>>] = j - 1
  BY FactorNode DEF WorkInv
<1>3. ~(j <= m)
  BY <1>1, <1>2 DEF PivotInv
<1>4. ASSUME j > m + 1 PROVE FALSE
  <2>1. m + 1 \in 1..NumTiles /\ applied[<<j, j>>] >= m + 1
    BY <1>1, <1>2, <1>4
  <2>2. FactorOf(m + 1) \in S
    BY <1>1, <1>4, <2>1, FactorsInOrder
  <2>3. applied[<<m + 1, m + 1>>] >= m + 1
    BY <2>2 DEF TilesInv, FactorOf, Target
  <2>4. applied[<<m + 1, m + 1>>] = m + 1
    BY <2>1, <2>3 DEF Control, Tile
  <2> QED
    BY <2>1, <2>4 DEF PivotInv
<1> QED
  BY <1>1, <1>3, <1>4

-----------------------------------------------------------------------------
(***************************************************************************)
(* The steps of a run.                                                     *)
(***************************************************************************)
LEMMA InRun ==
    ASSUME Control', FlagInv', phase' = "waiting",
           NEW S \in SUBSET Node, NEW m \in Nat, RunInv(S, m)'
    PROVE  IndInv'
BY DEF IndInv

\* A task starts: its tiles are ready.
LEMMA StartNodeStep ==
    ASSUME Control, FlagInv, phase = "waiting", NEW S, NEW m \in Nat,
           RunInv(S, m), NEW n \in Node, StartNode(n)
    PROVE  IndInv'
<1> USE DEF RunInv
<1>1. /\ task[n] = "ready" /\ ~failed /\ task' = [task EXCEPT ![n] = "working"]
      /\ UNCHANGED <<received, applied, pivots, bad, failed, notified, ctx,
                     phase, result, runs, dropped>>
  BY DEF StartNode, matrix, flags, call, history
<1>2. Control' /\ FlagInv'
  BY <1>1 DEF Control, FlagInv
<1>3. /\ \A p \in Node : p # n => task'[p] = task[p]
      /\ task'[n] = "working"
  BY <1>1 DEF Control
<1>4. SentInv(S)'
  BY <1>1, <1>3 DEF SentInv
<1>5. TilesInv(S)'
  BY <1>1 DEF TilesInv
<1>6. WorkInv'
  BY <1>1, <1>3, ReadyToWork DEF WorkInv
<1>7. ProgressInv(S)'
  BY <1>1, <1>3 DEF ProgressInv
<1>8. PivotInv(m)'
  BY <1>1 DEF PivotInv
<1> QED
  BY <1>1, <1>2, <1>4, <1>5, <1>6, <1>7, <1>8, InRun DEF SentInv

\* A task of a cancelled context is lost, and history tells.
LEMMA DropNodeStep ==
    ASSUME Control, FlagInv, phase = "waiting", NEW S, NEW m \in Nat,
           RunInv(S, m), NEW n \in Node, DropNode(n)
    PROVE  IndInv'
<1> USE DEF RunInv
<1>1. /\ task[n] = "ready" /\ ctx = "cancelled"
      /\ task' = [task EXCEPT ![n] = "none"]
      /\ dropped' = TRUE
      /\ UNCHANGED <<received, applied, pivots, bad, failed, notified, ctx,
                     phase, result, runs>>
  BY DEF DropNode, matrix, flags, call
<1>2. Control' /\ FlagInv'
  BY <1>1 DEF Control, FlagInv
<1>3. /\ \A p \in Node : p # n => task'[p] = task[p]
      /\ task'[n] = "none"
  BY <1>1 DEF Control
<1>4. SentInv(S)'
  BY <1>1, <1>3 DEF SentInv
<1>5. TilesInv(S)'
  BY <1>1 DEF TilesInv
<1>6. WorkInv'
  BY <1>1, <1>3 DEF WorkInv
<1>7. ProgressInv(S)'
  BY <1>1 DEF ProgressInv
<1>8. PivotInv(m)'
  BY <1>1, <1>3 DEF PivotInv
<1> QED
  BY <1>1, <1>2, <1>4, <1>5, <1>6, <1>7, <1>8, InRun DEF SentInv

\* After a failure nodes only pass the messages on.
LEMMA SkipNodeStep ==
    ASSUME Control, FlagInv, phase = "waiting", NEW S, NEW m \in Nat,
           RunInv(S, m), NEW n \in Node, SkipNode(n)
    PROVE  IndInv'
<1> USE DEF RunInv
<1> DEFINE R == S \cup {n}
<1>1. /\ task[n] = "ready" /\ failed /\ Send(n)
      /\ UNCHANGED <<applied, pivots, bad, failed, notified, ctx, phase,
                     result, runs, dropped>>
  BY DEF SkipNode, matrix, flags, call, history
<1>2. Control' /\ FlagInv'
  BY <1>1, SendStep DEF Control, FlagInv
<1>3. /\ SentInv(R)'
      /\ \A p \in Node : task'[p] \in {"working", "cancelling"} =>
            task'[p] = task[p]
  BY <1>1, SendStep
<1>4. TilesInv(R)'
  BY <1>1 DEF TilesInv
<1>5. WorkInv'
  BY <1>1, <1>3 DEF WorkInv
<1>6. ProgressInv(R)'
  BY <1>1, SendStep DEF ProgressInv
<1>7. PivotInv(m)'
  BY <1>1, <1>3 DEF PivotInv
<1> QED
  BY <1>1, <1>2, <1>3, <1>4, <1>5, <1>6, <1>7, InRun DEF SentInv

\* The first half of a failure: nobody else counts pivots at that time.
LEMMA BreakDownStep ==
    ASSUME Control, FlagInv, phase = "waiting", NEW S, NEW m \in Nat,
           RunInv(S, m), NEW n \in Node, BreakDown(n)
    PROVE  IndInv'
<1> USE DEF RunInv
<1>1. /\ task[n] = "working" /\ IsFactor(n) /\ n[1] = bad
      /\ task' = [task EXCEPT ![n] = "cancelling"]
      /\ failed' = TRUE /\ notified' = TRUE
      /\ UNCHANGED <<received, applied, bad, ctx, phase, result, runs, dropped>>
  BY DEF BreakDown, BreaksDown, call, history
<1>2. /\ \A p \in Node : p # n => task'[p] = task[p]
      /\ task'[n] = "cancelling"
  BY <1>1 DEF Control
<1>3. ~failed
  BY <1>1 DEF PivotInv
<1>4. bad = m + 1 /\ m + 1 \in 1..NumTiles
  BY <1>1, <1>3, FactorPosition, NodeFacts
<1>5. /\ pivots = ColumnsIn(m)
      /\ ColumnsIn(m) \in 0..Height /\ ColumnsIn(m + 1) \in 0..Height
      /\ ColumnsIn(m + 1) = ColumnsIn(m) + TileWidth(m + 1)
      /\ TileWidth(m + 1) \in Nat
  BY <1>3, <1>4, ColumnsFacts, Tiling DEF PivotInv
<1>6. /\ ColumnsIn(m) <= pivots' /\ pivots' < ColumnsIn(m + 1)
      /\ pivots' \in 0..Height
  <2>1. PICK p \in 0..(TileWidth(m + 1) - 1) : pivots' = pivots + p
    BY <1>1, <1>4 DEF BreakDown
  <2>2. Height \in Nat
    BY FlowgraphAssumption
  <2> QED
    BY <1>5, <2>1, <2>2
<1>7. Control' /\ FlagInv'
  BY <1>1, <1>6 DEF Control, FlagInv
<1>8. SentInv(S)'
  BY <1>1, <1>2 DEF SentInv
<1>9. TilesInv(S)'
  BY <1>1 DEF TilesInv
<1>10. WorkInv'
  BY <1>1, <1>2 DEF WorkInv
<1>11. ProgressInv(S)'
  BY <1>1, <1>2 DEF ProgressInv
<1>12. PivotInv(m)'
  <2>1. \A p \in Node : IsFactor(p) => task'[p] # "working"
    BY <1>1, <1>2, Exclusive
  <2> QED
    BY <1>1, <1>4, <1>6, <2>1, Tiling DEF PivotInv
<1> QED
  BY <1>1, <1>7, <1>8, <1>9, <1>10, <1>11, <1>12, InRun DEF SentInv

\* The second half.
LEMMA CancelExecutionStep ==
    ASSUME Control, FlagInv, phase = "waiting", NEW S, NEW m \in Nat,
           RunInv(S, m), NEW n \in Node, CancelExecution(n)
    PROVE  IndInv'
<1> USE DEF RunInv
<1> DEFINE R == S \cup {n}
<1>1. /\ task[n] = "cancelling" /\ Send(n)
      /\ ctx' \in {ctx, "cancelled"}
      /\ UNCHANGED <<applied, pivots, bad, failed, notified, phase, result,
                     runs, dropped>>
  BY DEF CancelExecution, matrix, call, history
<1>2. failed /\ notified
  BY <1>1 DEF WorkInv, FlagInv
<1>3. Control' /\ FlagInv'
  BY <1>1, <1>2, SendStep DEF Control, FlagInv
<1>4. /\ SentInv(R)'
      /\ \A p \in Node : task'[p] \in {"working", "cancelling"} =>
            task'[p] = task[p]
  BY <1>1, SendStep
<1>5. TilesInv(R)'
  BY <1>1, <1>2 DEF TilesInv
<1>6. WorkInv'
  BY <1>1, <1>4 DEF WorkInv
<1>7. ProgressInv(R)'
  BY <1>1, <1>2, SendStep DEF ProgressInv
<1>8. PivotInv(m)'
  BY <1>1, <1>4 DEF PivotInv
<1> QED
  BY <1>1, <1>3, <1>4, <1>5, <1>6, <1>7, <1>8, InRun DEF SentInv

\* A change is made.  No other node that works has the tile for a target or an
\* operand; a factorization adds the pivots of the first tile that is left.
LEMMA FinishNodeStep ==
    ASSUME Control, FlagInv, phase = "waiting", NEW S, NEW m \in Nat,
           RunInv(S, m), NEW n \in Node, FinishNode(n)
    PROVE  IndInv'
<1> USE DEF RunInv
<1> DEFINE R == S \cup {n}
           last == IF IsFactor(n) THEN m + 1 ELSE m
<1>1. /\ task[n] = "working" /\ ~(IsFactor(n) /\ n[1] = bad) /\ Send(n)
      /\ applied' = [applied EXCEPT ![Target(n)] = @ + 1]
      /\ pivots' = IF IsFactor(n) THEN pivots + TileWidth(n[1]) ELSE pivots
      /\ UNCHANGED <<bad, failed, notified, ctx, phase, result, runs, dropped>>
  BY DEF FinishNode, BreaksDown, flags, call, history
<1>2. /\ n = <<n[1], n[2], n[3]>> /\ n[1] \in Nat /\ n[2] \in Nat
      /\ n[3] \in Nat /\ 1 <= n[3] /\ n[3] <= n[2] /\ n[2] <= n[1]
      /\ n[1] \in 1..NumTiles /\ NumTiles \in Nat
      /\ Target(n) \in Tile /\ Target(n) = <<n[1], n[2]>>
  BY NodeFacts, Tiling DEF Target
<1>3. /\ applied[Target(n)] = n[3] - 1
      /\ applied'[Target(n)] = n[3]
      /\ \A t \in Tile : t # Target(n) => applied'[t] = applied[t]
      /\ applied' \in [Tile -> Nat]
      /\ \A t \in Tile : applied'[t] <= t[2] /\ applied'[t] >= applied[t]
  <2>1. applied \in [Tile -> Nat] /\ \A t \in Tile : applied[t] <= t[2]
    BY DEF Control
  <2>2. applied[Target(n)] = n[3] - 1
    BY <1>1 DEF WorkInv
  <2>3. applied'[Target(n)] = n[3] /\ applied' \in [Tile -> Nat]
    BY <1>1, <1>2, <2>1, <2>2
  <2>4. \A t \in Tile : t # Target(n) => applied'[t] = applied[t]
    BY <1>1, <2>1
  <2>5. Target(n)[2] = n[2]
    BY <1>2
  <2> QED
    BY <1>2, <2>1, <2>2, <2>3, <2>4, <2>5
<1>4. /\ SentInv(R)'
      /\ \A p \in Node : task'[p] \in {"working", "cancelling"} =>
            p # n /\ task'[p] = task[p]
  BY <1>1, SendStep
<1>5. TilesInv(R)'
  <2>1. ASSUME NEW p \in Node, applied'[Target(p)] >= p[3] PROVE p \in R
    <3>1. CASE Target(p) # Target(n)
      BY <1>3, <2>1, <3>1, NodeFacts DEF TilesInv
    <3>2. CASE Target(p) = Target(n)
      <4>1. p[1] = n[1] /\ p[2] = n[2]
        BY <3>2 DEF Target
      <4>2. p[3] <= n[3]
        BY <1>3, <2>1, <3>2
      <4>3. p[3] = n[3] => p = n
        BY <1>2, <4>1, NodeFacts
      <4>4. p[3] # n[3] => applied[Target(p)] >= p[3]
        BY <1>2, <1>3, <3>2, <4>2, NodeFacts
      <4> QED
        BY <4>3, <4>4 DEF TilesInv
    <3> QED
      BY <3>1, <3>2
  <2>2. ASSUME ~failed, NEW p \in R PROVE applied'[Target(p)] >= p[3]
    <3>1. CASE p = n
      BY <1>2, <1>3, <3>1
    <3>2. CASE p \in S
      <4>1. p \in Node /\ Target(p) \in Tile /\ p[3] \in Nat
        BY <3>2, NodeFacts, Tiling DEF SentInv
      <4>2. applied[Target(p)] >= p[3]
        BY <2>2, <3>2 DEF TilesInv
      <4>3. applied[Target(p)] \in Nat /\ applied'[Target(p)] \in Nat
        BY <1>3, <4>1 DEF Control
      <4> QED
        BY <1>3, <4>1, <4>2, <4>3
    <3> QED
      BY <3>1, <3>2
  <2> QED
    BY <1>1, <2>1, <2>2 DEF TilesInv
<1>6. WorkInv'
  <2> SUFFICES ASSUME NEW p \in Node, task'[p] \in {"working", "cancelling"}
               PROVE  /\ applied'[Target(p)] = p[3] - 1
                      /\ \A t \in Operands(p) : applied'[t] = t[2]
                      /\ task'[p] = "cancelling" => failed'
    BY DEF WorkInv
  <2>1. /\ p # n /\ task[p] = task'[p]
        /\ applied[Target(p)] = p[3] - 1
        /\ \A t \in Operands(p) : applied[t] = t[2]
        /\ task[p] = "cancelling" => failed
    BY <1>4 DEF WorkInv
  <2>2. Target(p) # Target(n)
    <3> SUFFICES ASSUME Target(p) = Target(n) PROVE FALSE
      OBVIOUS
    <3>1. p[1] = n[1] /\ p[2] = n[2] /\ p[3] = n[3]
      BY <1>2, <1>3, <2>1, NodeFacts, Tiling DEF Target
    <3> QED
      BY <1>2, <2>1, <3>1, NodeFacts
  <2>3. Operands(p) \subseteq Tile
    BY NodeFacts, Tiling DEF Operands, Tile
  <2>4. \A t \in Operands(p) : t # Target(n)
    <3>1. applied[Target(n)] < Target(n)[2]
      BY <1>2, <1>3
    <3> QED
      BY <2>1, <3>1, <1>2, <1>3
  <2> QED
    BY <1>1, <1>3, <2>1, <2>2, <2>3, <2>4, NodeFacts
<1>7. ProgressInv(R)'
  BY <1>1, SendStep DEF ProgressInv
<1>8. last \in Nat /\ PivotInv(last)' /\ pivots' \in 0..Height
  <2>1. CASE IsFactor(n)
    <3>1. ~failed
      BY <1>1, <2>1 DEF PivotInv
    <3>2. n[1] = m + 1
      BY <1>1, <2>1, <3>1, FactorPosition
    <3>3. Target(n) = <<m + 1, m + 1>> /\ n[3] = m + 1 /\ m + 1 # bad
      BY <1>1, <2>1, <3>2, FactorNode
    <3>4. m + 1 \in 1..NumTiles
      BY <1>2, <3>2
    <3>5. pivots' = ColumnsIn(m + 1) /\ ColumnsIn(m + 1) \in 0..Height
      BY <1>1, <1>2, <2>1, <3>1, <3>2, <3>4, ColumnsFacts DEF PivotInv
    <3>6. \A j \in 1..NumTiles : applied'[<<j, j>>] = j <=> j <= m + 1
      <4> TAKE j \in 1..NumTiles
      <4>1. <<j, j>> \in Tile
        BY DEF Tile
      <4>2. CASE j = m + 1
        BY <1>3, <3>3, <4>2
      <4>3. CASE j # m + 1
        <5>1. <<j, j>> # Target(n)
          BY <3>3, <4>3
        <5>2. applied'[<<j, j>>] = applied[<<j, j>>]
          BY <1>3, <4>1, <5>1
        <5> QED
          BY <1>2, <4>3, <5>2 DEF PivotInv
      <4> QED
        BY <4>2, <4>3
    <3>7. bad # 0 => m + 1 < bad
      BY <3>3, FlowgraphAssumption, Tiling DEF PivotInv, Control
    <3> QED
      BY <1>1, <2>1, <3>1, <3>4, <3>5, <3>6, <3>7 DEF PivotInv
  <2>2. CASE ~IsFactor(n)
    <3>1. \A j \in 1..NumTiles :
             applied'[<<j, j>>] = j <=> applied[<<j, j>>] = j
      <4> TAKE j \in 1..NumTiles
      <4>1. <<j, j>> \in Tile
        BY DEF Tile
      <4>2. CASE Target(n) = <<j, j>>
        <5>1. n[1] = j /\ n[2] = j /\ n[3] # j
          BY <1>2, <2>2, <4>2 DEF IsFactor
        <5> QED
          BY <1>2, <1>3, <4>2, <5>1
      <4>3. CASE Target(n) # <<j, j>>
        BY <1>3, <4>1, <4>3
      <4> QED
        BY <4>2, <4>3
    <3>2. pivots' = pivots
      BY <1>1, <2>2
    <3>3. PivotInv(m)'
      BY <1>1, <1>4, <3>1, <3>2 DEF PivotInv
    <3> QED
      BY <2>2, <3>2, <3>3 DEF Control
  <2> QED
    BY <2>1, <2>2
<1>9. Control' /\ FlagInv'
  <2>1. FlagInv'
    BY <1>1 DEF FlagInv
  <2>2. Control'
    BY <1>1, <1>3, <1>8, SendStep DEF Control
  <2> QED
    BY <2>1, <2>2
<1> HIDE DEF last
<1> QED
  BY <1>1, <1>4, <1>5, <1>6, <1>7, <1>8, <1>9, InRun DEF SentInv

\* Others may fail, and their waits may reset the context: the flag tells.
LEMMA OthersStep ==
    ASSUME Control, FlagInv, phase = "waiting", NEW S, NEW m \in Nat,
           RunInv(S, m), OtherTaskFails \/ OtherWaitReturns
    PROVE  IndInv'
<1> USE DEF RunInv
<1>1. /\ ctx' \in {"live", "cancelled"}
      /\ notified' = (notified \/ OtherTaskFails)
      /\ UNCHANGED <<task, received, applied, pivots, bad, failed, phase,
                     result, runs, dropped>>
  BY DEF OtherTaskFails, OtherWaitReturns, Control, matrix, call, history
<1>2. notified'
  BY DEF OtherTaskFails, OtherWaitReturns, FlagInv
<1>4. Control' /\ FlagInv'
  BY <1>1, <1>2 DEF Control, FlagInv
<1>5. SentInv(S)' /\ TilesInv(S)' /\ WorkInv' /\ PivotInv(m)'
  BY <1>1 DEF SentInv, TilesInv, WorkInv, PivotInv
<1>6. ProgressInv(S)'
  BY <1>1 DEF ProgressInv
<1> QED
  BY <1>1, <1>4, <1>5, <1>6, InRun DEF SentInv

-----------------------------------------------------------------------------
(***************************************************************************)
(* The start and the end of a run.                                         *)
(***************************************************************************)
\* A run starts with the node that waits for nobody, and with the counters at
\* zero.
LEMMA RunStep ==
    ASSUME Control, FlagInv, IdleInv, ~dropped, Run
    PROVE  IndInv'
<1>1. /\ runs < MaxRuns /\ runs' = runs + 1 /\ phase' = "waiting"
      /\ bad' \in Inputs /\ pivots' = 0
      /\ failed' = FALSE /\ notified' = FALSE /\ ctx' = "live"
      /\ applied' = [t \in Tile |-> 0]
      /\ task' = [task EXCEPT ![FactorOf(1)] = "ready"]
      /\ dropped' = FALSE
      /\ UNCHANGED <<received, result>>
  BY DEF Run
<1>2. FactorOf(1) \in Node /\ Predecessors(FactorOf(1)) = {}
  <2>1. FactorOf(1) \in Node
    BY NodeFrom, Tiling DEF FactorOf
  <2>2. FactorOf(1)[1] = 1 /\ FactorOf(1)[2] = 1 /\ FactorOf(1)[3] = 1
    BY DEF FactorOf
  <2> QED
    BY <2>1, <2>2 DEF Predecessors, LastUpdate, IsFactor
<1>3. /\ \A n \in Node : n # FactorOf(1) => task'[n] = "none"
      /\ task'[FactorOf(1)] = "ready"
  BY <1>1, <1>2 DEF Control, IdleInv
<1>4. Control' /\ FlagInv'
  <2>1. 0 \in 0..Height /\ \A t \in Tile : 0 <= t[2]
    BY FlowgraphAssumption, Tiling DEF Tile
  <2>2. runs' \in 0..MaxRuns
    BY <1>1, FlowgraphAssumption DEF Control
  <2> QED
    BY <1>1, <1>2, <2>1, <2>2 DEF Control, FlagInv
<1>5. SentInv({})'
  <2>1. \A n \in Node : received'[n] = 0
    BY <1>1 DEF IdleInv
  <2>2. \A n \in Node : Cardinality(Predecessors(n) \cap {}) = 0
    BY FS_EmptySet
  <2> QED
    BY <1>2, <1>3, <2>1, <2>2 DEF SentInv
<1>6. TilesInv({})'
  <2>1. \A n \in Node : ~(applied'[Target(n)] >= n[3])
    BY <1>1, NodeFacts, Tiling
  <2> QED
    BY <2>1 DEF TilesInv
<1>7. WorkInv'
  BY <1>3 DEF WorkInv
<1>8. ProgressInv({})'
  BY <1>3, PredecessorFacts DEF ProgressInv
<1>9. PivotInv(0)'
  <2>1. \A j \in 1..NumTiles : applied'[<<j, j>>] = 0
    BY <1>1 DEF Tile
  <2>2. bad' # 0 => 0 < bad'
    BY <1>1, FlowgraphAssumption, Tiling
  <2> QED
    BY <1>1, <2>1, <2>2, ColumnsFacts, Tiling DEF PivotInv
<1>10. (runs > 0)'
  BY <1>1 DEF Control
<1> QED
  BY <1>1, <1>4, <1>5, <1>6, <1>7, <1>8, <1>9, <1>10, InRun DEF RunInv

\* Without tasks that were lost, a graph that is quiet has run completely.
LEMMA QuietMeansSent ==
    ASSUME NEW S, SentInv(S), ProgressInv(S), \A n \in Node : task[n] = "none",
           ~dropped
    PROVE  S = Node
<1>1. \A n \in Node : Predecessors(n) \subseteq S => n \in S
  BY DEF ProgressInv
<1> QED
  BY <1>1, AllNodes DEF SentInv

\* All pivots are counted only if every tile has had all its changes.
LEMMA AllPivots ==
    ASSUME Control, NEW S, NEW m \in Nat, RunInv(S, m), pivots = Height
    PROVE  bad = 0 /\ \A t \in Tile : applied[t] = t[2]
<1> USE DEF RunInv
<1>1. /\ m \in 0..NumTiles /\ NumTiles \in Nat /\ Height \in Nat
      /\ ColumnsIn(m) \in 0..Height
  BY ColumnsFacts, Tiling, FlowgraphAssumption DEF PivotInv
<1>2. m < NumTiles =>
          /\ ColumnsIn(m + 1) \in 0..Height /\ TileWidth(m + 1) \in Nat \ {0}
          /\ ColumnsIn(m + 1) = ColumnsIn(m) + TileWidth(m + 1)
  BY <1>1, ColumnsFacts
<1>3. ~failed
  BY <1>1, <1>2 DEF PivotInv
<1>4. m = NumTiles
  BY <1>1, <1>2, <1>3 DEF PivotInv
<1>5. bad = 0
  BY <1>1, <1>4, FlowgraphAssumption DEF PivotInv, Control
<1>6. ASSUME NEW t \in Tile PROVE applied[t] = t[2]
  <2>1. /\ t = <<t[1], t[2]>> /\ t[1] \in 1..NumTiles /\ t[2] \in 1..NumTiles
        /\ t[2] <= t[1]
        /\ applied[t] \in Nat /\ applied[t] <= t[2]
    BY DEF Tile, Control
  <2>2. applied[<<t[1], t[1]>>] = t[1]
    BY <1>4, <2>1 DEF PivotInv
  <2>3. CASE t[1] = t[2]
    BY <2>1, <2>2, <2>3
  <2>4. CASE t[1] # t[2]
    <3>1. t[2] < t[1] /\ applied[<<t[1], t[1]>>] >= t[2]
      BY <1>1, <2>1, <2>2, <2>4
    <3>2. <<t[1], t[2], t[2]>> \in S
      BY <2>1, <3>1, FactorsInOrder
    <3>3. applied[<<t[1], t[2]>>] >= t[2]
      BY <1>3, <3>2 DEF TilesInv, Target
    <3> QED
      BY <1>1, <2>1, <3>3
  <2> QED
    BY <2>3, <2>4
<1> QED
  BY <1>5, <1>6

\* A run without a failure counts all pivots.
LEMMA NoFailure ==
    ASSUME Control, FlagInv, NEW S, NEW m \in Nat, RunInv(S, m), S = Node,
           ~failed
    PROVE  pivots = Height
<1> USE DEF RunInv
<1>1. FactorOf(NumTiles) \in Node
  BY NodeFrom, Tiling DEF FactorOf
<1>2. applied[<<NumTiles, NumTiles>>] >= NumTiles
  BY <1>1 DEF TilesInv, FactorOf, Target
<1>3. applied[<<NumTiles, NumTiles>>] = NumTiles
  BY <1>2, Tiling DEF Control, Tile
<1>4. m = NumTiles
  BY <1>3, Tiling DEF PivotInv
<1> QED
  BY <1>4 DEF PivotInv, ColumnsIn

\* The wait returns, with counters at zero unless tasks were lost unseen.
LEMMA WaitReturnsStep ==
    ASSUME Control, FlagInv, phase = "waiting",
           NEW S, NEW m \in Nat, RunInv(S, m), WaitReturns
    PROVE  IndInv'
<1>1. /\ \A n \in Node : task[n] = "none"
      /\ phase' = "idle" /\ result' = pivots /\ ctx' = "live"
      /\ received' = IF ctx = "cancelled" THEN [n \in Node |-> 0] ELSE received
      /\ dropped' = (dropped /\ ctx = "live")
      /\ UNCHANGED <<task, applied, pivots, bad, failed, notified, runs>>
  BY DEF WaitReturns, matrix
<1>2. Control' /\ FlagInv'
  <2>1. pivots \in -1..Height
    BY FlowgraphAssumption DEF Control
  <2>2. /\ received' \in [Node -> Nat]
        /\ \A n \in Node : received'[n] # 0 =>
              received'[n] < Cardinality(Predecessors(n))
    BY <1>1 DEF Control
  <2> QED
    BY <1>1, <2>1, <2>2 DEF Control, FlagInv
<1>3. ASSUME ~dropped', NEW n \in Node PROVE received'[n] = 0
  <2>1. CASE ctx = "cancelled"
    BY <1>1, <2>1
  <2>2. CASE ctx = "live"
    <3>1. ~dropped
      BY <1>1, <1>3, <2>2
    <3>2. S = Node
      BY <1>1, <3>1, QuietMeansSent DEF RunInv
    <3>3. received[n] = 0
      BY <3>2, PredecessorFacts DEF RunInv, SentInv
    <3> QED
      BY <1>1, <2>2, <3>3
  <2> QED
    BY <2>1, <2>2 DEF Control
<1>4. pivots = Height => bad = 0 /\ \A t \in Tile : applied[t] = t[2]
  BY AllPivots
<1>5. pivots < Height => notified
  <2> SUFFICES ASSUME ~notified PROVE ~(pivots < Height)
    OBVIOUS
  <2>1. S = Node /\ ~failed
    BY <1>1, QuietMeansSent DEF RunInv, FlagInv
  <2>2. pivots = Height
    BY <2>1, NoFailure
  <2> QED
    BY <2>2, FlowgraphAssumption
<1>6. IdleInv'
  <2>1. result' <= Height
    BY <1>1, FlowgraphAssumption DEF Control
  <2> QED
    BY <1>1, <1>3, <1>4, <1>5, <2>1 DEF IdleInv, RunReturnsTruth
<1> QED
  BY <1>1, <1>2, <1>6 DEF IndInv

-----------------------------------------------------------------------------
(***************************************************************************)
(* The invariants hold.                                                    *)
(***************************************************************************)
LEMMA InitIndInv == Init => IndInv /\ Basic
<1> SUFFICES ASSUME Init PROVE IndInv /\ Basic
  OBVIOUS
<1>1. /\ 0 \in 0..Height /\ -1 \in -1..Height /\ 0 \in 0..MaxRuns
      /\ \A t \in Tile : 0 <= t[2]
  BY FlowgraphAssumption, Tiling DEF Tile
<1>2. Control /\ FlagInv
  BY <1>1 DEF Init, Control, FlagInv
<1>3. IdleInv
  BY DEF Init, IdleInv, RunReturnsTruth
<1>4. Basic
  BY <1>1, <1>2 DEF Init, Basic, TypeOK
<1> QED
  BY <1>2, <1>3, <1>4 DEF Init, IndInv

\* Whatever the counters start with, a message that is not the last one keeps
\* a counter below the number of predecessors.
LEMMA SendKeepsTypes ==
    ASSUME TypeOK, NEW n \in Node, Send(n)
    PROVE  /\ received' \in [Node -> Nat]
           /\ task' \in [Node -> {"none", "ready", "working", "cancelling"}]
           /\ \A m \in Node : received'[m] # 0 =>
                 received'[m] < Cardinality(Predecessors(m))
           /\ \A m \in Node : task'[m] = "cancelling" => task[m] = "cancelling"
<1> DEFINE completed == CompletedBy(n)
<1>1. /\ received' = [m \in Node |->
                IF m \in completed THEN 0
                ELSE IF m \in Successors(n) THEN received[m] + 1
                ELSE received[m]]
      /\ task' = [m \in Node |->
                IF m = n THEN "none"
                ELSE IF m \in completed THEN "ready"
                ELSE task[m]]
  BY DEF Send
<1>2. \A m \in Node : received[m] \in Nat /\ Cardinality(Predecessors(m)) \in Nat
  BY PredecessorFacts, FS_CardinalityType DEF TypeOK
<1>3. ASSUME NEW m \in Node, m \in Successors(n), m \notin completed
      PROVE  received[m] + 1 < Cardinality(Predecessors(m))
  BY <1>2, <1>3 DEF CompletedBy
<1> HIDE DEF completed
<1>4. \A m \in Node : received'[m] # 0 =>
          received'[m] < Cardinality(Predecessors(m))
  BY <1>1, <1>3 DEF TypeOK
<1>5. received' \in [Node -> Nat]
  BY <1>1, <1>2
<1>6. /\ task' \in [Node -> {"none", "ready", "working", "cancelling"}]
      /\ \A m \in Node : task'[m] = "cancelling" => task[m] = "cancelling"
  BY <1>1 DEF TypeOK
<1> QED
  BY <1>4, <1>5, <1>6

\* A node's step keeps the types and the order of notice and cancellation.
LEMMA BodyKeepsBasic ==
    ASSUME Basic, NEW n \in Node, Body(n)
    PROVE  Basic'
<1> USE DEF Basic
<1>1. phase = "waiting" /\ UNCHANGED <<phase, result, runs, bad, unseen>>
  <2>1. task[n] # "none"
    BY DEF Body, StartNode, SkipNode, DropNode, FinishNode, BreakDown,
       CancelExecution
  <2>2. UNCHANGED <<phase, result, runs, bad, unseen>>
    BY DEF Body, StartNode, SkipNode, DropNode, FinishNode, BreakDown,
       CancelExecution, matrix, call, history
  <2> QED
    BY <2>1, <2>2 DEF TypeOK
<1>2. CASE StartNode(n)
  BY <1>1, <1>2 DEF StartNode, TypeOK, FlagInv, matrix, flags, history
<1>3. CASE SkipNode(n)
  <2>1. Send(n) /\ UNCHANGED <<applied, pivots, failed, notified, ctx, dropped>>
    BY <1>3 DEF SkipNode, matrix, flags, history
  <2> QED
    BY <1>1, <2>1, SendKeepsTypes DEF TypeOK, FlagInv
<1>4. CASE DropNode(n)
  <2>1. /\ ctx = "cancelled" /\ task' = [task EXCEPT ![n] = "none"]
        /\ dropped' = TRUE
        /\ UNCHANGED <<received, applied, pivots, failed, notified, ctx>>
    BY <1>4 DEF DropNode, matrix, flags
  <2> QED
    BY <1>1, <2>1 DEF TypeOK, FlagInv
<1>5. CASE FinishNode(n)
  <2>1. /\ Send(n) /\ applied' = [applied EXCEPT ![Target(n)] = @ + 1]
        /\ pivots' \in {pivots, pivots + TileWidth(n[1])}
        /\ UNCHANGED <<failed, notified, ctx, dropped>>
    BY <1>5 DEF FinishNode, flags, history
  <2>2. TileWidth(n[1]) \in Nat
    BY NodeFacts, ColumnsFacts
  <2>3. applied' \in [Tile -> Nat] /\ pivots' \in Nat
    BY <2>1, <2>2, NodeFacts DEF TypeOK
  <2> QED
    BY <1>1, <2>1, <2>3, SendKeepsTypes DEF TypeOK, FlagInv
<1>6. CASE BreakDown(n)
  <2>1. /\ \E p \in 0..(TileWidth(n[1]) - 1) : pivots' = pivots + p
        /\ failed' = TRUE /\ notified' = TRUE
        /\ task' = [task EXCEPT ![n] = "cancelling"]
        /\ UNCHANGED <<received, applied, ctx, dropped>>
    BY <1>6 DEF BreakDown, history
  <2>2. pivots' \in Nat
    BY <2>1 DEF TypeOK
  <2> QED
    BY <1>1, <2>1, <2>2 DEF TypeOK, FlagInv
<1>7. CASE CancelExecution(n)
  <2>1. /\ task[n] = "cancelling" /\ Send(n)
        /\ ctx' = IF Cancellation THEN "cancelled" ELSE ctx
        /\ UNCHANGED <<applied, pivots, failed, notified, dropped>>
    BY <1>7 DEF CancelExecution, matrix, history
  <2> QED
    BY <1>1, <2>1, SendKeepsTypes DEF TypeOK, FlagInv
<1> QED
  BY <1>2, <1>3, <1>4, <1>5, <1>6, <1>7 DEF Body

LEMMA BasicStep == Basic /\ [Next]_vars => Basic'
<1> SUFFICES ASSUME Basic, [Next]_vars PROVE Basic'
  OBVIOUS
<1> USE DEF Basic
<1>1. CASE Run
  <2>1. /\ runs < MaxRuns /\ runs' = runs + 1 /\ phase' = "waiting"
        /\ bad' \in Inputs /\ pivots' = 0
        /\ failed' = FALSE /\ notified' = FALSE /\ ctx' = "live"
        /\ applied' = [t \in Tile |-> 0]
        /\ task' = [task EXCEPT ![FactorOf(1)] = "ready"]
        /\ dropped' = FALSE /\ unseen' = (unseen \/ dropped)
        /\ UNCHANGED <<received, result>>
    BY <1>1 DEF Run
  <2>2. /\ runs' \in 0..MaxRuns /\ phase = "idle"
        /\ unseen' \in BOOLEAN
    BY <1>1, <2>1, FlowgraphAssumption DEF Run, TypeOK
  <2>3. /\ task' \in [Node -> {"none", "ready", "working", "cancelling"}]
        /\ \A n \in Node : task'[n] # "cancelling"
    BY <2>1, <2>2 DEF TypeOK
  <2> QED
    BY <2>1, <2>2, <2>3 DEF TypeOK, FlagInv
<1>2. CASE WaitReturns
  <2>1. /\ \A n \in Node : task[n] = "none"
        /\ phase' = "idle" /\ result' = pivots /\ ctx' = "live"
        /\ received' = IF ctx = "cancelled" THEN [n \in Node |-> 0]
                       ELSE received
        /\ dropped' = (dropped /\ ctx = "live")
        /\ UNCHANGED <<task, applied, pivots, bad, failed, notified, runs,
                       unseen>>
    BY <1>2 DEF WaitReturns, matrix
  <2>2. /\ received' \in [Node -> Nat]
        /\ \A n \in Node : received'[n] # 0 =>
              received'[n] < Cardinality(Predecessors(n))
        /\ dropped' \in BOOLEAN
    BY <2>1 DEF TypeOK
  <2> QED
    BY <2>1, <2>2 DEF TypeOK, FlagInv
<1>3. CASE OtherTaskFails \/ OtherWaitReturns
  <2>1. /\ ctx' \in {"live", "cancelled"} /\ notified' = TRUE
        /\ ~Cancellation => ctx' = "live"
        /\ UNCHANGED <<task, received, applied, pivots, bad, failed, phase,
                       result, runs, dropped, unseen>>
    BY <1>3 DEF OtherTaskFails, OtherWaitReturns, matrix, call, history,
       TypeOK, FlagInv
  <2> QED
    BY <2>1 DEF TypeOK, FlagInv
<1>4. CASE UNCHANGED vars
  BY <1>4 DEF vars, matrix, flags, call, history, TypeOK, FlagInv
<1> QED
  BY <1>1, <1>2, <1>3, <1>4, BodyKeepsBasic DEF Next, Terminated

LEMMA IndInvHolds == Spec => [](Basic /\ (unseen \/ IndInv))
<1>1. ASSUME Basic, unseen \/ IndInv, [Next]_vars, ~unseen' PROVE IndInv'
  <2>0. ~unseen
    BY <1>1 DEF Next, Terminated, Run, WaitReturns, Body, StartNode, SkipNode,
       DropNode, FinishNode, BreakDown, CancelExecution, OtherTaskFails,
       OtherWaitReturns, vars, history
  <2>1. IndInv /\ Control /\ FlagInv
    BY <1>1, <2>0 DEF IndInv
  <2>2. CASE Run
    <3>1. ~dropped /\ phase = "idle"
      BY <1>1, <2>2 DEF Run
    <3> QED
      BY <2>1, <2>2, <3>1, RunStep DEF IndInv
  <2>3. CASE WaitReturns
    <3>1. phase = "waiting"
      BY <2>3 DEF WaitReturns
    <3>2. PICK S \in SUBSET Node, m \in Nat : RunInv(S, m)
      BY <2>1, <3>1 DEF IndInv
    <3> QED
      BY <2>1, <2>3, <3>1, <3>2, WaitReturnsStep
  <2>4. ASSUME NEW n \in Node, Body(n) PROVE IndInv'
    <3>1. task[n] # "none"
      BY <2>4 DEF Body, StartNode, SkipNode, DropNode, FinishNode, BreakDown,
         CancelExecution
    <3>2. phase = "waiting"
      BY <2>1, <3>1 DEF IndInv, IdleInv, Control
    <3>3. PICK S \in SUBSET Node, m \in Nat : RunInv(S, m)
      BY <2>1, <3>2 DEF IndInv
    <3>4. CASE StartNode(n)
      BY <2>1, <3>2, <3>3, <3>4, StartNodeStep
    <3>5. CASE SkipNode(n)
      BY <2>1, <3>2, <3>3, <3>5, SkipNodeStep
    <3>6. CASE DropNode(n)
      BY <2>1, <3>2, <3>3, <3>6, DropNodeStep
    <3>7. CASE FinishNode(n)
      BY <2>1, <3>2, <3>3, <3>7, FinishNodeStep
    <3>8. CASE BreakDown(n)
      BY <2>1, <3>2, <3>3, <3>8, BreakDownStep
    <3>9. CASE CancelExecution(n)
      BY <2>1, <3>2, <3>3, <3>9, CancelExecutionStep
    <3> QED
      BY <2>4, <3>4, <3>5, <3>6, <3>7, <3>8, <3>9 DEF Body
  <2>5. CASE OtherTaskFails \/ OtherWaitReturns
    <3>1. phase = "waiting"
      BY <2>5 DEF OtherTaskFails, OtherWaitReturns
    <3>2. PICK S \in SUBSET Node, m \in Nat : RunInv(S, m)
      BY <2>1, <3>1 DEF IndInv
    <3> QED
      BY <2>1, <2>5, <3>1, <3>2, OthersStep
  <2>6. CASE UNCHANGED vars
    BY <2>1, <2>6 DEF vars, matrix, flags, call, history, IndInv, Control,
       FlagInv, RunInv, SentInv, TilesInv, WorkInv, ProgressInv, PivotInv,
       IdleInv, RunReturnsTruth
  <2> QED
    BY <1>1, <2>2, <2>3, <2>4, <2>5, <2>6 DEF Next, Terminated
<1>2. Basic /\ (unseen \/ IndInv) /\ [Next]_vars
          => (Basic /\ (unseen \/ IndInv))'
  BY <1>1, BasicStep
<1> QED
  BY <1>2, InitIndInv, PTL DEF Spec

-----------------------------------------------------------------------------
(***************************************************************************)
(* The theorems, for every size, tile size, matrix, failure of others and  *)
(* reset by others.                                                        *)
(***************************************************************************)
\* Until a run has lost tasks unseen, the body of a node works on a tile that
\* has had all earlier changes and no later one, and reads only final tiles.
THEOREM OperandsAreReady == Spec => []OperandsReady
<1>1. IndInv => OperandsReady
  BY DEF IndInv, IdleInv, RunInv, WorkInv, OperandsReady, OperandsAlwaysReady,
     Control
<1>2. Basic /\ (unseen \/ IndInv) => OperandsReady
  BY <1>1 DEF OperandsReady
<1> QED
  BY <1>2, IndInvHolds, PTL

\* Until then, two factorization nodes never count pivots at the same time.
THEOREM PivotsAreExclusive == Spec => []PivotsExclusive
<1>1. IndInv => PivotsExclusive
  <2> SUFFICES ASSUME IndInv,
                      NEW m \in Node, NEW n \in Node, IsFactor(m), IsFactor(n),
                      task[m] = "working", task[n] \in {"working", "cancelling"}
               PROVE  m = n
    BY DEF PivotsExclusive
  <2>1. phase = "waiting"
    BY DEF IndInv, IdleInv, Control
  <2>2. PICK S \in SUBSET Node, k \in Nat : RunInv(S, k)
    BY <2>1 DEF IndInv
  <2> QED
    BY <2>2, Exclusive DEF RunInv
<1>2. Basic /\ (unseen \/ IndInv) => PivotsExclusive
  BY <1>1 DEF PivotsExclusive
<1> QED
  BY <1>2, IndInvHolds, PTL

\* The flag of the sparse factorization is set before the context is cancelled,
\* in every run.
THEOREM CancellationFollowsNotice == Spec => []CancelledOnlyAfterNotified
<1>1. Basic => CancelledOnlyAfterNotified
  BY DEF Basic, FlagInv, CancelledOnlyAfterNotified
<1> QED
  BY <1>1, IndInvHolds, PTL

\* A run returns all pivots only if the whole matrix has been factored, fewer
\* only after a notice of failure and never more: every run up to and including
\* the first that loses tasks unseen.
THEOREM ResultsAreTrue == Spec => []RunReturnsTruth
<1>1. IndInv => RunReturnsTruth
  BY DEF IndInv, IdleInv, RunReturnsTruth
<1>2. Basic /\ (unseen \/ IndInv) => RunReturnsTruth
  BY <1>1 DEF RunReturnsTruth
<1> QED
  BY <1>2, IndInvHolds, PTL

\* Every variable keeps its type, and no counter overtakes its node, even when
\* counters start a run with messages of an earlier one.
THEOREM TypeCorrect == Spec => []TypeOK
<1>1. Basic => TypeOK
  BY DEF Basic
<1> QED
  BY <1>1, IndInvHolds, PTL

\* Where cancellation is disabled (CATAMARI_DISABLE_TBB_CANCELLATION), the
\* operands are ready in every run.
THEOREM ReadyWithoutCancellation ==
    ASSUME ~Cancellation PROVE Spec => []OperandsAlwaysReady
<1>1. Basic => ~unseen
  BY DEF Basic
<1>2. Basic /\ (unseen \/ IndInv) => OperandsAlwaysReady
  BY <1>1 DEF IndInv, IdleInv, RunInv, WorkInv, OperandsAlwaysReady, Control
<1> QED
  BY <1>2, IndInvHolds, PTL
=============================================================================
