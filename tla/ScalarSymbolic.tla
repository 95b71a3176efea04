--------------------------- MODULE ScalarSymbolic ---------------------------
(***************************************************************************)
(* Symbolic analysis column by column: orderings and the forests that come *)
(* with them, the elimination forest of a permuted symmetric matrix, the   *)
(* degrees of its columns, and their structures.                           *)
(*                                                                         *)
(* Indices count from 1; None stands for the code's -1.  A loop over the   *)
(* rows is a recursive function of the number of rows done.                *)
(***************************************************************************)
EXTENDS CoordinateMatrix

\* The types of a symmetric factorization.
Cholesky == "Cholesky"
LDLAdjoint == "LDLAdjoint"
LDLTranspose == "LDLTranspose"

None == 0
Indices(n) == <<>> \o [i \in 1..n |-> i]
Constant(n, value) == <<>> \o [i \in 1..n |-> value]

\* exclusive scan, with the total at the end
OffsetScan(sizes) ==
    LET scan[k \in 0..Len(sizes)] ==
            IF k = 0 THEN <<0>>
            ELSE LET prev == scan[k - 1] IN Append(prev, Last(prev) + sizes[k])
    IN  scan[Len(sizes)]

\* next(state, x) over the elements of a sequence, in order
Through(seq, start, next(_, _)) ==
    LET state[k \in 0..Len(seq)] ==
            IF k = 0 THEN start
            ELSE LET prev == state[k - 1] IN next(prev, seq[k])
    IN  state[Len(seq)]

\* The elements of a sequence that pass the test, in order.
Filtered(seq, Test(_)) ==
    Through(seq, <<>>, LAMBDA done, x : IF Test(x) THEN Append(done, x) ELSE done)

-----------------------------------------------------------------------------
(***************************************************************************)
(* Forests and orderings.                                                  *)
(***************************************************************************)
FillFromParents(parents) ==
    [parents |-> parents,
     children |-> <<>> \o [p \in DOMAIN parents |->
         Filtered(Indices(Len(parents)), LAMBDA i : parents[i] = p)],
     roots |-> Filtered(Indices(Len(parents)), LAMBDA i : parents[i] = None),
     postorder |-> <<>>, firsts |-> <<>>]

\* The vertices below root, children first and from left to right.
FillPostorderImpl(root, forest) ==
    LET subtree[s \in DOMAIN forest.parents] ==
            Append(Through(forest.children[s], <<>>,
                           LAMBDA done, child : done \o subtree[child]), s)
    IN  subtree[root]

\* An empty list of children is taken for a missing FillFromParents.
PostorderIsRefused(forest) ==
    \/ \A p \in DOMAIN forest.parents : forest.children[p] = <<>>
    \/ forest.postorder # <<>> /\ Len(forest.postorder) # Len(forest.parents)

FillPostorder(forest) ==
    LET order == Through(forest.roots, <<>>, LAMBDA done, root :
                     done \o FillPostorderImpl(root, forest))
        place(s) == CHOOSE k \in DOMAIN order : order[k] = s
    IN  IF forest.postorder # <<>> THEN forest
        ELSE [forest EXCEPT
                 !.postorder = order,
                 !.firsts = <<>> \o [s \in DOMAIN forest.parents |->
                     place(s) + 1 - Len(FillPostorderImpl(s, forest))]]

\* An ordering without a permutation leaves every index in place.
ToNew(o, i) == IF o.permutation = <<>> THEN i ELSE o.permutation[i]
ToOld(o, i) == IF o.permutation = <<>> THEN i ELSE o.inverse[i]

PermuteMatrix(m, o) ==
    LET row(i) == SortSeq(
            <<>> \o [k \in 1..NumRowEntries(m, o.inverse[i]) |->
                LET e == RowEntries(m, o.inverse[i])[k]
                IN  Entry(i, o.permutation[e.column], e.value)], Precedes)
    IN  UpdateRowEntryOffsets(
            [Resize(EmptyMatrix, m.rows, m.rows) EXCEPT !.entries =
                Through(Indices(m.rows), <<>>, LAMBDA done, i : done \o row(i))])

\* A row of the permuted matrix, still in the order of the original columns.
PermutedRow(m, o, row) ==
    LET stored == RowEntries(m, ToOld(o, row))
    IN  <<>> \o [k \in DOMAIN stored |->
                    Entry(row, ToNew(o, stored[k].column), stored[k].value)]

\* The columns of its strictly lower and strictly upper part.
LowerColumns(m, o, row) ==
    Filtered([k \in DOMAIN PermutedRow(m, o, row) |->
                 PermutedRow(m, o, row)[k].column], LAMBDA c : c < row)
UpperColumns(m, o, row) ==
    Filtered([k \in DOMAIN PermutedRow(m, o, row) |->
                 PermutedRow(m, o, row)[k].column], LAMBDA c : c > row)

\* The indices met from column on by following up, until one is in stops.
Path(up, column, stops) ==
    LET path[i \in DOMAIN up \cup {None}] ==
            IF i \in stops THEN <<>> ELSE <<i>> \o path[up[i]]
    IN  path[column]

-----------------------------------------------------------------------------
(***************************************************************************)
(* The elimination forest, with path compression, and its postorder.       *)
(***************************************************************************)
\* Every index on the way points to row; the one without ancestor is its child.
ProcessEdge(s, row, column) ==
    LET path == Path(s.ancestors, column, {None, row})
        tops == {i \in Range(path) : s.ancestors[i] = None}
    IN  [parents |-> <<>> \o [i \in DOMAIN s.parents |->
             IF i \in tops THEN row ELSE s.parents[i]],
         ancestors |-> <<>> \o [i \in DOMAIN s.parents |->
             IF i \in Range(path) THEN row ELSE s.ancestors[i]]]

EliminationForest(m, o) ==
    Through(Indices(m.rows),
            [parents |-> Constant(m.rows, None),
             ancestors |-> Constant(m.rows, None)],
            LAMBDA s, row : Through(LowerColumns(m, o, row), s,
                LAMBDA t, column : ProcessEdge(t, row, column))).parents

\* The lists are filled from the last row to the first, so the depth-first
\* search meets children in increasing order.
PostorderFromEliminationForest(parents) ==
    LET forest == FillFromParents(parents)
    IN  Through(forest.roots, <<>>, LAMBDA done, root :
            done \o FillPostorderImpl(root, forest))

-----------------------------------------------------------------------------
(***************************************************************************)
(* Degrees from the skeleton of the matrix, after Gilbert, Ng and Peyton.  *)
(***************************************************************************)
\* The first descendant of every row, by its place in the postorder; a row
\* without one when it is reached is a leaf, with a column count of one.
FirstDescendants(parents, postorder) ==
    Through(Indices(Len(postorder)),
            [firsts |-> Constant(Len(parents), None),
             counts |-> Constant(Len(parents), 0)],
            LAMBDA s, post :
                LET row == postorder[post]
                    known == {i \in DOMAIN parents : s.firsts[i] # None}
                    path == Path(parents, row, known \cup {None})
                IN  [firsts |-> <<>> \o [i \in DOMAIN parents |->
                         IF i \in Range(path) THEN post ELSE s.firsts[i]],
                     counts |-> [s.counts EXCEPT ![row] =
                         IF s.firsts[row] = None THEN 1 ELSE 0]])

\* The root of the set of i, and the sets with i's path compressed.
SetRoot(sets, i) ==
    LET root[k \in DOMAIN sets] == IF sets[k] = k THEN k ELSE root[sets[k]]
    IN  root[i]
Compressed(sets, i) ==
    LET path == Path(sets, i, {k \in DOMAIN sets : sets[k] = k} \cup {None})
    IN  <<>> \o [k \in DOMAIN sets |->
            IF k \in Range(path) THEN SetRoot(sets, i) ELSE sets[k]]

\* An entry below the diagonal in column row, at row `column`: row is a leaf
\* of the row subtree of column if its subtree has no neighbour of it yet.
SkeletonEntry(s, firsts, post, row, column) ==
    LET leaf == s.leafs[column]
        isLeaf == firsts[row] > s.neighbors[column]
        overlap == IF leaf = None THEN None ELSE SetRoot(s.sets, leaf)
    IN  [s EXCEPT
            !.neighbors[column] = post,
            !.counts = <<>> \o [i \in DOMAIN s.counts |->
                IF ~isLeaf THEN s.counts[i]
                ELSE s.counts[i] + (IF i = row THEN 1 ELSE 0)
                                 - (IF i = overlap THEN 1 ELSE 0)],
            !.sets = IF isLeaf /\ leaf # None
                     THEN Compressed(s.sets, leaf) ELSE s.sets,
            !.leafs[column] = IF isLeaf THEN row ELSE leaf]

SkeletonRow(m, o, parents, firsts, s, post, row) ==
    LET counted == IF parents[row] = None THEN s
                   ELSE [s EXCEPT !.counts[parents[row]] = @ - 1]
        seen == [counted EXCEPT !.neighbors[row] = post]
        done == Through(UpperColumns(m, o, row), seen, LAMBDA t, column :
                    SkeletonEntry(t, firsts, post, row, column))
    IN  IF parents[row] = None THEN done
        ELSE [done EXCEPT !.sets[row] = parents[row]]

\* Column counts add up along the tree, and a degree leaves out the diagonal.
AccumulateCounts(parents, counts) ==
    Through(Indices(Len(parents)), counts, LAMBDA s, row :
        LET below == IF parents[row] = None THEN s
                     ELSE [s EXCEPT ![parents[row]] = @ + s[row]]
        IN  [below EXCEPT ![row] = @ - 1])

DegreesFromEliminationForest(m, o, parents, postorder) ==
    LET n == Len(parents)
        first == FirstDescendants(parents, postorder)
        skeleton == Through(Indices(n),
            [counts |-> first.counts, neighbors |-> Constant(n, None),
             leafs |-> Constant(n, None), sets |-> Indices(n)],
            LAMBDA s, post :
                SkeletonRow(m, o, parents, first.firsts, s, post, postorder[post]))
    IN  AccumulateCounts(parents, skeleton.counts)

EliminationForestAndDegrees(m, o) ==
    LET parents == EliminationForest(m, o)
        postorder == PostorderFromEliminationForest(parents)
    IN  [parents |-> parents,
         degrees |-> DegreesFromEliminationForest(m, o, parents, postorder)]

-----------------------------------------------------------------------------
(***************************************************************************)
(* Forest and degrees from the row patterns, without path compression.     *)
(***************************************************************************)
SimpleEliminationForestAndDegrees(m, o) ==
    LET edge(s, row, column) ==
            LET path == Path(s.parents, column, s.marked \cup {None})
            IN  [marked |-> s.marked \cup Range(path),
                 parents |-> <<>> \o [i \in DOMAIN s.parents |->
                     IF i \in Range(path) /\ s.parents[i] = None
                     THEN row ELSE s.parents[i]],
                 degrees |-> <<>> \o [i \in DOMAIN s.degrees |->
                     s.degrees[i] + (IF i \in Range(path) THEN 1 ELSE 0)]]
        done == Through(Indices(m.rows),
            [parents |-> Constant(m.rows, None),
             degrees |-> Constant(m.rows, 0), marked |-> {}],
            LAMBDA s, row : Through(LowerColumns(m, o, row),
                [s EXCEPT !.marked = {row}],
                LAMBDA t, column : edge(t, row, column)))
    IN  [parents |-> done.parents, degrees |-> done.degrees]

-----------------------------------------------------------------------------
(***************************************************************************)
(* Row patterns: the paths from the entries of a row up the forest.        *)
(***************************************************************************)
RowPaths(m, o, parents, row) ==
    Through(LowerColumns(m, o, row), <<>>, LAMBDA paths, column :
        Append(paths, Path(parents, column,
            {row} \cup UNION {Range(paths[k]) : k \in DOMAIN paths})))

ComputeRowPattern(m, o, parents, row) ==
    Through(RowPaths(m, o, parents, row), <<>>,
            LAMBDA done, path : done \o path)

\* Each path goes to the front of what is packed, so that a column comes
\* before everything it updates.
ComputeTopologicalRowPatternAndScatterNonzeros(m, o, parents, row) ==
    LET entries == PermutedRow(m, o, row)
    IN  [pattern |-> Through(RowPaths(m, o, parents, row), <<>>,
                             LAMBDA done, path : path \o done),
         scattered |-> <<>> \o [c \in 1..row |->
             IF \E k \in DOMAIN entries : entries[k].column = c
             THEN entries[CHOOSE k \in DOMAIN entries :
                              entries[k].column = c].value
             ELSE Zero]]

\* The rows of each column of the factor, in increasing order.
FillStructureIndices(m, o, parents) ==
    Through(Indices(m.rows), Constant(m.rows, <<>>), LAMBDA s, row :
        LET pattern == Range(ComputeRowPattern(m, o, parents, row))
        IN  <<>> \o [c \in DOMAIN s |->
                IF c \in pattern THEN Append(s[c], row) ELSE s[c]])
=============================================================================
