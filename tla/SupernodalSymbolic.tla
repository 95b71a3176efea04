------------------------- MODULE SupernodalSymbolic -------------------------
(***************************************************************************)
(* Symbolic analysis by supernodes: fundamental supernodes from the scalar *)
(* forest, their relaxation by merging children into parents, and the      *)
(* structure of every relaxed supernode.                                   *)
(*                                                                         *)
(* An ordering is a record with the permutation and its inverse, the sizes *)
(* and offsets of the supernodes and their forest.  Offsets count the      *)
(* columns before a supernode.  A cutoff of the relaxation is a record     *)
(* [size, zeros, entries]: the ratio that the code keeps as a float is     *)
(* zeros / entries.                                                        *)
(***************************************************************************)
EXTENDS ScalarSymbolic

Last1(s) == s[Len(s)]
ColumnsOf(o, s) == (o.offsets[s] + 1)..(o.offsets[s] + o.sizes[s])

\* The supernode of every column.
MemberToIndex(rows, starts) ==
    Through(Indices(rows), [supernode |-> 1, members |-> <<>>],
        LAMBDA s, column :
            LET supernode == s.supernode
                                 + (IF column - 1 = starts[s.supernode + 1]
                                    THEN 1 ELSE 0)
            IN  [supernode |-> supernode,
                 members |-> Append(s.members, supernode)]).members

ConvertFromScalarToSupernodalEliminationForest(count, parents, members) ==
    Through(Indices(Len(parents)), Constant(count, None), LAMBDA s, row :
        IF parents[row] = None THEN [s EXCEPT ![members[row]] = None]
        ELSE IF members[parents[row]] # members[row]
             THEN [s EXCEPT ![members[row]] = members[parents[row]]]
             ELSE s)

FormFundamentalSupernodes(parents, degrees) ==
    LET numChildren(j) == Cardinality({i \in DOMAIN parents : parents[i] = j})
        joins(j) == /\ parents[j - 1] = j
                    /\ numChildren(j) = 1
                    /\ degrees[j] = degrees[j - 1] - 1
    IN  Through(Indices(Len(degrees)), <<>>, LAMBDA sizes, j :
            IF j > 1 /\ joins(j)
            THEN [sizes EXCEPT ![Len(sizes)] = @ + 1]
            ELSE Append(sizes, 1))

\* Whether every row meets each supernode left of its own entirely or not at
\* all; a pattern that ends inside a supernode stops the check.
ValidFundamentalSupernodes(m, o, sizes) ==
    LET parents == EliminationForestAndDegrees(m, o).parents
        starts == OffsetScan(sizes)
        members == MemberToIndex(m.rows, starts)
    IN  \A row \in 1..m.rows :
            LET pattern == Range(ComputeRowPattern(m, o, parents, row))
            IN  \A column \in pattern :
                    members[column] # members[row] =>
                        \A other \in 1..m.rows :
                            members[other] = members[column] => other \in pattern

-----------------------------------------------------------------------------
(***************************************************************************)
(* Relaxation.                                                             *)
(***************************************************************************)
\* With block size bs the supernodes are counted in the scalar matrix, where
\* only the diagonal entries stand for triangular blocks.
MergableSupernode(childSize, childDegree, parentSize, parentDegree, oldZeros, control) ==
    LET newZeros == (parentSize + parentDegree - childDegree) * childSize
        zeros == oldZeros + newZeros
        bs == control.blockSize
        size == bs * (childSize + parentSize)
        entries == (size * (size + 1)) \div 2 + bs * parentDegree * size
    IN  [mergable |->
             \/ newZeros = 0
             \/ \E k \in DOMAIN control.cutoffs :
                    LET cutoff == control.cutoffs[k]
                    IN  /\ cutoff.size >= size
                        /\ (entries * cutoff.zeros) \div cutoff.entries
                               >= bs * bs * zeros,
         zeros |-> zeros]

\* The child that MergeChildren merges next: the list is walked from the last
\* child to the first, a larger child wins, and among children of one size a
\* later one with fewer new zeros.
BestMergableChild(parent, o, degrees, control, s) ==
    LET leftmost == IF s.lastMerged[parent] = None
                    THEN parent ELSE s.lastMerged[parent]
        adjacent(c) == o.offsets[c] + o.sizes[c] = o.offsets[leftmost]
        status(c) == MergableSupernode(s.sizes[c], degrees[c],
                         s.sizes[parent], degrees[parent],
                         s.zeros[c] + s.zeros[parent], control)
        newZeros(c) == status(c).zeros - (s.zeros[c] + s.zeros[parent])
    IN  Through(Reverse(o.forest.children[parent]),
            [child |-> None, size |-> 0, newZeros |-> 0, zeros |-> 0],
            LAMBDA best, c :
                IF /\ s.mergeParents[c] = None
                   /\ control.preserveOrdering => adjacent(c)
                   /\ s.sizes[c] >= best.size
                   /\ status(c).mergable
                   /\ s.sizes[c] > best.size \/ newZeros(c) < best.newZeros
                THEN [child |-> c, size |-> s.sizes[c],
                      newZeros |-> newZeros(c), zeros |-> status(c).zeros]
                ELSE best)

\* A merged child hangs below the leftmost supernode merged so far; the chain
\* of the child below it, if it has one, comes along.
MergeChild(parent, best, s) ==
    LET c == best.child
    IN  [sizes |-> [s.sizes EXCEPT ![parent] = @ + s.sizes[c], ![c] = 0],
         zeros |-> [s.zeros EXCEPT ![parent] = best.zeros],
         mergeParents |-> [s.mergeParents EXCEPT ![c] =
             IF s.lastMerged[parent] = None
             THEN parent ELSE s.lastMerged[parent]],
         lastMerged |-> [s.lastMerged EXCEPT ![parent] =
             IF s.lastMerged[c] = None THEN c ELSE s.lastMerged[c]]]

MergeChildren(parent, o, degrees, control, start) ==
    Through(o.forest.children[parent], start, LAMBDA s, attempt :
        LET best == BestMergableChild(parent, o, degrees, control, s)
        IN  IF best.child = None THEN s ELSE MergeChild(parent, best, s))

RelaxedParentsAndDegrees(parents, degrees, mergeParents) ==
    LET kept == Filtered(Indices(Len(parents)),
                         LAMBDA s : mergeParents[s] = None)
        relaxed(s) == CHOOSE k \in DOMAIN kept : kept[k] = s
        top(s) == Last1(Path(mergeParents, s, {None}))
    IN  [kept |-> kept,
         parents |-> <<>> \o [k \in DOMAIN kept |->
             IF parents[kept[k]] = None THEN None
             ELSE relaxed(top(parents[kept[k]]))],
         degrees |-> <<>> \o [k \in DOMAIN kept |-> degrees[kept[k]]]]

\* A relaxed supernode is packed from the leaf of its merge sequence up.
RelaxationSizesOffsetsAndInversePermutation(o, merged, kept) ==
    LET sequence(s) == Path(merged.mergeParents,
            IF merged.lastMerged[s] = None THEN s ELSE merged.lastMerged[s],
            {None})
        columns(s) == Through(sequence(s), <<>>, LAMBDA done, t :
            done \o [j \in 1..o.sizes[t] |-> o.offsets[t] + j])
        sizes == <<>> \o [k \in DOMAIN kept |-> Len(columns(kept[k]))]
    IN  [sizes |-> sizes,
         offsets |-> OffsetScan(sizes),
         members |-> Through(Indices(Len(kept)), <<>>, LAMBDA done, k :
             done \o Constant(sizes[k], k)),
         inverse |-> Through(kept, <<>>, LAMBDA done, s : done \o columns(s))]

InvertPermutation(p) ==
    <<>> \o [i \in DOMAIN p |-> CHOOSE k \in DOMAIN p : p[k] = i]

\* The merges of every supernode into its parent, parents in a postorder.
Merges(o, degrees, control) ==
    Through(Indices(Len(o.sizes)),
        [sizes |-> o.sizes, zeros |-> Constant(Len(o.sizes), 0),
         lastMerged |-> Constant(Len(o.sizes), None),
         mergeParents |-> Constant(Len(o.sizes), None)],
        LAMBDA s, parent : MergeChildren(parent, o, degrees, control, s))

RelaxedForm(o, relaxed, packed) ==
    LET inverse == IF o.permutation = <<>> THEN packed.inverse
                   ELSE <<>> \o [i \in DOMAIN packed.inverse |->
                                    o.inverse[packed.inverse[i]]]
    IN  [ordering |-> [permutation |-> InvertPermutation(inverse),
                       inverse |-> inverse,
                       sizes |-> packed.sizes, offsets |-> packed.offsets,
                       forest |-> FillFromParents(relaxed.parents)],
         degrees |-> relaxed.degrees,
         members |-> packed.members]
AfterMerges(o, degrees, merged) ==
    LET relaxed == RelaxedParentsAndDegrees(o.forest.parents, degrees,
                                            merged.mergeParents)
    IN  RelaxedForm(o, relaxed,
            RelaxationSizesOffsetsAndInversePermutation(o, merged,
                                                        relaxed.kept))
RelaxSupernodes(o, degrees, control) ==
    AfterMerges(o, degrees, Merges(o, degrees, control))

-----------------------------------------------------------------------------
(***************************************************************************)
(* Structures of the relaxed supernodes.                                   *)
(***************************************************************************)
\* Row by row: the row joins the supernodes on the way up from its entries
\* until one already has it.
FillSupernodeStructureIndices(m, o, members) ==
    Through(Indices(m.rows), Constant(Len(o.sizes), <<>>), LAMBDA s, row :
        LET left == {members[c] : c \in {d \in Range(LowerColumns(m, o, row)) :
                         d <= o.offsets[members[row]]}}
            reached == UNION {Range(Path(o.forest.parents, t, {members[row]})) :
                              t \in left}
        IN  <<>> \o [t \in DOMAIN s |->
                IF t \in reached THEN Append(s[t], row) ELSE s[t]])

\* Supernode by supernode, children first: what the children have beyond the
\* supernode, and its own entries.  The tasks of sibling subtrees only write
\* their own structures, and the order within one is lost in the final sort.
ParallelFillStructureIndices(m, o) ==
    LET end(s) == o.offsets[s] + o.sizes[s]
        structure[s \in DOMAIN o.sizes] ==
            {r \in UNION {structure[c] : c \in Range(o.forest.children[s])} :
                 r > end(s)}
            \cup UNION {{r \in Range(UpperColumns(m, o, column)) : r > end(s)} :
                            column \in ColumnsOf(o, s)}
    IN  <<>> \o [s \in DOMAIN o.sizes |->
            SelectSeq(Indices(m.rows), LAMBDA r : r \in structure[s])]
=============================================================================
