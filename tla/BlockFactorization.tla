------------------------- MODULE BlockFactorization -------------------------
(***************************************************************************)
(* The numbers of the multifrontal factorization, whose recursion and      *)
(* storage are those of module BlockRightLooking: how the columns of a     *)
(* front are initialized while the Schur complements of the children are   *)
(* added block by block, and how the front is factored.  Only the Cholesky *)
(* factorization without pivoting comes here.                              *)
(*                                                                         *)
(* A front is the diagonal block of a supernode on top of its lower block, *)
(* as they lie in memory.  Nothing clears the part of a front or of a      *)
(* Schur complement above the diagonal, or a fresh Schur complement.       *)
(***************************************************************************)
EXTENDS SupernodalNumeric

-----------------------------------------------------------------------------
(***************************************************************************)
(* Where the rows of a child lie in its parent's front.                    *)
(***************************************************************************)
\* One offset for each index of the child's structure; those below the limit
\* of the diagonal block are counted in rows.
populateChildToParentMap(f, parent, child) ==
    LET start == f.ordering.offsets[parent]
        size == f.ordering.sizes[parent]
        inside(row) == row <= start + size
        place(row) == CHOOSE q \in DOMAIN f.bases[parent] :
                          f.bases[parent][q] = row
    IN  [relative |-> Vector(Len(f.bases[child]), LAMBDA k :
             LET row == f.bases[child][k]
             IN  IF inside(row) THEN row - start - 1
                 ELSE size + f.blockSize * (place(row) - 1)),
         diagonal |-> Len(SelectSeq(f.bases[child], inside))]

constructChildToParentMap(f) ==
    LET parents == f.ordering.forest.parents
    IN  <<>> \o [child \in DOMAIN parents |->
            IF parents[child] = None THEN [relative |-> <<>>, diagonal |-> 0]
            ELSE populateChildToParentMap(f, parents[child], child)]

FrontOf(f, s) == f.diagonal[s] \o f.lower[s]
WithFront(f, s, front) ==
    LET size == f.ordering.sizes[s]
    IN  [f EXCEPT !.diagonal[s] = SubSeq(front, 1, size),
                  !.lower[s] = SubSeq(front, size + 1, Len(front))]

\* Block column j of a child's Schur complement, from its diagonal on, into a
\* matrix whose first row and column lie at these offsets of the front.
AccumulateColumn(bs, map, j, child, dst, rows, columns) ==
    LET count == Len(map.relative)
        block(i) == Submatrix(child, (i - 1) * bs + 1, (j - 1) * bs + 1, bs, bs)
    IN  Through([k \in 1..(count - j + 1) |-> j + k - 1], dst, LAMBDA m, i :
            accumulateBlock(bs, block(i), m, map.relative[i] - rows + 1,
                            map.relative[j] - columns + 1))

\* Columns first + 1 to next of the front: zero, then the entries of the plan.
BlockCPlanInitializeFactorColumns(f, s, input, first, next, front) ==
    LET start == f.ordering.offsets[s]
        size == f.ordering.sizes[s]
        index(i) == IF i <= size THEN start + i ELSE Structure(f, s)[i - size]
    IN  Matrix(Height(front), Width(front), LAMBDA i, j :
            IF i < j \/ j <= first \/ j > next THEN front[i][j]
            ELSE injectEntries(input, ToOld(f.ordering, index(i)),
                               ToOld(f.ordering, start + j)))

\* Mutant: a Schur complement is used as it was allocated.
LeaveAsAllocated(m) == m

FillZerosLowerTriangular(m) ==
    Matrix(Height(m), Width(m), LAMBDA i, j : IF i < j THEN m[i][j] ELSE Zero)

-----------------------------------------------------------------------------
(***************************************************************************)
(* Merging children.                                                       *)
(***************************************************************************)
FromTo(first, last) == [k \in 1..(last - first + 1) |-> first + k - 1]

\* With the first child the columns of the supernode are initialized, each
\* range of them right before the child's block column is added at its end.
BlockMergeChildSchurComplement(t, s, child, isFirst, input) ==
    LET f == t.factor
        bs == f.blockSize
        size == f.ordering.sizes[s]
        map == t.maps[child]
        schur == t.schur[child]
        initialize(front, first, next) ==
            IF isFirst
            THEN BlockCPlanInitializeFactorColumns(f, s, input, first, next,
                                                   front)
            ELSE front
        column(u, j) ==
            LET next == map.relative[j] + bs
            IN  [back |-> next, front |->
                    AccumulateColumn(bs, map, j, schur,
                        initialize(u.front, u.back, next), 0, 0)]
        columns == Through(FromTo(1, map.diagonal),
                           [back |-> 0, front |-> FrontOf(f, s)], column)
    IN  [t EXCEPT
            !.factor = WithFront(f, s,
                initialize(columns.front, columns.back, size)),
            !.schur[s] = Through(
                FromTo(map.diagonal + 1, Len(map.relative)),
                IF isFirst THEN FillZerosLowerTriangular(@) ELSE @,
                LAMBDA m, j : AccumulateColumn(bs, map, j, schur, m,
                                               size, size))]

\* Block column j of the front from all children, each of which waits with
\* its next block column until j is where that belongs.
MergeBlockColumn(t, children, bs, next, j, dst, shift) ==
    Through(Indices(Len(children)), [next |-> next, dst |-> dst],
        LAMBDA u, c :
            LET map == t.maps[children[c]]
                at == u.next[c]
            IN  IF at > Len(map.relative) \/ map.relative[at] # j THEN u
                ELSE [next |-> [u.next EXCEPT ![c] = at + 1],
                      dst |-> AccumulateColumn(bs, map, at,
                                  t.schur[children[c]], u.dst, shift, shift)])

\* All children at once, by block columns of the parent.
BlockMergeChildSchurComplements(t, s, input) ==
    LET f == t.factor
        bs == f.blockSize
        size == f.ordering.sizes[s]
        children == f.ordering.forest.children[s]
        offsets(count) == [k \in 1..(count \div bs) |-> (k - 1) * bs]
        intoFront == Through(offsets(size),
            [next |-> Constant(Len(children), 1), dst |-> FrontOf(f, s)],
            LAMBDA u, j : MergeBlockColumn(t, children, bs, u.next, j,
                BlockCPlanInitializeFactorColumns(f, s, input, j, j + bs,
                                                  u.dst), 0))
        cleared(m, j) == Matrix(Height(m), Width(m), LAMBDA r, c :
            IF r >= c /\ c > j /\ c <= j + bs THEN Zero ELSE m[r][c])
        intoSchur == Through(offsets(f.degrees[s]),
            [next |-> <<>> \o [c \in DOMAIN children |->
                          t.maps[children[c]].diagonal + 1],
             dst |-> t.schur[s]],
            LAMBDA u, j : MergeBlockColumn(t, children, bs, u.next, j + size,
                                           cleared(u.dst, j), size))
    IN  [t EXCEPT !.factor = WithFront(f, s, intoFront.dst),
                  !.schur[s] = intoSchur.dst]

-----------------------------------------------------------------------------
(***************************************************************************)
(* Factoring a front.                                                      *)
(***************************************************************************)
\* The rows below the diagonal block are solved in tiles of equal height.
SolveInTiles(tile, diagonal, lower) ==
    LET count == (Height(lower) + tile - 1) \div tile
        height == (Height(lower) + count - 1) \div count
        rows(k) == SubSeq(lower, (k - 1) * height + 1,
                          Smaller(k * height, Height(lower)))
    IN  Through(Indices(count), <<>>, LAMBDA done, k :
            done \o RightLowerAdjointTriangularSolves(diagonal, rows(k)))

SolveAndUpdate(t, done, control, s) ==
    LET f == t.factor
        degree == f.degrees[s]
        leaf == f.ordering.forest.children[s] = <<>>
        lower == IF control.parallel /\ degree > 2 * control.tile
                 THEN SolveInTiles(control.tile, done.matrix, f.lower[s])
                 ELSE RightLowerAdjointTriangularSolves(done.matrix, f.lower[s])
        beta == IF leaf THEN Zero ELSE One
        outer == IF control.parallel /\ 2 * degree > 3 * control.tile
                 THEN TBBLowerNormalHermitianOuterProduct(
                          control.tile, MinusOne, lower, beta, t.schur[s])
                 ELSE LowerNormalHermitianOuterProduct(MinusOne, lower, beta,
                                                       t.schur[s])
        succeeded == done.pivots = f.ordering.sizes[s]
    IN  [t EXCEPT
            !.succeeded = succeeded,
            !.pivots = @ + done.pivots,
            !.factor.diagonal[s] = done.matrix,
            !.factor.lower[s] = IF succeeded /\ degree > 0 THEN lower ELSE @,
            !.schur[s] = IF succeeded /\ degree > 0 THEN outer ELSE @]
BlockRightLookingSupernodeFinalize(t, control, s) ==
    SolveAndUpdate(t,
        LowerCholeskyFactorization(control.blas, t.factor.diagonal[s]),
        control, s)

\* A supernode after its children: in a parallel subtree several children are
\* merged together, otherwise one after the other.
BlockRightLookingSupernode(t, control, input, s) ==
    LET f == t.factor
        children == f.ordering.forest.children[s]
        allocated == [t EXCEPT !.schur[s] =
            Matrix(f.degrees[s], f.degrees[s], LAMBDA i, j : Stale)]
        merged ==
            CASE children = <<>> ->
                   [allocated EXCEPT !.factor =
                       BlockCPlanInitializeFactorSupernodeColumns(s, input, @)]
              [] children # <<>> /\ control.parallel /\ Len(children) > 1 ->
                   BlockMergeChildSchurComplements(allocated, s, input)
              [] OTHER ->
                   Through(Indices(Len(children)), allocated, LAMBDA u, c :
                       BlockMergeChildSchurComplement(u, s, children[c],
                                                      c = 1, input))
        released == [merged EXCEPT !.schur = <<>> \o [c \in DOMAIN @ |->
                        IF c \in Range(children) THEN <<>> ELSE @[c]]]
    IN  IF t.succeeded
        THEN BlockRightLookingSupernodeFinalize(released, control, s) ELSE t

\* Nothing is done after the first breakdown, and no pivots are reported.
BlockRightLooking(f, control, input) ==
    LET order == Through(f.ordering.forest.roots, <<>>, LAMBDA done, root :
                     done \o FillPostorderImpl(root, f.ordering.forest))
        result(done) == [factor |-> done.factor, succeeded |-> done.succeeded,
                         pivots |-> IF done.succeeded THEN done.pivots ELSE 0]
    IN  result(Through(order,
            [factor |-> f, maps |-> constructChildToParentMap(f),
             schur |-> Constant(Len(f.degrees), <<>>),
             succeeded |-> TRUE, pivots |-> 0],
            LAMBDA t, s : BlockRightLookingSupernode(t, control, input, s)))
=============================================================================
