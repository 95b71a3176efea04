--------------------------- MODULE SupernodalSolve ---------------------------
(***************************************************************************)
(* What a solve with the supernodal factor computes: the numbers behind    *)
(* module TriangularSolve, which models the order of its tasks.  Every     *)
(* order it allows is represented by a postorder forward and its reverse   *)
(* backward.  control gives the type of the factorization and whether it   *)
(* pivots inside supernodes; policy is described in module SolveKernels    *)
(* and gives also the work and the depth below which subtrees are serial   *)
(* (forwardWork, forwardMaxDepth).                                         *)
(***************************************************************************)
EXTENDS SolveKernels

RowsOf(f, s, x) ==
    SubSeq(x, f.ordering.offsets[s] + 1, f.ordering.offsets[s + 1])
WithRows(f, s, x, rows) ==
    SubSeq(x, 1, f.ordering.offsets[s]) \o rows
        \o SubSeq(x, f.ordering.offsets[s + 1] + 1, Height(x))
ZerosOf(height, width) == Matrix(height, width, LAMBDA i, j : Zero)

-----------------------------------------------------------------------------
(***************************************************************************)
(* One supernode, forward.                                                 *)
(***************************************************************************)
\* Small diagonal blocks are solved by the kernel of the block size.
SolveLowerTriOfBlocks(f, policy, t, b) ==
    CASE policy.real /\ f.blockSize = 2 -> SolveLowerTriEigen2(t, b)
      [] policy.real /\ f.blockSize = 3 -> SolveLowerTriEigen3(t, b)
      [] OTHER -> SolveLowerTri(t, b)

DiagonalForward(f, control, policy, s, x) ==
    LET rows == RowsOf(f, s, x)
        b == IF control.pivoting THEN InversePermute(f.permutations[s], rows)
             ELSE rows
        t == f.diagonal[s]
    IN  WithRows(f, s, x,
            CASE control.type # Cholesky -> LeftLowerUnitTriangularSolves(t, b)
              [] control.type = Cholesky /\ Width(b) > 1 ->
                     LeftLowerTriangularSolves(t, b)
              [] control.type = Cholesky /\ Width(b) <= 1
                     /\ f.ordering.sizes[s] < policy.triangle ->
                     SolveLowerTriOfBlocks(f, policy, t, b)
              [] OTHER -> AsColumn(TriangularSolveLeftLower(t, ColumnOf(b, 1))))

LowerSupernodalTrapezoidalSolve(f, control, policy, s, x) ==
    LET solved == DiagonalForward(f, control, policy, s, x)
        degree == f.degrees[s]
        start == f.ordering.offsets[s]
        product == multiply(policy, FALSE, One, f.lower[s],
                            RowsOf(f, s, solved), Zero,
                            ZerosOf(degree, Width(x)))
        rows == Structure(f, s)
        outOfPlace == Matrix(Height(x), Width(x), LAMBDA r, j :
            IF r \in Range(rows)
            THEN Minus(solved[r][j],
                       product[CHOOSE i \in DOMAIN rows : rows[i] = r][j])
            ELSE solved[r][j])
    IN  CASE degree = 0 -> solved
          [] degree > 0 /\ f.ordering.sizes[s] >= policy.forward -> outOfPlace
          [] OTHER ->
                 IF policy.real
                 THEN MultiplyLowerBlockEigen(f.blockSize, f.bases[s], start,
                                              f.lower[s], solved)
                 ELSE MultiplyLowerBlock(f.blockSize, f.bases[s], start,
                                         f.lower[s], solved)

LowerTriangularSolve(f, control, policy, x) ==
    Through(Indices(Len(f.degrees)), x, LAMBDA y, s :
        LowerSupernodalTrapezoidalSolve(f, control, policy, s, y))

-----------------------------------------------------------------------------
(***************************************************************************)
(* Forward with one boundary (schur complement) per supernode.             *)
(***************************************************************************)
IntraNodeWorkEstimate(f, s) ==
    LET size == f.ordering.sizes[s]
        degree == f.degrees[s]
    IN  (size * size * size) \div 3 + size * size * degree
            + degree * degree * size

\* Of subtrees; the supernodes are numbered in a postorder.
work_estimates(f) ==
    LET work[s \in DOMAIN f.degrees] ==
            IntraNodeWorkEstimate(f, s)
                + Through(f.ordering.forest.children[s], 0,
                          LAMBDA t, c : t + work[c])
    IN  <<>> \o [s \in DOMAIN f.degrees |-> work[s]]
EstimateTotalWork(f) ==
    Through(Indices(Len(f.degrees)), 0,
            LAMBDA t, s : t + IntraNodeWorkEstimate(f, s))

DepthOf(f, s) ==
    Len(Path(f.ordering.forest.parents, s, {None})) - 1
isSerial(f, policy, s) ==
    \/ work_estimates(f)[s] < policy.forwardWork
    \/ DepthOf(f, s) > policy.forwardMaxDepth

\* A supernode whose boundary t.schur[s] has been cleared and has received
\* what its children bring, which is added unless the boundary is only written.
OpenMPLowerSupernodalTrapezoidalSolve(f, control, policy, s, t, initialize) ==
    LET rows == RowsOf(f, s, t.x)
        fused == fused_forward(f.diagonal[s], f.lower[s], rows, t.schur[s],
                               initialize)
        solved == DiagonalForward(f, control, policy, s, t.x)
        useFused == /\ control.type = Cholesky /\ ~control.pivoting
                    /\ Width(t.x) = 1
                    /\ f.ordering.sizes[s] <= policy.fusedForward
    IN  IF useFused
        THEN [x |-> WithRows(f, s, t.x, fused.x),
              schur |-> [t.schur EXCEPT ![s] = fused.schur]]
        ELSE [x |-> solved,
              schur |-> [t.schur EXCEPT ![s] =
                  IF f.degrees[s] = 0 THEN @
                  ELSE multiply(policy, FALSE, MinusOne, f.lower[s],
                                RowsOf(f, s, solved),
                                IF initialize THEN Zero ELSE One, @)]]

\* Rows of the child in the supernode itself go to the right-hand side, the
\* others to the supernode's boundary.
mergeChild(f, maps, s, t, child) ==
    LET rows == Structure(f, child)
        map == maps[child]
        offset(i) == map.relative[(i - 1) \div f.blockSize + 1]
                         + ((i - 1) % f.blockSize)
        inside == map.diagonal * f.blockSize
        brought(at(_), first, last, r) ==
            {i \in first..last : at(i) = r}
        added(m, at(_), first, last) ==
            Matrix(Height(m), Width(m), LAMBDA r, j :
                LET hit == brought(at, first, last, r)
                IN  IF hit = {} THEN m[r][j]
                    ELSE Plus(m[r][j],
                              t.schur[child][CHOOSE i \in hit : TRUE][j]))
    IN  [x |-> added(t.x, LAMBDA i : rows[i], 1, inside),
         schur |-> [t.schur EXCEPT ![s] =
             added(@, LAMBDA i : offset(i) - f.ordering.sizes[s] + 1,
                   inside + 1, Len(rows))]]

MergedSupernodeForward(f, control, policy, maps, s, t) ==
    LET cleared == [t EXCEPT !.schur[s] =
                        ZerosOf(f.degrees[s], Width(t.x))]
        merged == Through(f.ordering.forest.children[s], cleared,
                          LAMBDA u, c : mergeChild(f, maps, s, u, c))
    IN  OpenMPLowerSupernodalTrapezoidalSolve(f, control, policy, s, merged,
                                              FALSE)

\* The blocks of rows of s that lie below the columns of its group's root:
\* how many come before them, and their places in the boundary of the root.
AccumulationMap(f, root, s) ==
    LET bases == f.bases[s]
        end == f.ordering.offsets[root + 1]
        owned == IF f.bases[root] = <<>> THEN Len(bases)
                 ELSE IF s = root THEN 0
                 ELSE Len(SelectSeq(bases, LAMBDA b : b <= end))
        place(b) == CHOOSE q \in DOMAIN f.bases[root] :
                        f.bases[root][q] = b
    IN  [owned |-> owned,
         external |-> <<>> \o [j \in 1..(Len(bases) - owned) |->
             f.blockSize * (place(bases[owned + j]) - 1)]]

\* The topmost serial subtrees.
PrepareSolveAccumulationCache(f, policy) ==
    LET serial(s) == isSerial(f, policy, s)
        above(s) == Tail(Path(f.ordering.forest.parents, s, {None}))
    IN  {s \in DOMAIN f.degrees :
             serial(s) /\ \A a \in Range(above(s)) : ~serial(a)}

\* What the fused kernel scatters, or what a scratch boundary holds of s, goes
\* to the solution and to the boundary of the root.
FusedGroupStep(f, root, u, s, map) ==
    LET with(done) ==
            [x |-> done.x, schur |-> [u.schur EXCEPT ![root] = done.boundary]]
    IN  with(fused_forward_scatter(f.blockSize, f.diagonal[s], f.lower[s],
            f.bases[s], f.ordering.offsets[s], u.x, u.schur[root],
            map.owned, map.external))

ScatterScratch(f, root, u, s, map, x, scratch) ==
    LET bs == f.blockSize
        rows == Structure(f, s)
        inside == bs * map.owned
        to(r) == {i \in 1..inside : rows[i] = r}
        beyond(r) == {i \in (inside + 1)..Len(rows) :
            map.external[(i - inside - 1) \div bs + 1]
                + ((i - inside - 1) % bs) + 1 = r}
        added(y, hits(_)) == Matrix(Height(y), 1, LAMBDA r, j :
            IF hits(r) = {} THEN y[r][1]
            ELSE Plus(y[r][1], scratch[CHOOSE i \in hits(r) : TRUE][1]))
    IN  [x |-> added(x, to),
         schur |-> [u.schur EXCEPT ![root] = added(@, beyond)]]
ScratchGroupStep(f, control, policy, root, u, s, map) ==
    LET scatter(done) ==
            ScatterScratch(f, root, u, s, map, done.x, done.schur[s])
    IN  scatter(OpenMPLowerSupernodalTrapezoidalSolve(
            f, control, policy, s,
            [u EXCEPT !.schur[s] = Matrix(f.degrees[s], 1,
                                          LAMBDA i, j : Stale)], TRUE))

GroupStep(f, control, policy, root, u, s, map) ==
    IF f.ordering.sizes[s] <= policy.fusedForward
    THEN FusedGroupStep(f, root, u, s, map)
    ELSE ScratchGroupStep(f, control, policy, root, u, s, map)
SolveAccumulationGroupForward(f, control, policy, root, t) ==
    Through(FillPostorderImpl(root, f.ordering.forest),
        [t EXCEPT !.schur[root] = ZerosOf(f.degrees[root], 1)],
        LAMBDA u, s : GroupStep(f, control, policy, root, u, s,
                                AccumulationMap(f, root, s)))

\* A group is done with its root, and a supernode inside one not again.
ForwardStep(f, control, policy, maps, groups, t, s) ==
    LET inner == UNION {Range(FillPostorderImpl(g, f.ordering.forest)) \ {g} :
                            g \in groups}
    IN  CASE s \in inner -> t
          [] s \in groups ->
                 SolveAccumulationGroupForward(f, control, policy, s, t)
          [] OTHER -> MergedSupernodeForward(f, control, policy, maps, s, t)

\* With one right-hand side and without pivots, serial subtrees are groups.
AccumulationGroups(f, control, policy, x) ==
    IF Width(x) = 1 /\ ~control.pivoting /\ control.type = Cholesky
    THEN PrepareSolveAccumulationCache(f, policy) ELSE {}

OpenMPForward(f, control, policy, maps, groups, x) ==
    Through(
        Through(f.ordering.forest.roots, <<>>, LAMBDA done, root :
            done \o FillPostorderImpl(root, f.ordering.forest)),
        [x |-> x, schur |-> Constant(Len(f.degrees), <<>>)],
        LAMBDA t, s : ForwardStep(f, control, policy, maps, groups, t, s)).x
OpenMPLowerTriangularSolve(f, control, policy, x) ==
    OpenMPForward(f, control, policy, constructChildToParentMap(f),
                  AccumulationGroups(f, control, policy, x), x)

-----------------------------------------------------------------------------
(***************************************************************************)
(* Scaling and backward.                                                   *)
(***************************************************************************)
DiagonalSolve(f, control, x) ==
    IF control.type = Cholesky THEN x
    ELSE Through(Indices(Len(f.degrees)), x, LAMBDA y, s :
             WithRows(f, s, y, <<>> \o [i \in 1..f.ordering.sizes[s] |->
                 Scaled(RowsOf(f, s, y)[i], f.diagonal[s][i][i])]))
OpenMPDiagonalSolve(f, control, x) == DiagonalSolve(f, control, x)

\* The part of the lower block, out of place for the larger supernodes.
BackwardUpdate(f, control, policy, s, x) ==
    LET rows == Structure(f, s)
        gathered == <<>> \o [i \in DOMAIN rows |-> x[rows[i]]]
        selfadjoint == control.type # LDLTranspose
        start == f.ordering.offsets[s]
        outOfPlace ==
            IF selfadjoint
            THEN multiply(policy, TRUE, MinusOne, f.lower[s], gathered, One,
                          RowsOf(f, s, x))
            ELSE MatrixMultiplyTransposeNormal(MinusOne, f.lower[s], gathered,
                                               One, RowsOf(f, s, x))
    IN  CASE f.degrees[s] = 0 -> x
          [] f.degrees[s] > 0 /\ (\/ f.ordering.sizes[s] >= policy.backwardSize
                                  \/ f.degrees[s] >= policy.backwardDegree) ->
                 WithRows(f, s, x, outOfPlace)
          [] OTHER ->
                 CASE policy.real /\ policy.chunked ->
                        MultiplyLowerBlockAdjointEigenChunked(
                            f.blockSize, f.bases[s], start, f.lower[s], x)
                   [] policy.real /\ ~policy.chunked ->
                        MultiplyLowerBlockAdjointEigenUnchunked(
                            f.blockSize, f.bases[s], start, f.lower[s], x)
                   [] ~policy.real ->
                        MultiplyLowerBlockAdjoint(
                            f.blockSize, selfadjoint, f.bases[s], start,
                            f.lower[s], x)

DiagonalBackward(f, control, policy, s, x) ==
    LET t == f.diagonal[s]
        b == RowsOf(f, s, x)
        solved ==
            CASE control.type = LDLAdjoint ->
                   LeftLowerAdjointUnitTriangularSolves(t, b)
              [] control.type = LDLTranspose ->
                   LeftLowerTransposeUnitTriangularSolves(t, b)
              [] control.type = Cholesky /\ Width(b) > 1 ->
                   LeftLowerAdjointTriangularSolves(t, b)
              [] control.type = Cholesky /\ Width(b) <= 1
                     /\ f.ordering.sizes[s] < policy.triangle ->
                   CASE policy.real /\ f.blockSize = 2 ->
                          SolveLowerTriAdjointEigen2(t, b)
                     [] policy.real /\ f.blockSize = 3 ->
                          SolveLowerTriAdjointEigen3(t, b)
                     [] OTHER -> SolveLowerTriAdjoint(t, b)
              [] OTHER ->
                   AsColumn(TriangularSolveLeftLowerAdjoint(t, ColumnOf(b, 1)))
    IN  WithRows(f, s, x, IF control.pivoting
                          THEN Permute(f.permutations[s], solved) ELSE solved)

LowerTransposeSupernodalTrapezoidalSolve(f, control, policy, s, x) ==
    LET fused == /\ policy.real /\ Width(x) = 1
                 /\ control.type = Cholesky /\ ~control.pivoting
                 /\ f.ordering.sizes[s] <= policy.fusedBackward
                 /\ f.degrees[s] <= policy.fusedDegree
    IN  IF fused
        THEN fused_backward(f.blockSize, f.diagonal[s], f.lower[s],
                            f.bases[s], f.ordering.offsets[s], x)
        ELSE DiagonalBackward(f, control, policy, s,
                 BackwardUpdate(f, control, policy, s, x))

LowerTransposeTriangularSolve(f, control, policy, x) ==
    Through(Reverse(Indices(Len(f.degrees))), x, LAMBDA y, s :
        LowerTransposeSupernodalTrapezoidalSolve(f, control, policy, s, y))

\* Parents before children; siblings do not depend on each other.
OpenMPLowerTransposeTriangularSolve(f, control, policy, x) ==
    Through(Reverse(Through(f.ordering.forest.roots, <<>>, LAMBDA done, root :
                done \o FillPostorderImpl(root, f.ordering.forest))), x,
            LAMBDA y, s :
                LowerTransposeSupernodalTrapezoidalSolve(f, control, policy, s, y))

-----------------------------------------------------------------------------
(***************************************************************************)
(* The whole solve.                                                        *)
(***************************************************************************)
\* The block size of the kernels must be that of the structures.
MaySolve(f, size) == size = f.blockSize

SupernodalSolve(f, control, policy, x, parallel, already_permuted) ==
    LET o == f.ordering
        permuted(y, permutation) ==
            IF o.permutation # <<>> /\ ~already_permuted
            THEN InversePermuteBlocks(f.blockSize, permutation, y) ELSE y
        given == permuted(x, o.inverse)
    IN  permuted(
            IF parallel
            THEN OpenMPLowerTransposeTriangularSolve(f, control, policy,
                     OpenMPDiagonalSolve(f, control,
                         OpenMPLowerTriangularSolve(f, control, policy, given)))
            ELSE LowerTransposeTriangularSolve(f, control, policy,
                     DiagonalSolve(f, control,
                         LowerTriangularSolve(f, control, policy, given))),
            o.permutation)

\* The buffer of the boundaries of a parallel solve.  It is allocated for the
\* first solve, grows when the columns do not fit, and is never given back;
\* a view that shrinks keeps its place.
NoWorkspace == [allocated |-> FALSE, capacity |-> 0, views |-> <<>>]

WorkspaceThrows(f, workspace) ==
    workspace.allocated /\ Len(workspace.views) # Len(f.degrees)

SolveWorkspace(f, workspace, width) ==
    LET offsets == OffsetScan(f.degrees)
        total == Last(offsets)
        first == <<>> \o [s \in DOMAIN f.degrees |->
            [height |-> f.degrees[s], stride |-> total, width |-> 0, at |-> None]]
        views == IF workspace.allocated THEN workspace.views ELSE first
        stride == IF views = <<>> THEN 0 ELSE views[1].stride
        grows == stride * width > workspace.capacity
        placed == <<>> \o [s \in DOMAIN views |->
            [views[s] EXCEPT !.width = width, !.at = offsets[s] + 1]]
        resized == <<>> \o [s \in DOMAIN views |->
            [views[s] EXCEPT !.width = width]]
    IN  [allocated |-> TRUE,
         capacity |-> IF grows THEN stride * width ELSE workspace.capacity,
         views |-> IF grows THEN placed
                   ELSE IF views # <<>> /\ views[1].width # width
                   THEN resized ELSE views]
=============================================================================
