-------------------------- MODULE SupernodalNumeric --------------------------
(***************************************************************************)
(* The sequential supernodal factorizations: left-looking, from linked     *)
(* lists of the descendants that still have something to add, its variant  *)
(* on blocks of BlockSize rows, and the legacy right-looking recursion     *)
(* over the assembly forest with one Schur complement per supernode.       *)
(*                                                                         *)
(* control is a record: type, pivoting, blas (the BLAS block size),        *)
(* regularize, and params, the parameters of dynamic regularization.       *)
(***************************************************************************)
EXTENDS SupernodalSetup, PivotedFactorizations

FormScaledTranspose(type, diagonal, m) ==
    Matrix(Width(m), Height(m), LAMBDA j, i :
        CASE type = Cholesky -> Conjugate(m[i][j])
          [] type = LDLAdjoint -> Times(diagonal[j][j], Conjugate(m[i][j]))
          [] type = LDLTranspose -> Times(diagonal[j][j], m[i][j]))

FactorDiagonalBlock(control, params, block) ==
    LET routine == CASE control.type = Cholesky -> "regularizedCholesky"
                     [] control.type = LDLAdjoint /\ control.regularize ->
                            "regularizedLDLAdjoint"
                     [] control.type = LDLAdjoint /\ ~control.regularize ->
                            "ldlAdjoint"
                     [] control.type = LDLTranspose -> "ldlTranspose"
    IN  IF control.type = Cholesky /\ ~control.regularize
        THEN LowerCholeskyFactorization(control.blas, block)
        ELSE Blocked(routine, control.blas, params, block)

\* The pivots before a failing one are not what the pivoted routine reports.
PivotedFactorDiagonalBlock(control, block) ==
    BlockedPivotedLDLAdjointFactorization(control.blas, block)

SolveAgainstDiagonalBlock(type, triangle, lower) ==
    IF lower = <<>> THEN lower
    ELSE CASE type = Cholesky ->
                RightLowerAdjointTriangularSolves(triangle, lower)
           [] type = LDLAdjoint ->
                RightDiagonalTimesLowerAdjointUnitTriangularSolves(
                    triangle, lower)
           [] type = LDLTranspose ->
                RightDiagonalTimesLowerTransposeUnitTriangularSolves(
                    triangle, lower)

\* The rows below the diagonal block are solved against it unless it failed.
SolveColumnBelow(f, s, control, done) ==
    LET lower == IF control.pivoting /\ f.lower[s] # <<>>
                 THEN InversePermuteColumns(done.permutation, f.lower[s])
                 ELSE f.lower[s]
        succeeded == done.pivots = f.ordering.sizes[s]
    IN  [succeeded |-> succeeded, pivots |-> done.pivots,
         regularization |-> IF control.pivoting THEN <<>>
                            ELSE done.regularization,
         factor |-> [f EXCEPT
             !.diagonal[s] = done.matrix,
             !.permutations[s] = IF control.pivoting
                                 THEN done.permutation ELSE @,
             !.lower[s] = IF succeeded
                          THEN SolveAgainstDiagonalBlock(control.type,
                                                         done.matrix, lower)
                          ELSE @]]
FactorBlockColumn(f, s, control, params) ==
    SolveColumnBelow(f, s, control,
        IF control.pivoting THEN PivotedFactorDiagonalBlock(control, f.diagonal[s])
        ELSE FactorDiagonalBlock(control, params, f.diagonal[s]))

Regularizing(control, f, s) ==
    [control.params EXCEPT !.offset = f.ordering.offsets[s],
                           !.inverse = f.ordering.inverse]

-----------------------------------------------------------------------------
(***************************************************************************)
(* Left-looking.  A descendant d is in the list of the supernode that its  *)
(* structure meets next, at row relRows[d] + 1 of it, in its               *)
(* intersection number met[d].                                             *)
(***************************************************************************)
Insert(state, s, d) ==
    [state EXCEPT !.lists[d] = state.heads[s], !.heads[s] = d]

StartColumn(state, s) ==
    [state EXCEPT !.relRows[s] = 0, !.met[s] = 1]

\* What d adds to the diagonal and the lower block of s: the products go to
\* the blocks directly when the rows and columns are all of theirs, and
\* through a workspace and relative indices otherwise.
DescendantUpdate(f, type, s, d, first, count) ==
    LET rows == Structure(f, d)
        size == f.ordering.sizes[s]
        remaining == Len(rows) - first - count
        main == Submatrix(f.lower[d], first + 1, 1, count, f.ordering.sizes[d])
        below == Submatrix(f.lower[d], first + count + 1, 1, remaining,
                           f.ordering.sizes[d])
        scaled == FormScaledTranspose(type, f.diagonal[d], main)
        inPlace == count = size
        inPlaceBelow == inPlace /\ remaining = f.degrees[s]
        column(j) == IF inPlace THEN j
                     ELSE LocalColumn(f, s, rows[first + j])
        row(i) == IF inPlaceBelow THEN i
                  ELSE FindScalarRow(f, s, rows[first + count + i])
        columnBelow(j) == IF inPlaceBelow THEN j
                          ELSE LocalColumn(f, s, rows[first + j])
        outer == Combine(MinusOne, f.ordering.sizes[d],
                         LAMBDA i, k : main[i][k], LAMBDA k, j : scaled[k][j],
                         Zero, Matrix(count, count, LAMBDA i, j : Zero))
        product == Combine(MinusOne, f.ordering.sizes[d],
                           LAMBDA i, k : below[i][k],
                           LAMBDA k, j : scaled[k][j], Zero,
                           Matrix(remaining, count, LAMBDA i, j : Zero))
        added(m, r, c, rowOf(_), colOf(_), p, lowerOnly) ==
            Plus(m[r][c],
                 IF \E i \in 1..Height(p), j \in 1..count :
                        rowOf(i) = r /\ colOf(j) = c /\ (lowerOnly => i >= j)
                 THEN p[CHOOSE i \in 1..Height(p) : rowOf(i) = r]
                       [CHOOSE j \in 1..count : colOf(j) = c]
                 ELSE Zero)
    IN  [f EXCEPT
            !.diagonal[s] = Matrix(size, size, LAMBDA r, c :
                added(@, r, c, column, column, outer, TRUE)),
            !.lower[s] = Matrix(f.degrees[s], size, LAMBDA r, c :
                added(@, r, c, row, columnBelow, product, FALSE))]

\* The descendant moves on to the supernode of the next row of its structure.
LeftLookingSupernodeUpdate(state, type, s) ==
    LET visit(t, d) ==
            LET f == t.factor
                first == t.relRows[d]
                count == f.intersections[d][t.met[d]]
                updated == [t EXCEPT
                    !.factor = DescendantUpdate(f, type, s, d, first, count),
                    !.relRows[d] = first + count, !.met[d] = @ + 1]
            IN  IF first + count < f.degrees[d]
                THEN Insert(updated,
                            f.members[Structure(f, d)[first + count + 1]], d)
                ELSE updated
        started == StartColumn(state, s)
        visited == Through(Path(state.lists, state.heads[s], {None}),
                           started, visit)
        linked == IF state.factor.degrees[s] = 0 THEN visited
                  ELSE Insert(visited,
                      state.factor.members[state.factor.bases[s][1]], s)
    IN  [linked EXCEPT !.heads[s] = None]

LeftLookingState(f) ==
    LET count == Len(f.degrees)
    IN  [factor |-> f, relRows |-> Constant(count, 0),
         met |-> Constant(count, 1), heads |-> Constant(count, None),
         lists |-> Constant(count, None),
         pivots |-> 0, succeeded |-> TRUE, stats |-> Constant(count, 0)]

WithColumn(state, done) ==
    [state EXCEPT !.factor = done.factor, !.pivots = @ + done.pivots,
                  !.succeeded = done.succeeded]
LeftLookingSupernodeFinalize(state, control, s) ==
    WithColumn(state, FactorBlockColumn(state.factor, s, control, <<>>))

\* The first supernode that is not factored ends the factorization.
LeftLooking(f, control, input) ==
    Through(Indices(Len(f.degrees)), LeftLookingState(f), LAMBDA t, s :
        IF ~t.succeeded THEN t
        ELSE LET loaded == [t EXCEPT !.factor =
                     BlockCPlanInitializeFactorSupernodeColumns(s, input, @)]
             IN  LeftLookingSupernodeFinalize(
                     LeftLookingSupernodeUpdate(loaded, control.type, s),
                     control, s))

\* The same updates with indices and copies for whole blocks.
BlockLeftLookingSupernodeUpdate(state, s) ==
    LeftLookingSupernodeUpdate(state, Cholesky, s)

\* When the indefinite subtrees are to be recorded, a failure only rules out
\* the supernodes above it: -1 marks those, 1 the failure itself.  Otherwise
\* nobody reads the marks, and the first failure ends the factorization.
FinalizeOrRecord(updated, control, s) ==
    LET indefinite == \E c \in Range(updated.factor.ordering.forest.children[s]) :
                          updated.stats[c] # 0
        recorded(done) == [done EXCEPT !.stats[s] =
                               IF done.succeeded THEN 0 ELSE 1]
    IN  IF control.record /\ indefinite THEN [updated EXCEPT !.stats[s] = -1]
        ELSE recorded(LeftLookingSupernodeFinalize(updated, control, s))

BlockLeftLooking(f, control, input) ==
    Through(Indices(Len(f.degrees)), LeftLookingState(f), LAMBDA t, s :
        IF ~control.record /\ ~t.succeeded THEN t
        ELSE FinalizeOrRecord(
                 BlockLeftLookingSupernodeUpdate(
                     [t EXCEPT !.factor =
                         BlockCPlanInitializeFactorSupernodeColumns(
                             s, input, @)], s),
                 control, s))

-----------------------------------------------------------------------------
(***************************************************************************)
(* Right-looking, legacy storage.                                          *)
(***************************************************************************)
\* The place of a row of a child in its parent's front, diagonal block first.
RelativeIndex(f, s, row) ==
    IF f.members[row] = s THEN LocalColumn(f, s, row)
    ELSE f.ordering.sizes[s] + FindScalarRow(f, s, row)

AddedAt(m, rows, columns, relative, child) ==
    LET at(k) == {i \in DOMAIN relative : relative[i] = k}
    IN  Matrix(Height(m), Width(m), LAMBDA r, c :
            IF \E i \in at(rows + r), j \in at(columns + c) : i >= j
            THEN Plus(m[r][c], child[CHOOSE i \in at(rows + r) : TRUE]
                                    [CHOOSE j \in at(columns + c) : TRUE])
            ELSE m[r][c])

\* Every child's Schur complement goes into the three parts of the front of
\* its parent and is released.
MergeChildSchurComplements(t, s) ==
    Through(t.factor.ordering.forest.children[s], t, LAMBDA u, child :
        LET f == u.factor
            size == f.ordering.sizes[s]
            schur == u.schur[child]
            rows == Structure(f, child)
            relative == <<>> \o [i \in DOMAIN rows |->
                RelativeIndex(f, s, rows[i])]
        IN  [u EXCEPT
                !.factor.diagonal[s] = AddedAt(@, 0, 0, relative, schur),
                !.factor.lower[s] = AddedAt(@, size, 0, relative, schur),
                !.schur[s] = AddedAt(@, size, size, relative, schur),
                !.schur[child] = <<>>])

\* What a supernode takes off its Schur complement.
OuterProduct(f, type, s, schur) ==
    LET lower == f.lower[s]
    IN  IF f.degrees[s] = 0 THEN schur
        ELSE IF type = Cholesky
             THEN LowerNormalHermitianOuterProduct(MinusOne, lower, One, schur)
             ELSE MatrixMultiplyLowerNormalNormal(MinusOne, lower,
                      FormScaledTranspose(type, f.diagonal[s], lower), One,
                      schur)

UpdateSchurComplement(merged, done, control, s) ==
    [merged EXCEPT
        !.factor = done.factor,
        !.schur[s] = IF done.succeeded
                     THEN OuterProduct(done.factor, control.type, s, @) ELSE @,
        !.results[s] = [succeeded |-> done.succeeded,
                        pivots |-> @.pivots + done.pivots,
                        regularization |->
                            @.regularization \o done.regularization]]
FactorMerged(merged, control, s) ==
    UpdateSchurComplement(merged,
        FactorBlockColumn(merged.factor, s, control,
                          Regularizing(control, merged.factor, s)),
        control, s)
RightLookingSupernodeFinalize(t, control, s) ==
    LET degree == t.factor.degrees[s]
    IN  FactorMerged(MergeChildSchurComplements(
            [t EXCEPT !.schur[s] =
                Matrix(degree, degree, LAMBDA i, j : Zero)], s), control, s)

\* The contributions of the children (or roots) before the first failure.
MergeContribution(t, children) ==
    LET before == SelectSeq(children, LAMBDA c :
            \A k \in DOMAIN children :
                children[k] <= c => t.results[children[k]].succeeded)
    IN  [succeeded |-> Len(before) = Len(children),
         pivots |-> Through(before, 0, LAMBDA n, c : n + t.results[c].pivots),
         regularization |->
             IF Len(before) < Len(children) THEN <<>>
             ELSE Through(before, <<>>, LAMBDA done, c :
                      done \o t.results[c].regularization)]

\* Of a supernode that has seen its children.
RightLookingSupernode(t, control, m, s) ==
    LET children == t.factor.ordering.forest.children[s]
        merged == [t EXCEPT !.results[s] = MergeContribution(t, children)]
    IN  IF merged.results[s].succeeded
        THEN RightLookingSupernodeFinalize(
                 [merged EXCEPT !.factor =
                     InitializeBlockColumn(s, m, control.type, @)],
                 control, s)
        ELSE [merged EXCEPT !.schur = <<>> \o [c \in DOMAIN @ |->
                 IF c \in Range(children) THEN <<>> ELSE @[c]]]

\* The recursion finishes the supernodes in postorder.
RightLookingSubtree(t, control, m, root) ==
    Through(FillPostorderImpl(root, t.factor.ordering.forest), t,
            LAMBDA u, s : RightLookingSupernode(u, control, m, s))

RightLooking(f, control, m) ==
    LET count == Len(f.degrees)
        none == [succeeded |-> FALSE, pivots |-> 0, regularization |-> <<>>]
        roots == f.ordering.forest.roots
        result(done) == MergeContribution(done, roots)
                            @@ [factor |-> done.factor]
    IN  result(Through(roots,
            [factor |-> f, schur |-> Constant(count, <<>>),
             results |-> Constant(count, none)],
            LAMBDA t, root : RightLookingSubtree(t, control, m, root)))
=============================================================================
