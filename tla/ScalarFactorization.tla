------------------------- MODULE ScalarFactorization -------------------------
(***************************************************************************)
(* The factorization without supernodes: up-looking, which solves for one  *)
(* row of the factor at a time, and left-looking, which gathers one column *)
(* at a time, with the solves for both.                                    *)
(*                                                                         *)
(* A factor is a record: the ordering with its elimination forest, the row *)
(* indices and the values of every column below the diagonal, the diagonal *)
(* and the room the degrees leave for every column.  A result adds the     *)
(* number of pivots, whether that is all of them, and the regularization.  *)
(* control is [type, algorithm, regularize, params]; the thresholds of     *)
(* params are those that the code scales by the norm of the matrix.        *)
(***************************************************************************)
EXTENDS ScalarSymbolic, DenseKernels

\* Conjugation, for the two factorizations of a Hermitian matrix.
Adjoin(type, x) == IF type = LDLTranspose THEN x ELSE Conjugate(x)
RealIfAdjoint(type, x) ==
    IF type = LDLTranspose THEN x ELSE FromReal(RealPart(x))

ScalarFactor(o, room) ==
    [ordering |-> o, room |-> room,
     structure |-> Constant(Len(room), <<>>),
     lower |-> Constant(Len(room), <<>>),
     diagonal |-> Constant(Len(room), Zero),
     pivots |-> 0, succeeded |-> TRUE, regularization |-> <<>>]

-----------------------------------------------------------------------------
(***************************************************************************)
(* Pivots.                                                                 *)
(***************************************************************************)
\* Of a pivot with this signature, size is its value times the signature: it
\* fails at or below -least and is raised to least below that.  The list of
\* regularizations is in terms of the original indices.
RegularizePivot(f, row, pivot, control) ==
    LET original == ToOld(f.ordering, row)
        positive == control.params.signatures[original]
        least == IF positive THEN control.params.positive
                 ELSE control.params.negative
        real == Signed(RealPart(pivot))
        size == IF positive THEN real ELSE 0 - real
        change == IF positive THEN least - size ELSE size - least
    IN  IF ~control.regularize THEN [ok |-> TRUE, pivot |-> pivot, added |-> <<>>]
        ELSE [ok |-> size > 0 - least,
              pivot |-> IF size >= least THEN pivot
                        ELSE FromReal(IF positive THEN least ELSE 0 - least),
              added |-> IF size >= least THEN <<>>
                        ELSE <<<<original, change>>>>]

\* Only the types for Hermitian matrices write the pivot back, so that of a
\* transposed factorization does not see its own regularization.
AcceptPivot(f, row, control) ==
    LET regular == RegularizePivot(f, row, f.diagonal[row], control)
        pivot == regular.pivot
        real == RealPart(pivot)
        accepted ==
            CASE control.type = Cholesky -> Positive(real)
              [] control.type = LDLAdjoint -> real # 0
              [] control.type = LDLTranspose -> pivot # Zero
        stored ==
            CASE control.type = Cholesky -> FromReal(SquareRoot(real))
              [] control.type = LDLAdjoint -> FromReal(real)
              [] control.type = LDLTranspose -> f.diagonal[row]
    IN  IF ~regular.ok THEN [f EXCEPT !.succeeded = FALSE]
        ELSE IF ~accepted
        THEN [f EXCEPT !.succeeded = FALSE,
                       !.regularization = @ \o regular.added]
        ELSE [f EXCEPT !.diagonal[row] = stored, !.pivots = @ + 1,
                       !.regularization = @ \o regular.added]

-----------------------------------------------------------------------------
(***************************************************************************)
(* Up-looking.                                                             *)
(***************************************************************************)
UpLookingSetup(m, o) ==
    LET forest == EliminationForestAndDegrees(m, o)
    IN  ScalarFactor([o EXCEPT !.forest.parents = forest.parents],
                     forest.degrees)

\* One column of the row's pattern: the entry of L is final, takes its part
\* off the entries of the row right of it and is appended to its column.
UpLookingColumn(s, row, column, type) ==
    LET f == s.factor
        pivot == RealIfAdjoint(type, f.diagonal[column])
        eta == IF type = Cholesky THEN Over(s.workspace[column], pivot)
               ELSE s.workspace[column]
        lambda == IF type = Cholesky THEN eta ELSE Over(eta, pivot)
        found(i) == {k \in DOMAIN f.structure[column] :
                         f.structure[column][k] = i}
        update(i) == IF found(i) = {} THEN Zero
                     ELSE Times(eta, Adjoin(type,
                              f.lower[column][CHOOSE k \in found(i) : TRUE]))
    IN  [workspace |-> Vector(Len(s.workspace), LAMBDA i :
             IF i = column THEN Zero ELSE Minus(s.workspace[i], update(i))),
         factor |-> [f EXCEPT
             !.structure[column] = Append(@, row),
             !.lower[column] = Append(@, lambda),
             !.diagonal[row] = Minus(@, Times(eta, Adjoin(type, lambda)))]]

UpLookingRowUpdate(f, row, pattern, workspace, type) ==
    Through(pattern, [factor |-> f, workspace |-> workspace],
            LAMBDA s, column : UpLookingColumn(s, row, column, type)).factor

\* Rows after a failure are not looked at, and columns fill from the start.
UpLooking(f, m, control) ==
    LET empty == ScalarFactor(f.ordering, f.room)
    IN  Through(Indices(m.rows), empty, LAMBDA g, row :
            LET s == ComputeTopologicalRowPatternAndScatterNonzeros(
                         m, g.ordering, g.ordering.forest.parents, row)
                loaded == [g EXCEPT !.diagonal[row] = s.scattered[row]]
            IN  IF ~g.succeeded THEN g
                ELSE AcceptPivot(
                    UpLookingRowUpdate(loaded, row, s.pattern,
                        [s.scattered EXCEPT ![row] = Zero], control.type),
                    row, control))

-----------------------------------------------------------------------------
(***************************************************************************)
(* Left-looking.                                                           *)
(***************************************************************************)
\* Values are reset to zero first.
ScalarFillNonzeros(f, m) ==
    LET value(row, column) ==
            LET entries == PermutedRow(m, f.ordering, row)
                at == {k \in DOMAIN entries : entries[k].column = column}
            IN  IF at = {} THEN Zero ELSE entries[CHOOSE k \in at : TRUE].value
    IN  [f EXCEPT
            !.lower = <<>> \o [c \in DOMAIN f.structure |->
                Vector(Len(f.structure[c]), LAMBDA k :
                    value(f.structure[c][k], c))],
            !.diagonal = Vector(m.rows, LAMBDA i : value(i, i))]

LeftLookingSetup(m, o) ==
    LET forest == EliminationForestAndDegrees(m, o)
        ordering == [o EXCEPT !.forest = FillFromParents(forest.parents)]
    IN  ScalarFillNonzeros(
            [ScalarFactor(ordering, forest.degrees) EXCEPT
                !.structure = FillStructureIndices(m, ordering, forest.parents)],
            m)

\* What column j takes off column: pointers[j] is the place of row `column` in
\* column j, which is where j's part below the diagonal begins.
LeftLookingColumn(s, column, j, type) ==
    LET f == s.factor
        p == s.pointers[j]
        lambda == f.lower[j][p]
        eta == CASE type = Cholesky -> Conjugate(lambda)
                 [] type = LDLAdjoint -> Times(f.diagonal[j], Conjugate(lambda))
                 [] type = LDLTranspose -> Times(f.diagonal[j], lambda)
        below(row) == {k \in (p + 1)..Len(f.structure[j]) :
                           f.structure[j][k] = row}
    IN  [pointers |-> [s.pointers EXCEPT ![j] = p + 1],
         factor |-> [f EXCEPT
             !.diagonal[column] = Minus(@, Times(lambda, eta)),
             !.lower[column] = Vector(Len(@), LAMBDA k :
                 LET same == below(f.structure[column][k])
                 IN  IF same = {} THEN @[k]
                     ELSE Minus(@[k], Times(f.lower[j][CHOOSE i \in same : TRUE],
                                            eta)))]]

\* The pivot that divides the column is the regularized one.
ScalarLeftLooking(f, m, control) ==
    LET start == [f EXCEPT !.pivots = 0, !.succeeded = TRUE,
                           !.regularization = <<>>]
        pivotOf(g, column) ==
            IF control.type = LDLTranspose
            THEN RegularizePivot(g, column, g.diagonal[column], control).pivot
            ELSE AcceptPivot(g, column, control).diagonal[column]
        visit(s, column) ==
            LET pattern == ComputeRowPattern(m, f.ordering,
                               f.ordering.forest.parents, column)
                gathered == Through(pattern, s, LAMBDA t, j :
                                LeftLookingColumn(t, column, j, control.type))
                accepted == AcceptPivot(gathered.factor, column, control)
                pivot == pivotOf(gathered.factor, column)
            IN  IF ~s.factor.succeeded THEN s
                ELSE [gathered EXCEPT !.factor =
                    IF ~accepted.succeeded THEN accepted
                    ELSE [accepted EXCEPT !.lower[column] = Scaled(@, pivot)]]
    IN  Through(Indices(m.rows),
                [factor |-> start, pointers |-> Constant(m.rows, 1)],
                visit).factor

-----------------------------------------------------------------------------
(***************************************************************************)
(* The class.                                                              *)
(***************************************************************************)
ScalarFactorize(m, o, control) ==
    IF control.algorithm = "leftLooking"
    THEN ScalarLeftLooking(LeftLookingSetup(m, o), m, control)
    ELSE UpLooking(UpLookingSetup(m, o), m, control)

ScalarRefactor(f, m, control) ==
    IF control.algorithm = "leftLooking"
    THEN ScalarLeftLooking(ScalarFillNonzeros(f, m), m, control)
    ELSE UpLooking(f, m, control)

ScalarLowerTriangularSolve(f, type, b) ==
    Through(Indices(Height(b)), b, LAMBDA x, column :
        LET row == IF type = Cholesky
                   THEN Scaled(x[column], f.diagonal[column]) ELSE x[column]
            entry(i) == {k \in DOMAIN f.structure[column] :
                             f.structure[column][k] = i}
        IN  Matrix(Height(b), Width(b), LAMBDA i, j :
                IF i = column THEN row[j]
                ELSE IF entry(i) = {} THEN x[i][j]
                     ELSE Minus(x[i][j], Times(
                         f.lower[column][CHOOSE k \in entry(i) : TRUE],
                         row[j]))))

ScalarDiagonalSolve(f, type, b) ==
    IF type = Cholesky THEN b
    ELSE Matrix(Height(b), Width(b),
                LAMBDA i, j : Over(b[i][j], f.diagonal[i]))

ScalarLowerTransposeTriangularSolve(f, type, b) ==
    Through(Reverse(Indices(Height(b))), b, LAMBDA x, column :
        LET sum(j) == SumTo(Len(f.structure[column]), LAMBDA k :
                Times(Adjoin(type, f.lower[column][k]),
                      x[f.structure[column][k]][j]))
            row == Vector(Width(b), LAMBDA j : Minus(x[column][j], sum(j)))
        IN  [x EXCEPT ![column] =
                IF type = Cholesky THEN Scaled(row, f.diagonal[column])
                ELSE row])

ScalarSolve(f, type, b) ==
    LET o == f.ordering
        ordered == IF o.permutation = <<>> THEN b ELSE Permute(o.permutation, b)
        solved == ScalarLowerTransposeTriangularSolve(f, type,
                      ScalarDiagonalSolve(f, type,
                          ScalarLowerTriangularSolve(f, type, ordered)))
    IN  IF o.permutation = <<>> THEN solved ELSE Permute(o.inverse, solved)
=============================================================================
