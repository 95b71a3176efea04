------------------------------ MODULE SparseLDL ------------------------------
(***************************************************************************)
(* The front end: a SparseLDL object holds a scalar or a supernodal        *)
(* factorization, the scaling of an equilibrated matrix, and hands its     *)
(* buffer of factor values from one factorization to the next.             *)
(*                                                                         *)
(* The object is a record.  Its factor is that of module                   *)
(* ScalarFactorization or SupernodalSetup; status is "empty", "symbolic",  *)
(* "factored" or "failed"; regularization is the list that the last        *)
(* factorization returned, and values the room of the buffer.  control     *)
(* joins the structures of options: isSupernodal, equilibrate, type,       *)
(* algorithm, pivoting, blas, regularize, params, record, parallel, tile   *)
(* and the relaxation [relax, blockSize, cutoffs, preserveOrdering].       *)
(***************************************************************************)
EXTENDS SupernodalSolve

Scalar_ldl == INSTANCE ScalarFactorization

NoLDL ==
    [status |-> "empty", isSupernodal |-> FALSE, factor |-> <<>>,
     control |-> <<>>, scaling |-> <<>>, regularization |-> <<>>,
     pivots |-> 0, input |-> <<>>, values |-> 0]

-----------------------------------------------------------------------------
(***************************************************************************)
(* Equilibration.                                                          *)
(***************************************************************************)
\* The absolute value.  As squares stand for the positive numbers, the norm
\* of a complex number has a root in them.
Abs(x) == SquareRoot(Magnitude((x[1] * x[1] + x[2] * x[2]) % Prime))

\* The root of the largest entry of every column, none of which is zero.
EquilibrationScaling(m) ==
    Vector(m.rows, LAMBDA j :
        FromReal(SquareRoot(Max({0} \cup
            {Abs(m.entries[k].value) : k \in {i \in DOMAIN m.entries :
                                                 m.entries[i].column = j}}))))

EquilibrateSymmetricMatrix(m, scaling) ==
    [m EXCEPT !.entries = <<>> \o [k \in DOMAIN @ |->
        [@[k] EXCEPT !.value = Over(@, Times(scaling[m.entries[k].row],
                                             scaling[m.entries[k].column]))]]]

\* scaling is empty for an object that does not equilibrate.
MatrixToFactor(m, scaling) ==
    IF scaling = <<>> THEN m ELSE EquilibrateSymmetricMatrix(m, scaling)

\* inv(D) A inv(D) was factored, so what was added to it is wrapped with D.
RescaledRegularization(regularization, scaling) ==
    IF scaling = <<>> THEN regularization
    ELSE <<>> \o [k \in DOMAIN regularization |->
        LET i == regularization[k][1]
        IN  <<i, regularization[k][2] * RealPart(scaling[i])
                     * RealPart(scaling[i])>>]

DynamicRegularizationDiagonal(n, regularization) ==
    Vector(n, LAMBDA i :
        Through(regularization, Zero, LAMBDA d, entry :
            IF entry[1] = i THEN FromReal(entry[2]) ELSE d))

-----------------------------------------------------------------------------
(***************************************************************************)
(* The buffer of values.                                                   *)
(***************************************************************************)
FactorValues(f) ==
    Through(Indices(Len(f.degrees)), 0, LAMBDA n, s :
        n + f.ordering.sizes[s] * (f.ordering.sizes[s] + f.degrees[s]))

\* Mutant: a buffer that is there is taken as it is.
KeptBuffer(capacity, needed) == IF capacity > 0 THEN capacity ELSE needed

\* A recycled buffer that is too small gets an eighth more than is needed.
GrownBuffer(capacity, needed) ==
    IF capacity > 0 /\ needed > capacity THEN needed + needed \div 8
    ELSE IF needed > capacity THEN needed ELSE capacity

\* The buffer of the factorization that is replaced: the new one inherits it
\* unless the caller asks for it.  A scalar factorization lets go of it.
Inherited(ldl, deferred) == IF deferred THEN 0 ELSE ldl.values

-----------------------------------------------------------------------------
(***************************************************************************)
(* Factorizations.                                                         *)
(***************************************************************************)
\* Pivoting is for LDL^H only.
EffectiveControl(control) ==
    [control EXCEPT !.pivoting = @ /\ control.type = LDLAdjoint]

\* The symbolic part of a supernodal factorization, from a scalar forest.
WithSymbolicFactor(ldl, factor, control, deferred) ==
    [NoLDL EXCEPT
        !.status = "symbolic", !.isSupernodal = TRUE, !.factor = factor,
        !.control = EffectiveControl(control),
        !.values = GrownBuffer(Inherited(ldl, deferred), FactorValues(factor))]
AnalyzePattern(ldl, m, o, forest, control, deferred) ==
    WithSymbolicFactor(ldl,
        InitializeFactors(m, FormSupernodes(o, forest, control),
                          control.parallel),
        control, deferred)

NumRows(ldl) ==
    IF ldl.isSupernodal THEN Len(ldl.factor.members)
    ELSE Len(ldl.factor.diagonal)

\* The caller is told of a failure by the number of pivots.
Judged(ldl) == [ldl EXCEPT !.status =
    IF ldl.pivots = NumRows(ldl) THEN "factored" ELSE "failed"]

\* A supernodal factorization writes the blocks and the pivot permutations, and
\* nothing of the analysis; a scalar one builds its factor.
WithNumbers(factor, done) ==
    [factor EXCEPT !.diagonal = done.diagonal, !.lower = done.lower,
                   !.permutations = done.permutations]
WithResult(ldl, scaling, result) ==
    Judged([ldl EXCEPT
        !.factor = IF ldl.isSupernodal THEN WithNumbers(@, result.factor)
                   ELSE result.factor,
        !.scaling = scaling, !.pivots = result.pivots,
        !.regularization = RescaledRegularization(result.regularization,
                                                  scaling)])

\* Right-looking, from the matrix itself.
FactorAnalyzed(analyzed, m, scaling) ==
    WithResult(analyzed, scaling,
        RightLooking(analyzed.factor, analyzed.control,
                     MatrixToFactor(m, scaling)))
FactorSupernodal(ldl, m, o, forest, control, deferred) ==
    FactorAnalyzed(AnalyzePattern(ldl, m, o, forest, control, deferred), m,
                   IF control.equilibrate THEN EquilibrationScaling(m)
                   ELSE <<>>)

ScalarResult(f) ==
    [factor |-> f, pivots |-> f.pivots, regularization |-> f.regularization]

FactorScalar(m, o, control) ==
    LET scaling == IF control.equilibrate THEN EquilibrationScaling(m) ELSE <<>>
    IN  WithResult([NoLDL EXCEPT !.control = control], scaling,
            ScalarResult(Scalar_ldl!ScalarFactorize(
                MatrixToFactor(m, scaling), o, control)))

NotRegularized(done) ==
    [factor |-> done.factor, pivots |-> done.pivots, regularization |-> <<>>]

\* From a matrix with the same pattern; the scaling is computed anew.  The
\* supernodal form of it is there for left-looking alone, which reads the
\* values of the last conversion plan and not this matrix.
RefactorWithFixedSparsityPattern(ldl, m) ==
    LET scaling == IF ldl.scaling = <<>> THEN <<>> ELSE EquilibrationScaling(m)
    IN  IF ldl.isSupernodal
        THEN WithResult(ldl, scaling, NotRegularized(
                 LeftLooking(ldl.factor, ldl.control, ldl.input)))
        ELSE WithResult(ldl, scaling,
                 ScalarResult(Scalar_ldl!ScalarRefactor(
                     ldl.factor, MatrixToFactor(m, scaling), ldl.control)))

\* The object must be there, and for a supernodal one the matrix is refused
\* (by a throw) unless its algorithm is left-looking.
MayRefactor(ldl) ==
    /\ ldl.status # "empty"
    /\ ldl.isSupernodal => /\ ldl.control.algorithm = "leftLooking"
                           /\ ldl.input # <<>>

\* From the values that a conversion plan takes out of the caller's arrays.
\* They are not equilibrated, and the scaling stays what it was.
MayRefactorBlocks(ldl, blockSize) ==
    /\ ldl.isSupernodal
    /\ blockSize = ldl.factor.blockSize
    /\ ldl.control.type = Cholesky /\ ~ldl.control.regularize

RefactorBlocks(ldl, input) ==
    WithResult([ldl EXCEPT !.input = input], ldl.scaling, NotRegularized(
        IF ldl.control.algorithm = "leftLooking"
        THEN BlockLeftLooking(ldl.factor, ldl.control, input)
        ELSE BlockRightLooking(ldl.factor, ldl.control, input)))

\* A new object with the same analysis, for the scalars of the blocks or as
\* it is.
ExpandedLDL(ldl, size) ==
    LET factor == ExpandSymbolicFactorizationToScalar(ldl.factor, size)
    IN  [ldl EXCEPT !.status = "symbolic", !.factor = factor,
                    !.values = FactorValues(factor), !.input = <<>>]
MayClone(ldl) == ldl.isSupernodal
Clone(ldl) == [ldl EXCEPT !.factor = CloneFactor(@), !.input = <<>>]

Permutation(ldl) == ldl.factor.ordering.permutation
InversePermutation(ldl) == ldl.factor.ordering.inverse

-----------------------------------------------------------------------------
(***************************************************************************)
(* Solving.                                                                *)
(***************************************************************************)
\* Once for every column, and each time in the first column only.
UndoEquilibration(scaling, x) ==
    IF scaling = <<>> THEN x
    ELSE Through(Indices(Width(x)), x, LAMBDA y, column :
        Matrix(Height(y), Width(y), LAMBDA i, j :
            IF j = 1 THEN Over(y[i][j], scaling[i]) ELSE y[i][j]))

\* Without supernodes, right-hand sides that are permuted already are refused.
Solve(ldl, policy, parallel, already_permuted, b) ==
    LET given == UndoEquilibration(ldl.scaling, b)
    IN  UndoEquilibration(ldl.scaling,
            IF ldl.isSupernodal
            THEN SupernodalSolve(ldl.factor, ldl.control, policy, given,
                                 parallel, already_permuted)
            ELSE Scalar_ldl!ScalarSolve(ldl.factor, ldl.control.type, given))

\* The three parts of a solve, without permutation and equilibration.
SolveLower(ldl, policy, b) ==
    IF ldl.isSupernodal
    THEN LowerTriangularSolve(ldl.factor, ldl.control, policy, b)
    ELSE Scalar_ldl!ScalarLowerTriangularSolve(ldl.factor, ldl.control.type, b)
SolveDiagonal(ldl, b) ==
    IF ldl.isSupernodal THEN DiagonalSolve(ldl.factor, ldl.control, b)
    ELSE Scalar_ldl!ScalarDiagonalSolve(ldl.factor, ldl.control.type, b)
SolveLowerTranspose(ldl, policy, b) ==
    IF ldl.isSupernodal
    THEN LowerTransposeTriangularSolve(ldl.factor, ldl.control, policy, b)
    ELSE Scalar_ldl!ScalarLowerTransposeTriangularSolve(ldl.factor,
                                                        ldl.control.type, b)
=============================================================================
