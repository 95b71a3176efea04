------------------------- MODULE DenseFactorizations -------------------------
(***************************************************************************)
(* Sequential dense factorizations and samplers.  A routine works on the   *)
(* lower triangle in place and gives a record: the matrix it leaves, the   *)
(* number of pivots it reports, the entries it appends to the list of      *)
(* dynamic regularizations and the indices it appends to the sample.       *)
(*                                                                         *)
(* The parameters of a call are a record too:                              *)
(*   offset, signatures, inverse, positive, negative                       *)
(*                        the members of DynamicRegularizationParams,      *)
(*   draws                what the random numbers decide: draws[i] says    *)
(*                        whether index i is kept when both are possible.  *)
(***************************************************************************)
EXTENDS DenseKernels

Result(matrix, pivots) ==
    [matrix |-> matrix, pivots |-> pivots,
     regularization |-> <<>>, sample |-> <<>>]

Offset(params, offset) == [params EXCEPT !.offset = @ + offset]

\* Divide column i by scale below the diagonal, which becomes diagonal.
DivideColumn(m, i, diagonal, scale) ==
    Matrix(Height(m), Width(m), LAMBDA r, c :
        IF c # i \/ r < i THEN m[r][c]
        ELSE IF r = i THEN diagonal ELSE Over(m[r][c], scale))
\* matrix(k, j) -= matrix(k, i) eta(j) for k >= j > i.
RankOneUpdate(m, i, eta(_)) ==
    Matrix(Height(m), Width(m), LAMBDA r, c :
        IF c > i /\ r >= c THEN Minus(m[r][c], Times(m[r][i], eta(c)))
        ELSE m[r][c])

\* Run body on columns 1, 2, ... until one does not add a pivot.
Columns(m, body(_, _)) ==
    LET r[i \in 0..Height(m)] ==
            IF i = 0 THEN Result(m, 0)
            ELSE LET before == r[i - 1] IN
                 IF before.pivots < i - 1 THEN before ELSE body(before, i)
    IN  r[Height(m)]

-----------------------------------------------------------------------------
(***************************************************************************)
(* Unblocked factorizations.                                               *)
(***************************************************************************)
CholeskyColumn(m, i, delta) ==
    LET root == FromReal(SquareRoot(delta))
        divided == DivideColumn(m, i, root, root)
    IN  RankOneUpdate(divided, i, LAMBDA j : Conjugate(divided[j][i]))
LDLAdjointColumn(m, i, delta) ==
    LET divided == DivideColumn(m, i, FromReal(delta), FromReal(delta))
    IN  RankOneUpdate(divided, i, LAMBDA j :
            Times(FromReal(delta), Conjugate(divided[j][i])))

CholeskyStep(r, i) ==
    LET delta == RealPart(r.matrix[i][i])
    IN  IF ~Positive(delta)
        THEN [r EXCEPT !.matrix[i][i] = FromReal(delta)]
        ELSE [r EXCEPT !.matrix = CholeskyColumn(@, i, delta),
                       !.pivots = i]
UnblockedLowerCholeskyFactorization(m) == Columns(m, CholeskyStep)

LDLAdjointStep(r, i) ==
    LET delta == RealPart(r.matrix[i][i])
    IN  IF delta = 0
        THEN [r EXCEPT !.matrix[i][i] = FromReal(delta)]
        ELSE [r EXCEPT !.matrix = LDLAdjointColumn(@, i, delta),
                       !.pivots = i]
UnblockedLDLAdjointFactorization(m) == Columns(m, LDLAdjointStep)

LDLTransposeStep(r, i) ==
    LET delta == r.matrix[i][i]
        divided == DivideColumn(r.matrix, i, delta, delta)
    IN  IF delta = Zero THEN r
        ELSE [r EXCEPT
                !.matrix = RankOneUpdate(divided, i, LAMBDA j :
                               Times(delta, divided[j][i])),
                !.pivots = i]
UnblockedLDLTransposeFactorization(m) == Columns(m, LDLTransposeStep)

\* Mutant: the offset of the block is forgotten.
OriginalIndexInBlock(params, i) ==
    IF params.inverse = <<>> THEN i ELSE params.inverse[i]

\* The index that position i of the current block has in the original matrix.
OriginalIndex(params, i) ==
    IF params.inverse = <<>> THEN i + params.offset
    ELSE params.inverse[i + params.offset]

RegularizedCholeskyStep(params, r, i) ==
    LET delta == Signed(RealPart(r.matrix[i][i]))
        raised == [r EXCEPT
            !.matrix = CholeskyColumn(@, i, params.positive % Prime),
            !.pivots = i,
            !.regularization = Append(@, <<OriginalIndex(params, i),
                                           params.positive - delta>>)]
    IN  CASE delta <= 0 - params.positive -> r
          [] delta > 0 - params.positive /\ delta < params.positive ->
               raised
          [] OTHER ->
               [r EXCEPT !.matrix = CholeskyColumn(@, i, delta % Prime),
                         !.pivots = i]
UnblockedDynamicallyRegularizedLowerCholeskyFactorization(params, m) ==
    Columns(m, LAMBDA r, i : RegularizedCholeskyStep(params, r, i))

RegularizedLDLAdjointStep(params, r, i) ==
    LET delta == Signed(RealPart(r.matrix[i][i]))
        original == OriginalIndex(params, i)
        positive == params.signatures[original]
        \* The pivot times its signature, and the least it may be.
        size == IF positive THEN delta ELSE 0 - delta
        least == IF positive THEN params.positive
                 ELSE params.negative
        pivot(s) == (IF positive THEN s ELSE 0 - s) % Prime
        change == IF positive THEN least - size ELSE size - least
    IN  CASE size <= 0 - least -> r
          [] size > 0 - least /\ size < least ->
               [r EXCEPT
                  !.matrix = LDLAdjointColumn(@, i, pivot(least)),
                  !.pivots = i,
                  !.regularization = Append(@, <<original, change>>)]
          [] OTHER ->
               [r EXCEPT !.matrix = LDLAdjointColumn(@, i, pivot(size)),
                         !.pivots = i]
UnblockedDynamicallyRegularizedLDLAdjointFactorization(params, m) ==
    Columns(m, LAMBDA r, i : RegularizedLDLAdjointStep(params, r, i))

-----------------------------------------------------------------------------
(***************************************************************************)
(* Unblocked samplers.  uniform <= delta keeps index i; an index with      *)
(* delta = 0 is not kept and one with delta = 1 is.                        *)
(***************************************************************************)
Kept(params, i, delta) ==
    delta # 0 /\ (delta = 1 \/ params.draws[i + params.offset])

HermitianDPPStep(params, r, i) ==
    LET delta == RealPart(r.matrix[i][i])
    IN  IF Kept(params, i, delta)
        THEN [r EXCEPT !.matrix = LDLAdjointColumn(@, i, delta),
                       !.pivots = i, !.sample = Append(@, i)]
        ELSE [r EXCEPT
                !.matrix = LDLAdjointColumn(@, i, (delta - 1) % Prime),
                !.pivots = i]
UnblockedSampleLowerHermitianDPP(params, m) ==
    Columns(m, LAMBDA r, i : HermitianDPPStep(params, r, i))

LUColumn(m, i, delta) ==
    LET divided == DivideColumn(m, i, FromReal(delta), FromReal(delta))
    IN  Matrix(Height(m), Width(m), LAMBDA r, c :
            IF r > i /\ c > i
            THEN Minus(divided[r][c], Times(divided[r][i], divided[i][c]))
            ELSE divided[r][c])
NonHermitianDPPStep(params, r, i) ==
    LET delta == RealPart(r.matrix[i][i])
    IN  IF Kept(params, i, delta)
        THEN [r EXCEPT !.matrix = LUColumn(@, i, delta),
                       !.pivots = i, !.sample = Append(@, i)]
        ELSE [r EXCEPT !.matrix = LUColumn(@, i, (delta - 1) % Prime),
                       !.pivots = i]
UnblockedSampleNonHermitianDPP(params, m) ==
    Columns(m, LAMBDA r, i : NonHermitianDPPStep(params, r, i))

-----------------------------------------------------------------------------
(***************************************************************************)
(* What the blocked and the tiled routines do with one block.              *)
(***************************************************************************)
Routines == {"cholesky", "regularizedCholesky", "ldlAdjoint",
             "regularizedLDLAdjoint", "ldlTranspose",
             "hermitianDPP", "nonHermitianDPP"}
IsCholesky(routine) == routine \in {"cholesky", "regularizedCholesky"}

UnblockedRoutine(routine, params, m) ==
    CASE routine = "cholesky" -> UnblockedLowerCholeskyFactorization(m)
      [] routine = "regularizedCholesky" ->
           UnblockedDynamicallyRegularizedLowerCholeskyFactorization(params, m)
      [] routine = "ldlAdjoint" -> UnblockedLDLAdjointFactorization(m)
      [] routine = "regularizedLDLAdjoint" ->
           UnblockedDynamicallyRegularizedLDLAdjointFactorization(params, m)
      [] routine = "ldlTranspose" -> UnblockedLDLTransposeFactorization(m)
      [] routine = "hermitianDPP" -> UnblockedSampleLowerHermitianDPP(params, m)
      [] routine = "nonHermitianDPP" -> UnblockedSampleNonHermitianDPP(params, m)

\* The solve of a block below the diagonal block, and the copy of it that the
\* updates use: its conjugate, or itself, before the division by the diagonal.
SolvedPanel(routine, diagonal, b) ==
    CASE IsCholesky(routine) -> RightLowerAdjointTriangularSolves(diagonal, b)
      [] routine = "nonHermitianDPP" -> RightUpperTriangularSolves(diagonal, b)
      [] routine = "ldlTranspose" ->
           RightLowerTransposeUnitTriangularSolves(diagonal, b)
      [] OTHER -> RightLowerAdjointUnitTriangularSolves(diagonal, b)
CopiedPanel(routine, solved) ==
    IF routine = "ldlTranspose" THEN solved ELSE ConjugateMatrix(solved)
DividedPanel(routine, diagonal, solved) ==
    IF IsCholesky(routine) \/ routine = "nonHermitianDPP" THEN solved
    ELSE Matrix(Height(solved), Width(solved), LAMBDA i, j :
             Over(solved[i][j],
                  IF routine = "ldlTranspose" THEN diagonal[j][j]
                  ELSE FromReal(RealPart(diagonal[j][j]))))

-----------------------------------------------------------------------------
(***************************************************************************)
(* Blocked factorizations.                                                 *)
(***************************************************************************)
Shifted(sample, offset) == [k \in 1..Len(sample) |-> sample[k] + offset]

\* Accumulate what the block at i, of size n, gave.
Accumulate(r, i, block) ==
    [matrix |-> Overwrite(r.matrix, i, i, block.matrix),
     pivots |-> r.pivots + block.pivots,
     regularization |-> r.regularization \o block.regularization,
     sample |-> r.sample \o Shifted(block.sample, i - 1)]

\* The panel to the right of a block is part of an LU factorization alone.
RightPanel(routine, diagonal, b) ==
    IF routine = "nonHermitianDPP"
    THEN LeftLowerUnitTriangularSolves(diagonal, b) ELSE b

UpdatedRest(routine, solved, divided, right, rest) ==
    CASE IsCholesky(routine) ->
           LowerNormalHermitianOuterProduct(MinusOne, solved, One, rest)
      [] routine = "nonHermitianDPP" ->
           MatrixMultiplyNormalNormal(MinusOne, solved, right, One, rest)
      [] OTHER ->
           MatrixMultiplyLowerNormalTranspose(
               MinusOne, divided, CopiedPanel(routine, solved), One, rest)

\* The panels of the block at i into the rows and columns from next on.
WithPanels(routine, m, i, next, diagonal, solved, right) ==
    LET left == Height(m) - next + 1
        divided == DividedPanel(routine, diagonal, solved)
    IN  Overwrite(
            Overwrite(Overwrite(m, next, i, divided), i, next, right),
            next, next,
            UpdatedRest(routine, solved, divided, right,
                        Submatrix(m, next, next, left, left)))

UpdatedByBlock(routine, m, i, size) ==
    LET left == Height(m) - (i + size) + 1
        diagonal == Submatrix(m, i, i, size, size)
    IN  WithPanels(routine, m, i, i + size, diagonal,
            SolvedPanel(routine, diagonal,
                        Submatrix(m, i + size, i, left, size)),
            RightPanel(routine, diagonal,
                       Submatrix(m, i, i + size, size, left)))

\* What remains is updated unless the block failed or is the last one.
AfterBlock(routine, before, i, size, block) ==
    [Accumulate(before, i, block) EXCEPT !.matrix =
        IF block.pivots < size \/ i + size > Height(@) THEN @
        ELSE UpdatedByBlock(routine, @, i, size)]
BlockStep(routine, params, before, i, size) ==
    IF before.pivots < i - 1 THEN before
    ELSE AfterBlock(routine, before, i, size,
             UnblockedRoutine(routine, Offset(params, i - 1),
                              Submatrix(before.matrix, i, i, size, size)))

Blocked(routine, blockSize, params, m) ==
    LET height == Height(m)
        r[k \in 0..height] ==      \* k is the last row that is done
            IF k = 0 THEN Result(m, 0)
            ELSE LET i == ((k - 1) \div blockSize) * blockSize + 1
                 IN  BlockStep(routine, params, r[i - 1], i, k - i + 1)
    IN  r[height]

BlockedLowerCholeskyFactorization(blockSize, m) ==
    Blocked("cholesky", blockSize, <<>>, m)
BlockedDynamicallyRegularizedLowerCholeskyFactorization(blockSize, params, m) ==
    Blocked("regularizedCholesky", blockSize, params, m)
BlockedLDLAdjointFactorization(blockSize, m) ==
    Blocked("ldlAdjoint", blockSize, <<>>, m)
BlockedDynamicallyRegularizedLDLAdjointFactorization(blockSize, params, m) ==
    Blocked("regularizedLDLAdjoint", blockSize, params, m)
BlockedLDLTransposeFactorization(blockSize, m) ==
    Blocked("ldlTranspose", blockSize, <<>>, m)
BlockedSampleLowerHermitianDPP(blockSize, params, m) ==
    Blocked("hermitianDPP", blockSize, params, m)
BlockedSampleNonHermitianDPP(blockSize, params, m) ==
    Blocked("nonHermitianDPP", blockSize, params, m)

\* The generic version; LAPACK's potrf in the overloads reports the same
\* pivots.
LowerCholeskyFactorization(blockSize, m) ==
    IF Height(m) < 2 * blockSize
    THEN UnblockedLowerCholeskyFactorization(m)
    ELSE BlockedLowerCholeskyFactorization(blockSize, m)
LowerCholeskyFactorizationDynamicBLASDispatch(blockSize, m) ==
    IF Height(m) < blockSize \div 8
    THEN UnblockedLowerCholeskyFactorization(m)
    ELSE LowerCholeskyFactorization(blockSize, m)
=============================================================================
