---------------------------- MODULE DenseKernels -----------------------------
(***************************************************************************)
(* Views of dense matrices and the kernels of dense_basic_linear_algebra.  *)
(* A matrix is the sequence of its rows, and indices start at 1.  A kernel *)
(* is modelled by its result: the loops of the generic version and the     *)
(* BLAS calls of the overloads for float, double and their complex types   *)
(* compute the same sums, and the order of the terms only matters to       *)
(* rounding.                                                               *)
(*                                                                         *)
(* Kernels named Lower compute the lower triangle.  What becomes of the    *)
(* entries above the diagonal depends on the build: the generic version    *)
(* and the GEMMT of MKL leave them alone, while with any other BLAS the    *)
(* products of two matrices call GEMM and then write zeros there.          *)
(***************************************************************************)
EXTENDS Scalars

CONSTANT ClearsUpper  \* CATAMARI_HAVE_BLAS without CATAMARI_USE_GEMMT

ASSUME ClearsUpperAssumption == ClearsUpper \in BOOLEAN

Height(m) == Len(m)
Width(m) == IF m = <<>> THEN 0 ELSE Len(m[1])

\* Concatenation makes a sequence out of a function on 1..n.
Vector(n, entry(_)) == <<>> \o [i \in 1..n |-> entry(i)]
Matrix(height, width, entry(_, _)) ==
    <<>> \o [i \in 1..height |-> <<>> \o [j \in 1..width |-> entry(i, j)]]

Smaller(a, b) == IF a < b THEN a ELSE b

-----------------------------------------------------------------------------
(***************************************************************************)
(* Views.                                                                  *)
(***************************************************************************)
Submatrix(m, i, j, height, width) ==
    Matrix(height, width, LAMBDA r, c : m[i + r - 1][j + c - 1])

\* Writing through the view that Submatrix returns.
Overwrite(m, i, j, block) ==
    Matrix(Height(m), Width(m), LAMBDA r, c :
        IF r - i + 1 \in 1..Height(block) /\ c - j + 1 \in 1..Width(block)
        THEN block[r - i + 1][c - j + 1]
        ELSE m[r][c])

AsColumn(v) == Matrix(Len(v), 1, LAMBDA i, j : v[i])
ColumnOf(m, j) == Vector(Height(m), LAMBDA i : m[i][j])
Transposed(m) == Matrix(Width(m), Height(m), LAMBDA i, j : m[j][i])

copyBlockContiguousSrcTranspose(n, src, dst, i, j) ==
    Overwrite(dst, i, j, Matrix(n, n, LAMBDA r, c : src[c][r]))
copyBlockContiguousSrc(n, src, dst, i, j) ==
    Overwrite(dst, i, j, Matrix(n, n, LAMBDA r, c : src[r][c]))
accumulateBlock(n, src, dst, i, j) ==
    Overwrite(dst, i, j, Matrix(n, n, LAMBDA r, c :
        Plus(dst[i + r - 1][j + c - 1], src[r][c])))

ConjugateMatrix(m) ==
    Matrix(Height(m), Width(m), LAMBDA i, j : Conjugate(m[i][j]))
AdjointOf(m) == ConjugateMatrix(Transposed(m))

-----------------------------------------------------------------------------
(***************************************************************************)
(* Products.                                                               *)
(***************************************************************************)
\* beta c + alpha (the product of rows left and columns right of length n).
Combine(alpha, n, left(_, _), right(_, _), beta, c) ==
    Matrix(Height(c), Width(c), LAMBDA i, j :
        Plus(Times(beta, c[i][j]),
             Times(alpha, SumTo(n, LAMBDA k : Times(left(i, k), right(k, j))))))
LowerCombine(alpha, n, left(_, _), right(_, _), beta, c) ==
    Matrix(Height(c), Width(c), LAMBDA i, j :
        IF i < j THEN c[i][j]
        ELSE Plus(Times(beta, c[i][j]),
                  Times(alpha,
                        SumTo(n, LAMBDA k : Times(left(i, k), right(k, j))))))

\* The lower triangle of a product of two matrices.
ClearedAbove(c) ==
    Matrix(Height(c), Width(c), LAMBDA i, j : IF i < j THEN Zero ELSE c[i][j])
LowerProduct(alpha, n, left(_, _), right(_, _), beta, c) ==
    LowerCombine(alpha, n, left, right, beta,
                 IF ClearsUpper THEN ClearedAbove(c) ELSE c)

MatrixVectorProduct(alpha, a, v, y) ==
    Vector(Len(y), LAMBDA i :
        Plus(y[i], Times(alpha, SumTo(Width(a), LAMBDA j :
                                    Times(a[i][j], v[j])))))
ConjugateMatrixVectorProduct(alpha, a, v, y) ==
    MatrixVectorProduct(alpha, ConjugateMatrix(a), v, y)
TransposeMatrixVectorProduct(alpha, a, v, y) ==
    Vector(Len(y), LAMBDA j :
        Plus(y[j], Times(alpha, SumTo(Height(a), LAMBDA i :
                                    Times(a[i][j], v[i])))))

MatrixMultiplyNormalNormal(alpha, a, b, beta, c) ==
    Combine(alpha, Width(a), LAMBDA i, k : a[i][k],
            LAMBDA k, j : b[k][j], beta, c)

\* Small products do not call BLAS.
MatrixMultiplyNormalNormalDynamicBLASDispatch(alpha, a, b, beta, c) ==
    MatrixMultiplyNormalNormal(alpha, a, b, beta, c)

MatrixMultiplyNormalTranspose(alpha, a, b, beta, c) ==
    Combine(alpha, Width(a), LAMBDA i, k : a[i][k],
            LAMBDA k, j : b[j][k], beta, c)
MatrixMultiplyNormalAdjoint(alpha, a, b, beta, c) ==
    Combine(alpha, Width(a), LAMBDA i, k : a[i][k],
            LAMBDA k, j : Conjugate(b[j][k]), beta, c)
MatrixMultiplyTransposeNormal(alpha, a, b, beta, c) ==
    Combine(alpha, Height(a), LAMBDA i, k : a[k][i],
            LAMBDA k, j : b[k][j], beta, c)
MatrixMultiplyAdjointNormal(alpha, a, b, beta, c) ==
    Combine(alpha, Height(a), LAMBDA i, k : Conjugate(a[k][i]),
            LAMBDA k, j : b[k][j], beta, c)

LowerNormalHermitianOuterProduct(alpha, a, beta, c) ==
    LowerCombine(alpha, Width(a), LAMBDA i, k : a[i][k],
                 LAMBDA k, j : Conjugate(a[j][k]), beta, c)

\* With beta = 0 the old contents are not read but overwritten; the overload
\* for a transposed left matrix is given its transpose.
LowerNormalHermitianOuterProductDynamicBLASDispatch(alpha, a, beta, c) ==
    IF beta = Zero
    THEN Matrix(Height(c), Width(c), LAMBDA i, j :
             IF i < j THEN c[i][j]
             ELSE Times(alpha, SumTo(Width(a), LAMBDA k :
                                   Times(a[i][k], Conjugate(a[j][k])))))
    ELSE LowerNormalHermitianOuterProduct(alpha, a, beta, c)

MatrixMultiplyLowerNormalNormal(alpha, a, b, beta, c) ==
    LowerProduct(alpha, Width(a), LAMBDA i, k : a[i][k],
                 LAMBDA k, j : b[k][j], beta, c)
MatrixMultiplyLowerNormalTranspose(alpha, a, b, beta, c) ==
    LowerProduct(alpha, Width(a), LAMBDA i, k : a[i][k],
                 LAMBDA k, j : b[j][k], beta, c)
MatrixMultiplyLowerTransposeNormal(alpha, a, b, beta, c) ==
    LowerProduct(alpha, Height(a), LAMBDA i, k : a[k][i],
                 LAMBDA k, j : b[k][j], beta, c)

-----------------------------------------------------------------------------
(***************************************************************************)
(* Triangular solves.                                                      *)
(***************************************************************************)
\* The rows x of the solution of x[i] pivot(i) = b[i] - (sum over k < i, or
\* over k > i, of factor(i, k) x[k]).
Residual(b, x, i, ks, factor(_, _)) ==
    LET r[k \in 0..Len(ks)] ==
            IF k = 0 THEN b[i]
            ELSE Vector(Width(b), LAMBDA j :
                     Minus(r[k - 1][j],
                           Times(factor(i, ks[k]), x[ks[k]][j])))
    IN  r[Len(ks)]
Scaled(row, pivot) == Vector(Len(row), LAMBDA j : Over(row[j], pivot))

Forward(factor(_, _), pivot(_), b) ==
    LET x[i \in 0..Height(b)] ==
            IF i = 0 THEN <<>>
            ELSE LET done == x[i - 1] IN
                 Append(done,
                        Scaled(Residual(b, done, i, [k \in 1..(i - 1) |-> k],
                                        factor), pivot(i)))
    IN  x[Height(b)]
Backward(factor(_, _), pivot(_), b) ==
    LET n == Height(b)
        x[i \in 1..(n + 1)] ==
            IF i = n + 1 THEN b
            ELSE LET done == x[i + 1] IN
                 [done EXCEPT ![i] =
                     Scaled(Residual(b, done, i, [k \in 1..(n - i) |-> i + k],
                                     factor), pivot(i))]
    IN  x[1]

LeftLowerTriangularSolves(t, b) ==
    Forward(LAMBDA i, k : t[i][k], LAMBDA i : t[i][i], b)
LeftLowerTriangularSolvesDynamicBLASDispatch(t, b) ==
    LeftLowerTriangularSolves(t, b)
LeftLowerUnitTriangularSolves(t, b) ==
    Forward(LAMBDA i, k : t[i][k], LAMBDA i : One, b)
LeftLowerAdjointTriangularSolves(t, b) ==
    Backward(LAMBDA i, k : Conjugate(t[k][i]),
             LAMBDA i : Conjugate(t[i][i]), b)
LeftLowerAdjointTriangularSolvesDynamicBLASDispatch(t, b) ==
    LeftLowerAdjointTriangularSolves(t, b)

\* Mutant: the unit solve divides by the diagonal.
LeftLowerAdjointUnitTriangularSolvesDividing(t, b) ==
    Backward(LAMBDA i, k : Conjugate(t[k][i]), LAMBDA i : t[i][i], b)

LeftLowerAdjointUnitTriangularSolves(t, b) ==
    Backward(LAMBDA i, k : Conjugate(t[k][i]), LAMBDA i : One, b)
LeftLowerTransposeUnitTriangularSolves(t, b) ==
    Backward(LAMBDA i, k : t[k][i], LAMBDA i : One, b)

TriangularSolveLeftLower(t, v) ==
    ColumnOf(LeftLowerTriangularSolves(t, AsColumn(v)), 1)
TriangularSolveLeftLowerUnit(t, v) ==
    ColumnOf(LeftLowerUnitTriangularSolves(t, AsColumn(v)), 1)
TriangularSolveLeftLowerAdjoint(t, v) ==
    ColumnOf(LeftLowerAdjointTriangularSolves(t, AsColumn(v)), 1)
TriangularSolveLeftLowerAdjointUnit(t, v) ==
    ColumnOf(LeftLowerAdjointUnitTriangularSolves(t, AsColumn(v)), 1)
TriangularSolveLeftUpper(t, v) ==
    ColumnOf(Backward(LAMBDA i, k : t[i][k], LAMBDA i : t[i][i],
                      AsColumn(v)), 1)

\* The solves from the right treat the rows of b as columns.  The diagonal is
\* not conjugated.
RightLowerAdjointTriangularSolves(t, b) ==
    Transposed(Forward(LAMBDA i, k : Conjugate(t[i][k]),
                       LAMBDA i : t[i][i], Transposed(b)))
RightLowerAdjointUnitTriangularSolves(t, b) ==
    Transposed(Forward(LAMBDA i, k : Conjugate(t[i][k]),
                       LAMBDA i : One, Transposed(b)))
RightLowerTransposeTriangularSolves(t, b) ==
    Transposed(Forward(LAMBDA i, k : t[i][k],
                       LAMBDA i : t[i][i], Transposed(b)))
RightLowerTransposeUnitTriangularSolves(t, b) ==
    Transposed(Forward(LAMBDA i, k : t[i][k],
                       LAMBDA i : One, Transposed(b)))
RightUpperTriangularSolves(t, b) ==
    Transposed(Forward(LAMBDA i, k : t[k][i],
                       LAMBDA i : t[i][i], Transposed(b)))

\* A column is divided by its diagonal entry after its last use.
DividedByDiagonal(t, b) ==
    Matrix(Height(b), Width(b), LAMBDA i, j : Over(b[i][j], t[j][j]))
RightDiagonalTimesLowerAdjointUnitTriangularSolves(t, b) ==
    DividedByDiagonal(t, RightLowerAdjointUnitTriangularSolves(t, b))
RightDiagonalTimesLowerTransposeUnitTriangularSolves(t, b) ==
    DividedByDiagonal(t, RightLowerTransposeUnitTriangularSolves(t, b))

-----------------------------------------------------------------------------
(***************************************************************************)
(* Permutations, given as sequences over 1..n.                             *)
(***************************************************************************)
Permute(p, m) ==
    LET from(i) == CHOOSE k \in 1..Height(m) : p[k] = i
    IN  Matrix(Height(m), Width(m), LAMBDA i, j : m[from(i)][j])
InversePermute(p, m) ==
    Matrix(Height(m), Width(m), LAMBDA i, j : m[p[i]][j])
PermuteColumns(p, m) == Transposed(Permute(p, Transposed(m)))
InversePermuteColumns(p, m) == Transposed(InversePermute(p, Transposed(m)))

\* The overload for permutations of blocks looks up the first row of a block
\* only, and throws unless the height is a multiple of the block size.
InversePermuteBlocks(size, p, m) ==
    Matrix(Height(m), Width(m), LAMBDA i, j :
        LET first == ((i - 1) \div size) * size + 1
        IN  m[p[first] + (i - first)][j])

-----------------------------------------------------------------------------
(***************************************************************************)
(* Products split into tiles, one task per tile.  No two tasks write the   *)
(* same tile and no task reads what another one writes.                    *)
(***************************************************************************)
TileStarts(n, tile) == {i \in 1..n : (i - 1) % tile = 0}

\* The tile of rows from i and columns from j of what whole computes.
OfTiles(c, tile, diagonal(_), offDiagonal(_, _)) ==
    Matrix(Height(c), Width(c), LAMBDA r, s :
        LET i == ((r - 1) \div tile) * tile + 1
            j == ((s - 1) \div tile) * tile + 1
        IN  CASE i < j -> c[r][s]
              [] i = j -> diagonal(i)[r - i + 1][s - j + 1]
              [] OTHER -> offDiagonal(i, j)[r - i + 1][s - j + 1])

OpenMPMatrixMultiplyLowerNormalNormal(tile, alpha, a, b, beta, c) ==
    LET size(i) == Smaller(Height(c) - i + 1, tile)
        rows(i) == Submatrix(a, i, 1, size(i), Width(a))
        columns(j) == Submatrix(b, 1, j, Width(a), size(j))
        old(i, j) == Submatrix(c, i, j, size(i), size(j))
    IN  OfTiles(c, tile,
            LAMBDA i : MatrixMultiplyLowerNormalNormal(
                           alpha, rows(i), columns(i), beta, old(i, i)),
            LAMBDA i, j : MatrixMultiplyNormalNormal(
                           alpha, rows(i), columns(j), beta, old(i, j)))
OpenMPLowerNormalHermitianOuterProduct(tile, alpha, a, beta, c) ==
    LET size(i) == Smaller(Height(c) - i + 1, tile)
        rows(i) == Submatrix(a, i, 1, size(i), Width(a))
        old(i, j) == Submatrix(c, i, j, size(i), size(j))
    IN  OfTiles(c, tile,
            LAMBDA i : LowerNormalHermitianOuterProduct(
                           alpha, rows(i), beta, old(i, i)),
            LAMBDA i, j : MatrixMultiplyNormalAdjoint(
                           alpha, rows(i), rows(j), beta, old(i, j)))
TBBLowerNormalHermitianOuterProduct(tile, alpha, a, beta, c) ==
    OpenMPLowerNormalHermitianOuterProduct(tile, alpha, a, beta, c)
=============================================================================
