--------------------------- MODULE DenseProperties ---------------------------
(***************************************************************************)
(* What the sequential dense routines promise, checked for the matrices of *)
(* the calls of TiledFactorizations.                                       *)
(***************************************************************************)
EXTENDS TiledFactorizations

Size == Height(call.matrix)
Product2(a, b) ==
    MatrixMultiplyNormalNormal(One, a, b, Zero,
        Matrix(Height(a), Width(b), LAMBDA i, j : Zero))
Lower(m) == Matrix(Size, Size, LAMBDA i, j : IF i >= j THEN m[i][j] ELSE Zero)
UnitLower(m) ==
    Matrix(Size, Size, LAMBDA i, j :
        CASE i = j -> One [] i > j -> m[i][j] [] OTHER -> Zero)
\* The Hermitian matrix that the lower triangle of m stands for.
HermitianPart(m) ==
    Matrix(Size, Size, LAMBDA i, j :
        IF i >= j THEN m[i][j] ELSE Conjugate(m[j][i]))

\* The input with rows and columns in the order of the permutation.
Reordered(permutation) ==
    Matrix(Size, Size, LAMBDA i, j :
        HermitianPart(call.matrix)[permutation[i]][permutation[j]])

\* The pivoted factorization factors the permuted matrix as far as it gets,
\* and it stops early only when what is left of the matrix has a zero diagonal.
PivotedFactorizationFactors ==
    call.routine = "ldlAdjoint" =>
    \A size \in 1..Size :
        LET s == BlockedPivotedLDLAdjointFactorization(size, call.matrix)
            n == s.pivots
            product == Leading(FactorProduct(s.matrix, Size), n)
        IN  /\ product = Leading(Reordered(s.permutation), n)
            /\ n < Size =>
                 LET r == UnblockedLDLAdjointFactorization(
                              Reordered(s.permutation))
                 IN  r.pivots = n

\* The matrices that play positive definite ones: every order of the rows has
\* positive pivots only.
Orders == {p \in [1..Size -> 1..Size] :
               \A i, j \in 1..Size : i # j => p[i] # p[j]}
PositiveDefinite ==
    \A p \in Orders :
        UnblockedLowerCholeskyFactorization(Reordered(p)).pivots = Size

\* An elementary sample of the rank asked for, whatever the random numbers and
\* the block size, comes with the Cholesky factor of the kernel of the sample,
\* whose likelihood is its determinant.
ElementarySampleFactors ==
    call.routine = "cholesky" /\ PositiveDefinite =>
    \A size, rank \in 1..Size, maximum \in BOOLEAN :
    \A picks \in [1..Size -> 1..Size] :
        LET s == BlockedSampleElementaryLowerHermitianDPP(
                     size, rank, maximum, picks, call.matrix)
            kernel == Submatrix(Reordered(s.permutation), 1, 1, rank, rank)
            ldl == UnblockedLDLAdjointFactorization(kernel)
        IN  /\ Leading(FactorProduct(s.matrix, rank), rank)
                 = Leading(kernel, rank)
            /\ ElementaryDPPLikelihood(rank, s.matrix)
                 = DPPLikelihood(ldl.matrix)

\* Pivoting permutes the matrix and the copy of its diagonal consistently: the
\* factors are those of the permuted matrix, for the greedy and the random
\* choice of pivots.
PivotedFactors ==
    pc = "done" => PivotedFactorizationFactors /\ ElementarySampleFactors

-----------------------------------------------------------------------------
(***************************************************************************)
(* Kernels.                                                                *)
(***************************************************************************)
\* A right-hand side and a triangular matrix with a nonzero diagonal.
RightHandSide == Transposed(call.matrix)
Triangle ==
    Matrix(Size, Size, LAMBDA i, j :
        IF i = j /\ call.matrix[i][i] = Zero THEN One ELSE call.matrix[i][j])
DiagonalPart(m) ==
    Matrix(Size, Size, LAMBDA i, j : IF i = j THEN m[i][i] ELSE Zero)

\* Each triangular solve is undone by the product with the triangle that its
\* name says, from the side that its name says; the vector versions agree.
SolvesInvert ==
    LET t == Triangle
        b == RightHandSide
        v == ColumnOf(b, 1)
        l == Lower(t)
        u == UnitLower(t)
        upper == Transposed(Lower(Transposed(t)))
    IN  /\ Product2(l, LeftLowerTriangularSolves(t, b)) = b
        /\ Product2(u, LeftLowerUnitTriangularSolves(t, b)) = b
        /\ Product2(AdjointOf(l), LeftLowerAdjointTriangularSolves(t, b)) = b
        /\ Product2(AdjointOf(u), LeftLowerAdjointUnitTriangularSolves(t, b)) = b
        /\ Product2(Transposed(u), LeftLowerTransposeUnitTriangularSolves(t, b))
             = b
        /\ Product2(RightLowerAdjointUnitTriangularSolves(t, b), AdjointOf(u))
             = b
        /\ Product2(RightLowerTransposeTriangularSolves(t, b), Transposed(l))
             = b
        /\ Product2(RightLowerTransposeUnitTriangularSolves(t, b),
                    Transposed(u)) = b
        /\ Product2(RightUpperTriangularSolves(t, b), upper) = b
        /\ Product2(Product2(
               RightDiagonalTimesLowerAdjointUnitTriangularSolves(t, b),
               DiagonalPart(t)), AdjointOf(u)) = b
        /\ Product2(Product2(
               RightDiagonalTimesLowerTransposeUnitTriangularSolves(t, b),
               DiagonalPart(t)), Transposed(u)) = b
        /\ Product2(l, AsColumn(TriangularSolveLeftLower(t, v))) = AsColumn(v)
        /\ MatrixVectorProduct(One, upper, TriangularSolveLeftUpper(t, v),
                               [i \in 1..Size |-> Zero]) = v
        /\ ConjugateMatrixVectorProduct(One, Transposed(l),
               TriangularSolveLeftLowerAdjoint(t, v),
               [i \in 1..Size |-> Zero]) = v

\* The products that are split into one task per tile give what the product
\* gives in one piece, for every tile size and every beta: below the diagonal
\* only where the build decides what is above it.  The permutations of rows and
\* of columns are undone by their inverses.
TiledProductsAgree ==
    \A tile \in 1..(Size + 1), beta \in {Zero, One, MinusOne} :
        LET a == call.matrix
            b == RightHandSide
            c == Triangle
            p == [i \in 1..Size |-> (i % Size) + 1]
        IN  /\ Lower(OpenMPMatrixMultiplyLowerNormalNormal(
                         tile, MinusOne, a, b, beta, c))
                 = Lower(MatrixMultiplyLowerNormalNormal(MinusOne, a, b, beta, c))
            /\ OpenMPLowerNormalHermitianOuterProduct(tile, MinusOne, a, beta, c)
                 = LowerNormalHermitianOuterProductDynamicBLASDispatch(
                       MinusOne, a, beta, c)
            /\ InversePermute(p, Permute(p, a)) = a
            /\ PermuteColumns(p, InversePermuteColumns(p, a)) = a

\* The kernels do what their names say: the solves invert the triangle, from
\* the side, conjugated or transposed as named, and splitting a product into
\* tasks does not change it.
KernelsAgree == pc = "done" => SolvesInvert /\ TiledProductsAgree
=============================================================================
