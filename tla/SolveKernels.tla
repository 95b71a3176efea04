---------------------------- MODULE SolveKernels ----------------------------
(***************************************************************************)
(* The kernels with which a supernode takes part in a triangular solve:    *)
(* products with its lower block, solves with its diagonal block, and the  *)
(* fused kernels that do both two columns at a time.  start is the number  *)
(* of rows before the supernode, and bases and size describe the rows of   *)
(* its lower block.                                                        *)
(*                                                                         *)
(* policy is a record of the choices between equivalent kernels: real      *)
(* (Field is float or double), chunked, fusedForward, fusedBackward and    *)
(* fusedDegree (the largest supernodes of the fused kernels), triangle     *)
(* (the smallest that calls BLAS), forward, backwardSize and               *)
(* backwardDegree (the smallest that work out of place), and entries,      *)
(* workers, rows and alignment (of products split over threads).           *)
(***************************************************************************)
EXTENDS BlockFactorization

-----------------------------------------------------------------------------
(***************************************************************************)
(* Products with the lower block.                                          *)
(***************************************************************************)
MultiplyLowerBlockAdjoint(size, conjugate, bases, start, a, x) ==
    LET entry(i, k) == IF conjugate THEN Conjugate(a[i][k]) ELSE a[i][k]
        update(k, j) == SumTo(Height(a), LAMBDA i :
            Times(entry(i, k), x[ScalarBlockRow(bases, size, i)][j]))
    IN  Matrix(Height(x), Width(x), LAMBDA r, j :
            IF r - start \in 1..Width(a)
            THEN Minus(x[r][j], update(r - start, j)) ELSE x[r][j])

\* The kernels for real numbers take one strip of x for each base.
Strip(size, bases, a, x, b, k, j) ==
    SumTo(size, LAMBDA c : Times(a[size * (b - 1) + c][k], x[bases[b] + c - 1][j]))

MultiplyLowerBlockAdjointEigenUnchunked(size, bases, start, a, x) ==
    Matrix(Height(x), Width(x), LAMBDA r, j :
        IF r - start \in 1..Width(a)
        THEN Minus(x[r][j], SumTo(Len(bases), LAMBDA b :
                 Strip(size, bases, a, x, b, r - start, j)))
        ELSE x[r][j])

\* Whole chunks of columns first, then the remaining columns one by one.
MultiplyLowerBlockAdjointEigenChunked(size, bases, start, a, x) ==
    LET chunk == IF size = 1 THEN 4 ELSE 2
        whole == (Width(a) \div chunk) * chunk
        starts == [k \in 1..(whole \div chunk) |-> (k - 1) * chunk]
                      \o [k \in 1..(Width(a) - whole) |-> whole + k - 1]
        columns(k) == IF k < whole THEN chunk ELSE 1
    IN  Through(starts, x, LAMBDA y, k :
            Matrix(Height(y), Width(y), LAMBDA r, j :
                IF r - start - k \in 1..columns(k)
                THEN Minus(y[r][j], SumTo(Len(bases), LAMBDA b :
                         Strip(size, bases, a, y, b, r - start, j)))
                ELSE y[r][j]))

MultiplyLowerBlock(size, bases, start, a, x) ==
    LET at(r) == {i \in 1..Height(a) : ScalarBlockRow(bases, size, i) = r}
    IN  Matrix(Height(x), Width(x), LAMBDA r, j :
            IF at(r) = {} THEN x[r][j]
            ELSE Minus(x[r][j], SumTo(Width(a), LAMBDA k :
                Times(a[CHOOSE i \in at(r) : TRUE][k], x[start + k][j]))))

\* Six rows at a time, then base by base.
MultiplyLowerBlockEigen(size, bases, start, a, x) ==
    LET chunk == 6 \div size
        whole == (Len(bases) \div chunk) * chunk
        starts == [k \in 1..(whole \div chunk) |-> (k - 1) * chunk]
                      \o [k \in 1..(Len(bases) - whole) |-> whole + k - 1]
        count(k) == IF k < whole THEN chunk ELSE 1
        product(y, i, j) == SumTo(Width(a), LAMBDA k :
            Times(a[i][k], y[start + k][j]))
        row(b, r) == size * (b - 1) + r - bases[b] + 1
        holding(k, r) == {b \in (k + 1)..(k + count(k)) :
                              r \in bases[b]..(bases[b] + size - 1)}
    IN  Through(starts, x, LAMBDA y, k :
            Matrix(Height(y), Width(y), LAMBDA r, j :
                IF holding(k, r) = {} THEN y[r][j]
                ELSE LET b == CHOOSE c \in holding(k, r) : TRUE
                     IN  Minus(y[r][j], product(y, row(b, r), j))))

-----------------------------------------------------------------------------
(***************************************************************************)
(* Solves with the diagonal block.                                         *)
(***************************************************************************)
SolveLowerTri(t, b) ==
    Through(Indices(Height(b)), b, LAMBDA x, j :
        LET eta == Scaled(x[j], t[j][j])
        IN  Matrix(Height(b), Width(b), LAMBDA i, c :
                IF i < j THEN x[i][c]
                ELSE IF i = j THEN eta[c]
                     ELSE Minus(x[i][c], Times(t[i][j], eta[c]))))

\* Block columns of this size: the rows of the block, then those below.
SolveLowerTriByBlocks(size, t, b) ==
    Through([k \in 1..(Height(b) \div size) |-> (k - 1) * size], b,
        LAMBDA x, j :
            LET eta == SolveLowerTri(Submatrix(t, j + 1, j + 1, size, size),
                                     SubSeq(x, j + 1, j + size))
            IN  Matrix(Height(b), Width(b), LAMBDA i, c :
                    IF i <= j THEN x[i][c]
                    ELSE IF i <= j + size THEN eta[i - j][c]
                         ELSE Minus(x[i][c], SumTo(size, LAMBDA k :
                             Times(t[i][j + k], eta[k][c])))))
SolveLowerTriEigen2(t, b) == SolveLowerTriByBlocks(2, t, b)
SolveLowerTriEigen3(t, b) == SolveLowerTriByBlocks(3, t, b)

SolveLowerTriAdjoint(t, b) ==
    Through(Reverse(Indices(Height(b))), b, LAMBDA x, j :
        [x EXCEPT ![j] = Vector(Width(b), LAMBDA c :
            Over(Minus(x[j][c], SumTo(Height(b) - j, LAMBDA k :
                     Times(Conjugate(t[j + k][j]), x[j + k][c]))),
                 Conjugate(t[j][j])))])

\* The real kernels, so without conjugates.
SolveLowerTriAdjointByBlocks(size, t, b) ==
    LET eta(x, j) == [k \in 1..size |-> Vector(Width(b), LAMBDA c :
            Minus(x[j + k][c], SumTo(Height(b) - j - size, LAMBDA i :
                Times(t[j + size + i][j + k], x[j + size + i][c]))))]
    IN  Through(Reverse([k \in 1..(Height(b) \div size) |-> (k - 1) * size]), b,
            LAMBDA x, j :
                SubSeq(x, 1, j)
                    \o SolveLowerTriAdjoint(
                           Submatrix(t, j + 1, j + 1, size, size), eta(x, j))
                    \o SubSeq(x, j + size + 1, Height(b)))
SolveLowerTriAdjointEigen2(t, b) == SolveLowerTriAdjointByBlocks(2, t, b)
SolveLowerTriAdjointEigen3(t, b) == SolveLowerTriAdjointByBlocks(3, t, b)

-----------------------------------------------------------------------------
(***************************************************************************)
(* Products with a part of the solution, and fused kernels.                *)
(***************************************************************************)
multiply_serial(transpose, alpha, a, x, beta, y) ==
    IF transpose THEN MatrixMultiplyAdjointNormal(alpha, a, x, beta, y)
    ELSE MatrixMultiplyNormalNormal(alpha, a, x, beta, y)

\* The outputs of large products with one vector are split over the threads,
\* in chunks whose height is a multiple of the alignment.
multiply(policy, transpose, alpha, a, x, beta, y) ==
    LET outputs == Height(y)
        chunks == Smaller(policy.workers, Smaller(outputs \div policy.rows,
                      (Height(a) * Width(a)) \div policy.entries))
        even == (outputs + chunks - 1) \div chunks
        grain == ((even + policy.alignment - 1) \div policy.alignment)
                     * policy.alignment
        first(k) == (k - 1) * grain
        count(k) == Smaller(grain, outputs - first(k))
        part(k) == IF transpose
                   THEN Submatrix(a, 1, first(k) + 1, Height(a), count(k))
                   ELSE Submatrix(a, first(k) + 1, 1, count(k), Width(a))
        isSplit == /\ policy.entries > 0 /\ Width(x) = 1
                   /\ Height(a) * Width(a) >= 2 * policy.entries
                   /\ chunks > 1
    IN  IF ~isSplit THEN multiply_serial(transpose, alpha, a, x, beta, y)
        ELSE Through(Indices(chunks), <<>>, LAMBDA done, k :
                 IF count(k) <= 0 THEN done
                 ELSE done \o multiply_serial(transpose, alpha, part(k), x, beta,
                          SubSeq(y, first(k) + 1, first(k) + count(k))))

\* The columns of a supernode, two by two from the first and from the last.
PairStarts(n) == [k \in 1..((n + 1) \div 2) |-> 2 * k - 1]

\* x holds the rows of the supernode, one column; the products with the lower
\* block replace what is in schur if initialize, and are added otherwise.
fused_forward(diagonal, lower, x, schur, initialize) ==
    LET n == Width(diagonal)
        pair(c) == IF c < n THEN 2 ELSE 1
        solved(y, c) == SolveLowerTri(Submatrix(diagonal, c, c, pair(c), pair(c)),
                                      SubSeq(y, c, c + pair(c) - 1))
        product(m, i, c, eta) ==
            SumTo(pair(c), LAMBDA k : Times(m[i][c + k - 1], eta[k][1]))
        step(t, c) ==
            LET eta == solved(t.x, c)
                last == c + pair(c) - 1
            IN  [x |-> <<>> \o [i \in 1..n |->
                     IF i < c THEN t.x[i]
                     ELSE IF i <= last THEN eta[i - c + 1]
                          ELSE <<Minus(t.x[i][1], product(diagonal, i, c, eta))>>],
                 schur |-> <<>> \o [i \in 1..Height(lower) |->
                     <<Minus(IF initialize /\ c = 1 THEN Zero
                             ELSE t.schur[i][1], product(lower, i, c, eta))>>]]
    IN  Through(PairStarts(n), [x |-> x, schur |-> schur], step)

\* The same with the products of the first blocks of rows subtracted from the
\* solution, those of the others from the boundary at these places.
fused_forward_scatter(size, diagonal, lower, bases, start, x, boundary, owned, external) ==
    LET n == Width(diagonal)
        products == fused_forward(diagonal, lower,
                        Submatrix(x, start + 1, 1, n, 1), <<>>, TRUE)
        block(b, r, base) == products.schur[size * (b - 1) + r - base + 1][1]
        to(bs, offset, r) == {b \in 1..Len(bs) :
            r \in (bs[b] + offset)..(bs[b] + offset + size - 1)}
    IN  [x |-> <<>> \o [r \in 1..Height(x) |->
             IF r - start \in 1..n THEN products.x[r - start]
             ELSE LET hit == to(SubSeq(bases, 1, owned), 0, r)
                      b == CHOOSE c \in hit : TRUE
                  IN  IF hit = {} THEN x[r]
                      ELSE <<Plus(x[r][1], block(b, r, bases[b]))>>],
         boundary |-> <<>> \o [r \in 1..Height(boundary) |->
             LET hit == to(external, 1, r)
                 b == CHOOSE c \in hit : TRUE
             IN  IF hit = {} THEN boundary[r]
                 ELSE <<Plus(boundary[r][1],
                             block(owned + b, r, external[b] + 1))>>]]

\* An odd last column by itself, then pairs down to the first.
fused_backward(size, diagonal, lower, bases, start, x) ==
    LET n == Width(diagonal)
        below(y, c, end) ==
            Plus(SumTo(Len(bases), LAMBDA b :
                     Strip(size, bases, lower, y, b, c, 1)),
                 SumTo(n - end, LAMBDA i :
                     Times(diagonal[end + i][c], y[start + end + i][1])))
        over(y, c, sum) == Over(Minus(y[start + c][1], sum), diagonal[c][c])
        alone(y) == [y EXCEPT ![start + n] = <<over(y, n, below(y, n, n))>>]
        pair(y, c) ==
            LET end == c + 1
                b == over(y, end, below(y, end, end))
                a == over(y, c, Plus(below(y, c, end),
                                     Times(diagonal[end][c], b)))
            IN  [y EXCEPT ![start + end] = <<b>>, ![start + c] = <<a>>]
    IN  Through(Reverse(PairStarts(n - (n % 2))),
                IF n % 2 = 1 THEN alone(x) ELSE x, pair)
=============================================================================
