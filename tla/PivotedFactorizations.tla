------------------------ MODULE PivotedFactorizations ------------------------
(***************************************************************************)
(* The diagonally pivoted factorization and the sampler of elementary      *)
(* determinantal point processes, which pivots at random.  Both process    *)
(* panels: within a panel only the column of the pivot and a copy d of the *)
(* remaining diagonal are up to date, and the rest of the matrix is        *)
(* updated after the panel.                                                *)
(***************************************************************************)
EXTENDS DenseFactorizations

SwapIn(s, i, j) == [s EXCEPT ![i] = s[j], ![j] = s[i]]

RowSwap(i, j, m) == SwapIn(m, i, j)
ColumnSwap(i, j, m) == [r \in 1..Height(m) |-> SwapIn(m[r], i, j)]

\* Mutant: the entries that cross the diagonal are not conjugated.
LowerHermitianSwapUnconjugated(i, j, m) ==
    LET p(k) == CASE k = i -> j [] k = j -> i [] OTHER -> k
    IN  Matrix(Height(m), Width(m), LAMBDA r, c :
            IF r < c THEN m[r][c]
            ELSE IF p(r) >= p(c) THEN m[p(r)][p(c)] ELSE m[p(c)][p(r)])

\* Swap rows and columns i and j of the Hermitian matrix that the lower
\* triangle stands for.
LowerHermitianSwap(i, j, m) ==
    LET p(k) == CASE k = i -> j [] k = j -> i [] OTHER -> k
        entry(r, c) == IF r >= c THEN m[r][c] ELSE Conjugate(m[c][r])
    IN  Matrix(Height(m), Width(m), LAMBDA r, c :
            CASE r < c \/ i = j -> m[r][c]
              [] r = c /\ r \in {i, j} -> FromReal(RealPart(m[p(r)][p(r)]))
              [] OTHER -> entry(p(r), p(c)))

\* The state of the loops: the matrix, the permutation, the diagonal d of the
\* Schur complement, by row of the matrix, and the number of pivots.
InitialPanels(m) ==
    [matrix |-> m, permutation |-> [i \in 1..Height(m) |-> i],
     d |-> [i \in 1..Height(m) |-> 0], pivots |-> 0]

DiagonalOf(m) == [i \in 1..Height(m) |-> RealPart(m[i][i])]

\* column(k) for rows k > i, minus the part of the panel from offset to i - 1
\* times weight(j) conj(row i).
PanelColumn(m, offset, i, weight(_)) ==
    Matrix(Height(m), Width(m), LAMBDA r, c :
        IF c = i /\ r > i
        THEN Minus(m[r][i], SumTo(i - offset, LAMBDA k :
                 LET j == offset + k - 1
                 IN  Times(m[r][j], Times(Conjugate(m[i][j]), weight(j)))))
        ELSE m[r][c])

\* The first of the entries of the diagonal with the largest magnitude.
PanelPivotSelection(i, d) ==
    CHOOSE k \in i..Len(d) :
        /\ \A j \in i..Len(d) : Magnitude(d[j]) <= Magnitude(d[k])
        /\ \A j \in i..(k - 1) : Magnitude(d[j]) < Magnitude(d[k])

\* Move the pivot to position i in the matrix, the permutation and d.
SwapPivot(s, i, pivot) ==
    [s EXCEPT !.matrix = LowerHermitianSwap(i, pivot, @),
              !.permutation = SwapIn(@, i, pivot),
              !.d = SwapIn(@, i, pivot)]

PivotColumn(s, offset, i, pivot) ==
    LET t == SwapPivot(s, i, pivot)
        alpha == t.d[i]
        m == PanelColumn(t.matrix, offset, i, LAMBDA j : FromReal(t.d[j]))
        d == [k \in 1..Len(t.d) |->
                IF k <= i THEN t.d[k]
                ELSE RealPart(Minus(FromReal(t.d[k]),
                         Over(Times(m[k][i], Conjugate(m[k][i])),
                              FromReal(alpha))))]
    IN  [t EXCEPT !.matrix = DivideColumn(m, i, FromReal(alpha),
                                          FromReal(alpha)),
                  !.d = d, !.pivots = i]

PanelPivotedLDLAdjointFactorization(s, offset, width) ==
    LET r[k \in 0..width] ==
            IF k = 0
            THEN LET fresh == DiagonalOf(s.matrix)
                 IN  [s EXCEPT !.d = [i \in DOMAIN s.d |->
                        IF i < offset THEN s.d[i] ELSE fresh[i]]]
            ELSE LET before == r[k - 1]
                     i == offset + k - 1
                     pivot == PanelPivotSelection(i, before.d)
                 IN  IF before.pivots < i - 1 \/ before.d[pivot] = 0 THEN before
                     ELSE PivotColumn(before, offset, i, pivot)
    IN  r[width]

\* After a panel, subtract its outer product from what remains.
UpdatedByPanel(s, i, size, copy) ==
    LET left == Height(s.matrix) - (i + size) + 1
        lower == Submatrix(s.matrix, i + size, i, left, size)
        rest == Submatrix(s.matrix, i + size, i + size, left, left)
    IN  [s EXCEPT !.matrix = Overwrite(@, i + size, i + size,
            MatrixMultiplyLowerNormalTranspose(
                MinusOne, lower, copy, One, rest))]

AfterPivotedPanel(s, i, size) ==
    IF s.pivots < i + size - 1 \/ i + size > Height(s.matrix) THEN s
    ELSE UpdatedByPanel(s, i, size,
             Matrix(Height(s.matrix) - (i + size) + 1, size, LAMBDA r, j :
                 Times(Conjugate(s.matrix[i + size + r - 1][i + j - 1]),
                       FromReal(s.d[i + j - 1]))))

BlockedPivotedLDLAdjointFactorization(blockSize, m) ==
    LET height == Height(m)
        r[k \in 0..height] ==
            IF k = 0 THEN InitialPanels(m)
            ELSE LET i == ((k - 1) \div blockSize) * blockSize + 1
                     size == k - i + 1
                     before == r[i - 1]
                 IN  IF before.pivots < i - 1 THEN before
                     ELSE AfterPivotedPanel(PanelPivotedLDLAdjointFactorization(
                              before, i, size), i, size)
    IN  r[height]

\* Without OpenMP tasks either.
OpenMPPivotedLDLAdjointFactorization(tileSize, blockSize, m) ==
    BlockedPivotedLDLAdjointFactorization(blockSize, m)

-----------------------------------------------------------------------------
(***************************************************************************)
(* Elementary determinantal point processes.  picks[i] decides where the   *)
(* random number falls: an index is drawn only if its diagonal is          *)
(* positive.  maximumLikelihood takes the largest diagonal instead.        *)
(***************************************************************************)
ElementaryPivotSelection(i, d, maximumLikelihood, pick) ==
    LET largest == CHOOSE k \in i..Len(d) :
                       /\ \A j \in i..Len(d) : Signed(d[j]) <= Signed(d[k])
                       /\ \A j \in i..(k - 1) : Signed(d[j]) < Signed(d[k])
        possible == {k \in i..Len(d) : Positive(d[k])}
        rank(k) == Len(SelectSeq([j \in 1..k |-> j],
                                 LAMBDA j : j \in possible))
        number == rank(Len(d))
    IN  IF maximumLikelihood THEN largest
        ELSE CHOOSE k \in possible : rank(k) = ((pick - 1) % number) + 1

SampledColumn(s, offset, i, pivot) ==
    LET t == SwapPivot(s, i, pivot)
        root == FromReal(SquareRoot(t.d[i]))
        m == DivideColumn(PanelColumn(t.matrix, offset, i, LAMBDA j : One),
                          i, root, root)
        left(k) == RealPart(Minus(FromReal(t.d[k]),
                                  Times(m[k][i], Conjugate(m[k][i]))))
    IN  [t EXCEPT !.matrix = m, !.pivots = i,
                  !.d = [k \in 1..Len(t.d) |->
                           CASE k <= i -> t.d[k]
                             [] k > i /\ Signed(left(k)) < 0 -> 0
                             [] OTHER -> left(k)]]

PanelSampleElementaryLowerHermitianDPP(s, offset, width, maximum, picks) ==
    LET r[k \in 0..width] ==
            IF k = 0
            THEN LET fresh == DiagonalOf(s.matrix)
                 IN  [s EXCEPT !.d = [i \in DOMAIN s.d |->
                        IF i < offset THEN s.d[i] ELSE fresh[i]]]
            ELSE LET before == r[k - 1]
                     i == offset + k - 1
                 IN  SampledColumn(before, offset, i,
                         ElementaryPivotSelection(i, before.d, maximum,
                                                  picks[i]))
    IN  r[width]

\* The sample is the first rank entries of the permutation.
BlockedSampleElementaryLowerHermitianDPP(blockSize, rank, maximum, picks, m) ==
    LET last == Smaller(Height(m), rank)
        r[k \in 0..last] ==
            IF k = 0 THEN InitialPanels(m)
            ELSE LET i == ((k - 1) \div blockSize) * blockSize + 1
                     size == k - i + 1
                     s == PanelSampleElementaryLowerHermitianDPP(
                              r[i - 1], i, size, maximum, picks)
                 IN  IF k = last THEN s
                     ELSE LET left == Height(m) - (i + size) + 1 IN
                          [s EXCEPT !.matrix = Overwrite(
                             @, i + size, i + size,
                             LowerNormalHermitianOuterProduct(
                               MinusOne,
                               Submatrix(@, i + size, i, left, size), One,
                               Submatrix(@, i + size, i + size, left, left)))]
    IN  r[last]

\* exp of the log-likelihoods, up to sign.
DPPLikelihood(m) == Product(Height(m), LAMBDA i : FromReal(RealPart(m[i][i])))
ElementaryDPPLikelihood(rank, m) ==
    Product(rank, LAMBDA i : Times(FromReal(RealPart(m[i][i])),
                                   FromReal(RealPart(m[i][i]))))
=============================================================================
