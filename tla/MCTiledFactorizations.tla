------------------------ MODULE MCTiledFactorizations ------------------------
(***************************************************************************)
(* Calls of the dense routines for TLC, over the field of order 49.        *)
(***************************************************************************)
EXTENDS DenseProperties

MCPrime == 7

\* The square matrix with these diagonal entries, these entries below the
\* diagonal, row by row, and their conjugates above it.
Hermitian(d, below) ==
    LET n == Len(d)
        lower(i, j) == below[((i - 1) * (i - 2)) \div 2 + j]
    IN  Matrix(n, n, LAMBDA i, j :
            CASE i = j -> FromReal(d[i])
              [] i > j -> lower(i, j)
              [] OTHER -> Conjugate(lower(j, i)))

I == <<0, 1>>
A == <<1, 1>>
B == <<2, 1>>
C == <<1, 3>>

\* Every order of these matrices has square pivots only.
Definite3 == {Hermitian(<<1, 2, 2>>, <<I, B, A>>),
              Hermitian(<<4, 4, 1>>, <<One, C, C>>)}
\* Pivots of every sign, zero pivots first, last and in between.
Indefinite3 == {Hermitian(<<d, e, f>>, <<a, I, B>>) :
                    d \in {2, 6}, e \in {0, 4}, f \in {1, 3, 5},
                    a \in {Zero, A}}
Matrices5 == {Hermitian(<<2, 4, 1, 3, 6>>, <<I, B, A, C, One, B, Zero, I, A, C>>)}
Matrices4 == {Hermitian(<<2, 4, 1, 4>>, <<I, B, A, C, One, B>>)}

\* For the LU factorization: neither Hermitian nor real, but with the principal
\* minors of a real matrix, as kernels of determinantal point processes have.
Skewed(m) ==
    LET real(x) == FromReal(x[1] + x[2])
        scale == <<One, I, A, C, B>>
    IN  Matrix(Height(m), Width(m), LAMBDA i, j :
            IF i = j THEN m[i][j]
            ELSE Over(Times(scale[i], real(m[i][j])), scale[j]))

Params(n) ==
    {[offset |-> 0, inverse |-> <<>>, positive |-> 2, negative |-> 1,
      signatures |-> [i \in 1..n |-> i % 2 = 1],
      draws |-> [i \in 1..n |-> i % 2 = 0]],
     [offset |-> 0, inverse |-> [i \in 1..n |-> n - i + 1],
      positive |-> 4, negative |-> 2,
      signatures |-> [i \in 1..n |-> i # 2],
      draws |-> [i \in 1..n |-> i # 2]]}

CallsOf(matrices, tiles) ==
    {[routine |-> routine, tile |-> tile[1], block |-> tile[2],
      matrix |-> IF routine = "nonHermitianDPP" THEN Skewed(m) ELSE m,
      params |-> params] :
        routine \in Routines, tile \in tiles, m \in matrices,
        params \in Params(Height(CHOOSE m \in matrices : TRUE))}

MCCalls == CallsOf(Definite3 \cup Indefinite3, {<<1, 1>>, <<2, 1>>})
           \cup CallsOf(Matrices4, {<<1, 1>>})
           \cup CallsOf(Matrices5, {<<2, 1>>, <<2, 2>>})
=============================================================================
