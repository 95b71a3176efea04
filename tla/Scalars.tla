------------------------------- MODULE Scalars -------------------------------
(***************************************************************************)
(* The numbers of the numeric models.  Every routine of the library is a   *)
(* template over Field, and what its control flow and its data flow        *)
(* compute does not depend on rounding, so the models take an exact field: *)
(* Z/Prime for ComplexBase<Field>, and pairs <<re, im>> over it for Field. *)
(* With Prime % 4 = 3 there is no square root of -1, so the pairs form a   *)
(* field and conjugation, which tells an adjoint from a transpose, is not  *)
(* the identity.  Squares play the part of positive numbers: of r and -r   *)
(* exactly one is a square, products of squares are squares, and every     *)
(* square has one positive square root.                                    *)
(***************************************************************************)
EXTENDS Integers, Sequences

CONSTANT Prime

ASSUME PrimeAssumption ==
    /\ Prime \in Nat
    /\ Prime % 4 = 3
    /\ \A a, b \in 2..(Prime - 1) : a * b # Prime

Real == 0..(Prime - 1)
Scalar == Real \X Real

Zero == <<0, 0>>
One == <<1, 0>>
MinusOne == <<Prime - 1, 0>>
FromReal(r) == <<r % Prime, 0>>

RealPart(x) == x[1]
Conjugate(x) == <<x[1], (0 - x[2]) % Prime>>
Plus(x, y) == <<(x[1] + y[1]) % Prime, (x[2] + y[2]) % Prime>>
Minus(x, y) == <<(x[1] - y[1]) % Prime, (x[2] - y[2]) % Prime>>
Times(x, y) == <<(x[1] * y[1] - x[2] * y[2]) % Prime,
                 (x[1] * y[2] + x[2] * y[1]) % Prime>>

RealInverse(r) == CHOOSE s \in 1..(Prime - 1) : (r * s) % Prime = 1
Over(x, y) ==
    Times(Times(x, Conjugate(y)),
          FromReal(RealInverse(y[1] * y[1] + y[2] * y[2])))

\* The order of the real numbers, as far as the code looks at it: the signed
\* value is positive exactly for nonzero squares.
Squares == {(s * s) % Prime : s \in 1..(Prime - 1)}
Signed(r) == IF r \in Squares \cup {0} THEN r ELSE r - Prime
Positive(r) == Signed(r) > 0
Magnitude(r) == IF Signed(r) < 0 THEN 0 - Signed(r) ELSE Signed(r)
SquareRoot(r) == CHOOSE s \in Squares \cup {0} : (s * s) % Prime = r

\* The sum and the product of term(1), ..., term(n).
SumTo(n, term(_)) ==
    LET s[k \in 0..n] == IF k = 0 THEN Zero ELSE Plus(s[k - 1], term(k))
    IN  s[n]
Product(n, term(_)) ==
    LET p[k \in 0..n] == IF k = 0 THEN One ELSE Times(p[k - 1], term(k))
    IN  p[n]
=============================================================================
