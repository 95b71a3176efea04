--------------------------- MODULE SparseSolverProofs ---------------------------
(***************************************************************************)
(* The calls of a program leave the object in a state that it can be in,   *)
(* and in the matrix what has been asked for; the spin locks of the        *)
(* parallel analysis exclude what they should; the lists of children that  *)
(* they guard are complete when they are merged; what the tasks find is    *)
(* the elimination forest of the filled matrix; and what is built on a     *)
(* forest has room: the supernodes that are formed, relaxed or not, have a *)
(* size and a degree each, the buffer of values holds the factor, and the  *)
(* boundaries of a parallel solve lie apart in theirs.                     *)
(***************************************************************************)
EXTENDS SparseProperties, FiniteSumProofs

\* What a table has at a place: a value or nothing.
Values == Scalar \cup {<<>>}

\* What the entries of a sequence add up to at a place.
TotalStep(m, p) ==
    [xe \in Values \X MatrixEntries(m) |->
        IF Place(xe[2]) = p THEN Added(xe[1], xe[2].value) ELSE xe[1]]
Total(m, s, p) == Loop(s, <<>>, TotalStep(m, p))

\* The tables of contents and of requests, c and r, tell what is in the matrix
\* and in its queues.
Tallies(m, c, r) ==
    /\ IsCoordinateMatrix(m)
    /\ c = [p \in Places(m) |-> Total(m, m.entries, p)]
    /\ r = [added |-> [p \in Places(m) |-> Total(m, m.toAdd, p)],
            removed |-> Range(m.toRemove)]
SameSize(f, m) == f.rows = m.rows /\ f.columns = m.columns

Problems == UNION {Range(programme) : programme \in Sessions}

\* The program goes through its problems, each with its own ordering, and does
\* not change the size of the matrix; the tables tell what it has asked for.
SessionInv ==
    /\ session \in Seq(Problems) /\ session # <<>>
    /\ ordering = problem.ordering
    /\ SameSize(matrix, problem.matrix)
    /\ Tallies(matrix, contents, requests)

\* The object is a record, whose status is one of four.
ObjectInv ==
    /\ "status" \in DOMAIN ldl
    /\ ldl.status \in {"empty", "symbolic", "factored", "failed"}
    /\ outcome.kind \in {"none", "threw", "solved", "refined", "sampled"}

\* The tasks are at columns of their supernodes.
TasksInv ==
    /\ \A s \in DOMAIN tasks :
           tasks[s].next \in {"compute", "link", "publish", "done"}
    /\ phase = "analyzing" =>
           /\ CutsIntoSupernodes(ordering, matrix.rows)
           /\ DOMAIN tasks = DOMAIN ordering.sizes
           /\ DOMAIN parents = 1..matrix.rows
           /\ \A s \in DOMAIN tasks :
                  /\ tasks[s] = [column |-> tasks[s].column,
                                 next |-> tasks[s].next]
                  /\ tasks[s].column \in ColumnsOf(ordering, s)

\* The tasks that are between linking and publishing in this list.
Holders(column) ==
    {s \in DOMAIN tasks : tasks[s].next = "publish"
                          /\ parents[tasks[s].column] = column}

LocksInv ==
    phase = "analyzing" =>
        \A column \in DOMAIN child_locks :
            IF child_locks[column] THEN \E s : Holders(column) = {s}
            ELSE Holders(column) = {}

IndInv ==
    /\ phase \in {"editing", "analyzing", "analyzed", "ready"}
    /\ SessionInv /\ ObjectInv /\ TasksInv /\ LocksInv

-----------------------------------------------------------------------------
(***************************************************************************)
(* Edits of a matrix.                                                      *)
(***************************************************************************)
LEMMA ResidueOfSum ==
    ASSUME NEW a \in Real, NEW b \in Real
    PROVE  /\ (a + b) % Prime = IF a + b < Prime THEN a + b ELSE a + b - Prime
           /\ (a + b) % Prime \in Real
<1>1. Prime \in Nat /\ Prime > 0 /\ a \in Nat /\ b \in Nat /\ a < Prime /\ b < Prime
  BY PrimeAssumption DEF Real
<1>2. \A n \in Nat : n < Prime => n % Prime = n
  BY <1>1
<1>3. \A n \in Nat : Prime <= n /\ n < 2 * Prime => n % Prime = n - Prime
  BY <1>1
<1> QED
  BY <1>1, <1>2, <1>3 DEF Real

LEMMA PlusLaws ==
    ASSUME NEW x \in Scalar, NEW y \in Scalar, NEW z \in Scalar
    PROVE  /\ Plus(x, y) \in Scalar /\ Plus(x, y) = Plus(y, x)
           /\ Plus(Plus(x, y), z) = Plus(x, Plus(y, z))
<1>1. \A a, b \in Real : (a + b) % Prime = (b + a) % Prime /\ (a + b) % Prime \in Real
  <2> SUFFICES ASSUME NEW a \in Real, NEW b \in Real
               PROVE  (a + b) % Prime = (b + a) % Prime /\ (a + b) % Prime \in Real
    OBVIOUS
  <2>1. a + b = b + a
    BY PrimeAssumption DEF Real
  <2> QED
    BY <2>1, ResidueOfSum
<1>2. ASSUME NEW a \in Real, NEW b \in Real, NEW c \in Real,
             NEW d \in Real, NEW e \in Real,
             d = (a + b) % Prime, e = (b + c) % Prime
      PROVE  (d + c) % Prime = (a + e) % Prime
  <2>1. /\ d = IF a + b < Prime THEN a + b ELSE a + b - Prime
        /\ e = IF b + c < Prime THEN b + c ELSE b + c - Prime
    BY <1>2, ResidueOfSum
  <2>2. /\ (d + c) % Prime = IF d + c < Prime THEN d + c ELSE d + c - Prime
        /\ (a + e) % Prime = IF a + e < Prime THEN a + e ELSE a + e - Prime
    BY ResidueOfSum
  <2>3. /\ Prime \in Nat /\ a \in 0..(Prime - 1) /\ b \in 0..(Prime - 1)
        /\ c \in 0..(Prime - 1)
    BY PrimeAssumption DEF Real
  <2>4. (IF d + c < Prime THEN d + c ELSE d + c - Prime)
          = (IF a + e < Prime THEN a + e ELSE a + e - Prime)
    BY <2>1, <2>3
  <2> QED
    BY <2>2, <2>4
<1>3. /\ x[1] \in Real /\ x[2] \in Real /\ y[1] \in Real /\ y[2] \in Real
      /\ z[1] \in Real /\ z[2] \in Real
  BY DEF Scalar
<1> QED
  <2>1. \A v, w \in Real \X Real :
            Plus(v, w) = <<(v[1] + w[1]) % Prime, (v[2] + w[2]) % Prime>>
    BY DEF Plus
  <2>2. ASSUME NEW v \in Scalar, NEW w \in Scalar
        PROVE  /\ Plus(v, w) \in Scalar /\ Plus(v, w)[1] = (v[1] + w[1]) % Prime
               /\ Plus(v, w)[2] = (v[2] + w[2]) % Prime
    <3>1. v[1] \in Real /\ v[2] \in Real /\ w[1] \in Real /\ w[2] \in Real
      BY DEF Scalar
    <3>2. (v[1] + w[1]) % Prime \in Real /\ (v[2] + w[2]) % Prime \in Real
      BY <1>1, <3>1
    <3> DEFINE a == (v[1] + w[1]) % Prime
               b == (v[2] + w[2]) % Prime
    <3>3. Plus(v, w) = <<a, b>>
      BY DEF Plus
    <3> HIDE DEF a, b
    <3>4. <<a, b>> \in Scalar /\ <<a, b>>[1] = a /\ <<a, b>>[2] = b
      BY <3>2 DEF Scalar, a, b
    <3> QED
      BY <3>3, <3>4 DEF a, b
  <2>3. \A v, w \in Scalar : v[1] = w[1] /\ v[2] = w[2] => v = w
    BY DEF Scalar
  <2>4. Plus(x, y) = Plus(y, x)
    <3> DEFINE v == Plus(x, y)
               w == Plus(y, x)
    <3>1. v \in Scalar /\ w \in Scalar
      BY <2>2
    <3>2. v[1] = w[1] /\ v[2] = w[2]
      BY <1>1, <1>3, <2>2
    <3> HIDE DEF v, w
    <3>3. v = w
      BY <2>3, <3>1, <3>2
    <3> QED
      BY <3>3 DEF v, w
  <2>5. Plus(Plus(x, y), z) = Plus(x, Plus(y, z))
    <3> DEFINE p == Plus(x, y)
               q == Plus(y, z)
               v == Plus(p, z)
               w == Plus(x, q)
    <3>1. /\ p \in Scalar /\ q \in Scalar
          /\ p[1] = (x[1] + y[1]) % Prime /\ p[2] = (x[2] + y[2]) % Prime
          /\ q[1] = (y[1] + z[1]) % Prime /\ q[2] = (y[2] + z[2]) % Prime
      BY <2>2
    <3> HIDE DEF p, q
    <3>2. /\ v \in Scalar /\ w \in Scalar
          /\ v[1] = (p[1] + z[1]) % Prime /\ v[2] = (p[2] + z[2]) % Prime
          /\ w[1] = (x[1] + q[1]) % Prime /\ w[2] = (x[2] + q[2]) % Prime
      BY <2>2, <3>1
    <3> HIDE DEF v, w
    <3>3. v[1] = w[1] /\ v[2] = w[2]
      <4>1. \A i \in {1, 2} : /\ x[i] \in Real /\ y[i] \in Real /\ z[i] \in Real
                               /\ p[i] \in Real /\ q[i] \in Real
        BY <1>1, <1>3, <3>1
      <4>2. v[1] = w[1]
        BY <1>2, <3>1, <3>2, <4>1
      <4>3. v[2] = w[2]
        BY <1>2, <3>1, <3>2, <4>1
      <4> QED
        BY <4>2, <4>3
    <3>4. v = w
      BY <2>3, <3>2, <3>3
    <3> QED
      BY <3>4 DEF v, w, p, q
  <2> QED
    BY <2>2, <2>4, <2>5

LEMMA ScalarIsValue ==
    \A v \in Scalar : v # <<>> /\ v \in Values
<1>1. \A a, b : Len(<<a, b>>) = 2
  OBVIOUS
<1>2. Len(<<>>) = 0
  OBVIOUS
<1>3. ASSUME NEW v \in Scalar PROVE v # <<>>
  <2>1. PICK a \in Real, b \in Real : v = <<a, b>>
    BY DEF Scalar
  <2>2. Len(v) = 2
    BY <1>1, <2>1
  <2> QED
    BY <1>2, <2>2
<1> QED
  BY <1>3 DEF Values

LEMMA AddedLaws ==
    ASSUME NEW x \in Values, NEW y \in Values, NEW z \in Values
    PROVE  /\ Added(x, y) \in Values /\ Added(x, y) = Added(y, x)
           /\ Added(Added(x, y), z) = Added(x, Added(y, z))
           /\ Added(x, <<>>) = x /\ Added(<<>>, x) = x
           /\ x # <<>> => x \in Scalar /\ Added(x, y) # <<>>
           /\ x # <<>> /\ y # <<>> => Added(x, y) = Plus(x, y)
<1>1. \A v \in Scalar : v # <<>>
  BY ScalarIsValue
<1>2. <<>> \in Values /\ \A v \in Values : v = <<>> \/ v \in Scalar
  BY DEF Values
<1>3. \A v, w \in Scalar : Plus(v, w) \in Scalar /\ Plus(v, w) # <<>>
  BY <1>1, PlusLaws
<1>4. x \in Scalar /\ y \in Scalar =>
          Added(x, y) = Plus(x, y) /\ Added(y, x) = Plus(x, y)
  BY <1>1, PlusLaws DEF Added
<1>5. x \in Scalar /\ y \in Scalar /\ z \in Scalar =>
          Added(Added(x, y), z) = Added(x, Added(y, z))
  <2> HAVE x \in Scalar /\ y \in Scalar /\ z \in Scalar
  <2>1. Added(Added(x, y), z) = Plus(Plus(x, y), z)
    BY <1>1, <1>3 DEF Added
  <2>2. Added(x, Added(y, z)) = Plus(x, Plus(y, z))
    BY <1>1, <1>3 DEF Added
  <2> QED
    BY <2>1, <2>2, PlusLaws
<1>6. Added(Added(x, y), z) = Added(x, Added(y, z))
  <2>1. CASE x = <<>>
    BY <2>1 DEF Added
  <2>2. CASE y = <<>>
    BY <2>2 DEF Added
  <2>3. CASE z = <<>>
    BY <2>3 DEF Added
  <2> QED
    BY <1>2, <1>5, <2>1, <2>2, <2>3
<1>7. Added(x, <<>>) = x /\ Added(<<>>, x) = x /\ Added(<<>>, y) = y /\ Added(y, <<>>) = y
  BY DEF Added
<1>8. Added(x, y) \in Values /\ Added(x, y) = Added(y, x)
  <2>1. CASE x = <<>> \/ y = <<>>
    BY <1>7, <2>1
  <2>2. CASE x \in Scalar /\ y \in Scalar
    BY <1>3, <1>4, <2>2 DEF Values
  <2> QED
    BY <1>2, <2>1, <2>2
<1> QED
  BY <1>1, <1>2, <1>3, <1>4, <1>6, <1>7, <1>8

LEMMA EntryFacts ==
    ASSUME NEW m, NEW e \in MatrixEntries(m)
    PROVE  /\ e.row \in 1..m.rows /\ e.column \in 1..m.columns
           /\ e.row \in Int /\ e.column \in Int /\ e.value \in Scalar
           /\ Place(e) = <<e.row, e.column>> /\ Place(e) \in Places(m)
           /\ \A v \in Scalar :
                  LET f == [e EXCEPT !.value = v]
                  IN  /\ f \in MatrixEntries(m) /\ f.value = v
                      /\ Place(f) = Place(e)
                      /\ f.row = e.row /\ f.column = e.column
<1>1. e.row \in 1..m.rows /\ e.column \in 1..m.columns /\ e.value \in Scalar
  BY DEF MatrixEntries
<1>2. \A i, n : i \in 1..n => i \in Int
  OBVIOUS
<1>3. ASSUME NEW v \in Scalar
      PROVE  LET f == [e EXCEPT !.value = v]
             IN  /\ f \in MatrixEntries(m) /\ f.value = v
                 /\ Place(f) = Place(e) /\ f.row = e.row /\ f.column = e.column
  BY <1>1 DEF MatrixEntries, Place
<1> QED
  BY <1>1, <1>2, <1>3 DEF Place, Places

LEMMA TotalAppend ==
    ASSUME NEW m, NEW p
    PROVE  /\ Total(m, <<>>, p) = <<>>
           /\ \A s \in Seq(MatrixEntries(m)) : Total(m, s, p) \in Values
           /\ \A s \in Seq(MatrixEntries(m)), e \in MatrixEntries(m) :
                  Total(m, Append(s, e), p) =
                      IF Place(e) = p THEN Added(Total(m, s, p), e.value)
                      ELSE Total(m, s, p)
<1> DEFINE E == MatrixEntries(m)
           step == TotalStep(m, p)
<1>1. <<>> \in Values
  BY DEF Values
<1>2. \A x \in Values, e \in E :
          /\ (IF Place(e) = p THEN Added(x, e.value) ELSE x) \in Values
          /\ <<x, e>> \in Values \X E /\ <<x, e>>[1] = x /\ <<x, e>>[2] = e
  <2>1. \A e \in E : e.value \in Values
    BY EntryFacts DEF Values
  <2> QED
    BY <2>1, AddedLaws
<1>3. \A x \in Values, e \in E :
          step[<<x, e>>] = IF Place(e) = p THEN Added(x, e.value) ELSE x
  BY <1>2 DEF TotalStep
<1>4. IsStep(step, Values, E)
  <2>1. \A xe \in Values \X E : /\ xe[1] \in Values /\ xe[2] \in E
    OBVIOUS
  <2>2. \A xe \in Values \X E :
            (IF Place(xe[2]) = p THEN Added(xe[1], xe[2].value) ELSE xe[1])
                \in Values
    BY <1>2, <2>1
  <2> QED
    BY <2>2 DEF IsStep, TotalStep
<1> HIDE DEF step, E
<1>5. /\ Loop(<<>>, <<>>, step) = <<>>
      /\ \A s \in Seq(E) : Loop(s, <<>>, step) \in Values
      /\ \A s \in Seq(E), e \in E :
             Loop(Append(s, e), <<>>, step) = step[<<Loop(s, <<>>, step), e>>]
  BY <1>1, <1>4, LoopAppend
<1> QED
  BY <1>3, <1>5 DEF Total, step, E

LEMMA TotalConcat ==
    ASSUME NEW m, NEW p, NEW s \in Seq(MatrixEntries(m)),
           NEW t \in Seq(MatrixEntries(m))
    PROVE  Total(m, s \o t, p) = Added(Total(m, s, p), Total(m, t, p))
<1> DEFINE E == MatrixEntries(m)
           T == {u \in Seq(E) :
                     Total(m, s \o u, p) = Added(Total(m, s, p), Total(m, u, p))}
<1>1. <<>> \in T
  <2>1. s \o <<>> = s /\ <<>> \in Seq(E)
    BY ConcatEmptySeq
  <2>2. Added(Total(m, s, p), <<>>) = Total(m, s, p)
    BY TotalAppend, AddedLaws
  <2> QED
    BY <2>1, <2>2, TotalAppend
<1>2. ASSUME NEW u \in Seq(E), NEW e \in E, u \in T PROVE Append(u, e) \in T
  <2>1. s \o Append(u, e) = Append(s \o u, e) /\ s \o u \in Seq(E)
    BY AppendIsConcat, ConcatAssociative, ConcatProperties
  <2>2. Append(u, e) \in Seq(E)
    OBVIOUS
  <2>3. e.value \in Values
    BY EntryFacts DEF Values
  <2>4. /\ Total(m, s, p) \in Values /\ Total(m, u, p) \in Values
        /\ Total(m, s \o u, p) = Added(Total(m, s, p), Total(m, u, p))
    BY <1>2, TotalAppend
  <2>5. Added(Added(Total(m, s, p), Total(m, u, p)), e.value)
            = Added(Total(m, s, p), Added(Total(m, u, p), e.value))
    BY <2>3, <2>4, AddedLaws
  <2>6. Total(m, Append(s \o u, e), p)
            = IF Place(e) = p THEN Added(Total(m, s \o u, p), e.value)
              ELSE Total(m, s \o u, p)
    BY <2>1, TotalAppend
  <2>7. Total(m, Append(u, e), p)
            = IF Place(e) = p THEN Added(Total(m, u, p), e.value)
              ELSE Total(m, u, p)
    BY TotalAppend
  <2> QED
    BY <2>1, <2>2, <2>4, <2>5, <2>6, <2>7
<1>3. t \in T
  <2> HIDE DEF T, E
  <2>1. Seq(E) \subseteq T
    BY <1>1, <1>2, SequenceInduction
  <2> QED
    BY <2>1 DEF E
<1> QED
  BY <1>3

LEMMA TotalOfOne ==
    ASSUME NEW m, NEW p, NEW e \in MatrixEntries(m)
    PROVE  Total(m, <<e>>, p) = IF Place(e) = p THEN e.value ELSE <<>>
<1>1. <<e>> = Append(<<>>, e) /\ <<>> \in Seq(MatrixEntries(m))
  OBVIOUS
<1>2. e.value \in Values
  BY EntryFacts DEF Values
<1>3. Added(<<>>, e.value) = e.value
  BY <1>2, AddedLaws
<1>4. Total(m, Append(<<>>, e), p)
          = IF Place(e) = p THEN Added(Total(m, <<>>, p), e.value)
            ELSE Total(m, <<>>, p)
  BY <1>1, TotalAppend
<1>5. Total(m, <<>>, p) = <<>>
  BY TotalAppend
<1> QED
  BY <1>1, <1>3, <1>4, <1>5

-----------------------------------------------------------------------------
\* The order of entries.
LEMMA PrecedesOrders ==
    ASSUME NEW m, NEW x \in MatrixEntries(m), NEW y \in MatrixEntries(m),
           NEW z \in MatrixEntries(m)
    PROVE  /\ ~Precedes(x, x)
           /\ Precedes(x, y) => ~Precedes(y, x) /\ Place(x) # Place(y)
           /\ Precedes(x, y) /\ Precedes(y, z) => Precedes(x, z)
           /\ ~Precedes(y, x) /\ ~Precedes(z, y) => ~Precedes(z, x)
           /\ ~Precedes(x, y) /\ ~Precedes(y, x) => Place(x) = Place(y)
           /\ Place(x) = Place(y) => /\ Precedes(x, z) <=> Precedes(y, z)
                                     /\ Precedes(z, x) <=> Precedes(z, y)
<1>1. /\ x.row \in Int /\ x.column \in Int /\ y.row \in Int /\ y.column \in Int
      /\ z.row \in Int /\ z.column \in Int
  BY EntryFacts
<1>2. /\ Place(x) = Place(y) <=> x.row = y.row /\ x.column = y.column
  BY DEF Place
<1> QED
  BY <1>1, <1>2 DEF Precedes

\* No entry comes before one that it follows: sorted, with repetitions.
InOrder(s) == \A k, l \in DOMAIN s : k < l => ~Precedes(s[l], s[k])

\* An entry is put where it leaves the sequence in order.
LEMMA InsertedFits ==
    ASSUME NEW m, NEW s \in Seq(MatrixEntries(m)), InOrder(s),
           NEW e \in MatrixEntries(m)
    PROVE  /\ Inserted(s, e) \in Seq(MatrixEntries(m)) /\ InOrder(Inserted(s, e))
           /\ \A p : Total(m, Inserted(s, e), p) = Total(m, Append(s, e), p)
<1> DEFINE E == MatrixEntries(m)
           n == Len(s)
           B == {k \in DOMAIN s : ~Precedes(e, s[k])}
<1>1. n \in Nat /\ DOMAIN s = 1..n /\ \A k \in 1..n : s[k] \in E
  OBVIOUS
<1>2. \A k, l \in 1..n : k < l /\ l \in B => k \in B
  BY <1>1, PrecedesOrders DEF InOrder
<1>3. PICK c \in 0..n : B = 1..c
  <2> DEFINE S == {k \in 1..(n + 1) : k \notin B}
  <2>1. PICK k \in S : \A y \in S : k <= y
    <3> n + 1 \in S /\ S \subseteq Nat
      BY <1>1
    <3> HIDE DEF S
    <3> QED
      BY LeastElement
  <2>2. \A l \in 1..(k - 1) : l \in B
    BY <1>1, <2>1
  <2>3. \A l \in B : l < k
    BY <1>1, <1>2, <2>1
  <2>4. k \in 1..(n + 1) /\ B \subseteq 1..n
    BY <1>1, <2>1
  <2> HIDE DEF B
  <2>5. k \in Nat /\ k - 1 \in 0..n
    BY <1>1, <2>4
  <2>6. \A l \in B : l \in 1..(k - 1)
    BY <2>3, <2>4, <2>5
  <2>7. B = 1..(k - 1)
    BY <2>2, <2>6
  <2> QED
    BY <2>5, <2>7
<1> HIDE DEF n, E
<1>4. Cardinality(B) = c
  <2> HIDE DEF B
  <2>1. c \in Nat
    BY <1>1
  <2> QED
    BY <1>3, <2>1, FS_Interval
<1> DEFINE u == SubSeq(s, 1, c)
           v == SubSeq(s, c + 1, n)
           r == u \o <<e>> \o v
<1>5. Inserted(s, e) = r
  BY <1>4 DEF Inserted, n
<1>6. /\ u \in Seq(E) /\ Len(u) = c /\ \A k \in 1..c : u[k] = s[k]
      /\ v \in Seq(E) /\ Len(v) = n - c /\ \A k \in 1..(n - c) : v[k] = s[c + k]
      /\ u \o v = s
  <2>1. u \in Seq(E) /\ Len(u) = c /\ \A k \in 1..c : u[k] = s[k]
    BY <1>1, SubSeqProperties
  <2>2. v \in Seq(E) /\ Len(v) = n - c /\ \A k \in 1..(n - c) : v[k] = s[c + k]
    BY <1>1, SubSeqProperties
  <2>3. u \o v = s
    <3>1. SubSeq(s, 1, c) \o SubSeq(s, c + 1, n) = SubSeq(s, 1, n)
      <4>1. 1 \in 1..(n + 1) /\ c \in (1 - 1)..n /\ n \in c..n
        BY <1>1
      <4> QED
        BY <4>1, ConcatAdjacentSubSeq DEF n
    <3>2. SubSeq(s, 1, n) = s
      BY SubSeqFull DEF n, E
    <3> QED
      BY <3>1, <3>2
  <2> QED
    BY <2>1, <2>2, <2>3
<1> HIDE DEF u, v
<1>7. u \o <<e>> \in Seq(E) /\ <<e>> \in Seq(E) /\ r \in Seq(E)
  BY <1>6, ConcatProperties DEF E
<1>8. ASSUME NEW p PROVE Total(m, r, p) = Total(m, Append(s, e), p)
  <2>1. /\ Total(m, r, p) = Added(Total(m, u \o <<e>>, p), Total(m, v, p))
        /\ Total(m, u \o <<e>>, p) = Added(Total(m, u, p), Total(m, <<e>>, p))
    BY <1>6, <1>7, TotalConcat DEF E
  <2>2. /\ Append(s, e) = (u \o v) \o <<e>> /\ u \o v \in Seq(E)
    BY <1>6, AppendIsConcat DEF E
  <2>3. /\ Total(m, Append(s, e), p)
             = Added(Total(m, u \o v, p), Total(m, <<e>>, p))
        /\ Total(m, u \o v, p) = Added(Total(m, u, p), Total(m, v, p))
    BY ZenonT(40), <1>6, <1>7, <2>2, TotalConcat DEF E
  <2>4. /\ Total(m, u, p) \in Values /\ Total(m, v, p) \in Values
        /\ Total(m, <<e>>, p) \in Values
    BY <1>6, <1>7, TotalAppend DEF E
  <2>5. \A a, b, d \in Values :
            Added(Added(a, b), d) = Added(Added(a, d), b)
    <3> SUFFICES ASSUME NEW a \in Values, NEW b \in Values, NEW d \in Values
                 PROVE  Added(Added(a, b), d) = Added(Added(a, d), b)
      OBVIOUS
    <3>1. /\ Added(Added(a, b), d) = Added(a, Added(b, d))
          /\ Added(Added(a, d), b) = Added(a, Added(d, b))
          /\ Added(b, d) = Added(d, b)
      BY AddedLaws
    <3> QED
      BY <3>1
  <2> HIDE DEF r
  <2> QED
    BY <2>1, <2>3, <2>4, <2>5
<1>9. InOrder(r)
  <2>1. Len(r) = n + 1 /\ DOMAIN r = 1..(n + 1)
    BY <1>1, <1>6, <1>7
  <2>2. \A k \in 1..(n + 1) :
            r[k] = IF k <= c THEN s[k] ELSE IF k = c + 1 THEN e ELSE s[k - 1]
    <3> DEFINE w == u \o <<e>>
    <3>1. Len(<<e>>) = 1 /\ <<e>>[1] = e
      OBVIOUS
    <3>2. /\ w \in Seq(E) /\ Len(w) = c + 1
          /\ \A k \in 1..(c + 1) : w[k] = IF k <= c THEN u[k] ELSE <<e>>[k - c]
      BY <1>6, <1>7, <3>1, ConcatProperties
    <3> HIDE DEF w
    <3>3. \A k \in 1..(n + 1) :
              (w \o v)[k] = IF k <= c + 1 THEN w[k] ELSE v[k - (c + 1)]
      <4>1. \A k \in 1..((c + 1) + (n - c)) :
                (w \o v)[k] = IF k <= c + 1 THEN w[k] ELSE v[k - (c + 1)]
        BY <1>6, <3>2, ConcatProperties
      <4>2. (c + 1) + (n - c) = n + 1
        BY <1>1
      <4> QED
        BY <4>1, <4>2
    <3>4. r = w \o v
      BY DEF w
    <3> HIDE DEF r
    <3>7. \A k \in 1..(n + 1) :
              r[k] = IF k <= c + 1 THEN w[k] ELSE v[k - (c + 1)]
      BY <3>3, <3>4, Zenon
    <3> SUFFICES ASSUME NEW k \in 1..(n + 1)
                 PROVE  r[k] = IF k <= c THEN s[k]
                               ELSE IF k = c + 1 THEN e ELSE s[k - 1]
      OBVIOUS
    <3>5. CASE k <= c + 1
      <4>1. r[k] = w[k] /\ k \in 1..(c + 1)
        BY <1>1, <3>5, <3>7
      <4>2. k = c + 1 => w[k] = e
        BY <1>1, <3>1, <3>2, <4>1
      <4>3. k # c + 1 => w[k] = s[k]
        BY <1>1, <1>6, <3>2, <4>1
      <4> QED
        BY <1>1, <3>5, <4>1, <4>2, <4>3
    <3>6. CASE k > c + 1
      <4>1. r[k] = v[k - (c + 1)] /\ k - (c + 1) \in 1..(n - c)
        BY <1>1, <3>6, <3>7
      <4>2. v[k - (c + 1)] = s[c + (k - (c + 1))] /\ c + (k - (c + 1)) = k - 1
        BY <1>1, <1>6, <4>1
      <4> QED
        BY <1>1, <3>6, <4>1, <4>2
    <3> QED
      BY <1>1, <3>5, <3>6
  <2> HIDE DEF r
  <2>3. ASSUME NEW k \in 1..(n + 1), NEW l \in 1..(n + 1), k < l
        PROVE  ~Precedes(r[l], r[k])
    <3>1. \A i, j \in 1..n : i < j => ~Precedes(s[j], s[i])
      BY <1>1 DEF InOrder
    <3>2. \A i \in 1..n : i <= c <=> ~Precedes(e, s[i])
      BY <1>1, <1>3
    <3>3. CASE l <= c
      BY <1>1, <2>2, <2>3, <3>1, <3>3
    <3>4. CASE l = c + 1
      BY <1>1, <2>2, <2>3, <3>2, <3>4
    <3>5. CASE k = c + 1
      <4>1. r[k] = e /\ r[l] = s[l - 1] /\ l - 1 \in 1..n /\ ~(l - 1 <= c)
        BY <1>1, <2>2, <2>3, <3>5
      <4>2. Precedes(e, s[l - 1]) /\ s[l - 1] \in E
        BY <1>1, <3>2, <4>1
      <4> QED
        BY <4>1, <4>2, PrecedesOrders DEF E
    <3>6. CASE l > c + 1 /\ k # c + 1
      <4>1. PICK i \in 1..n : r[k] = s[i] /\ i < l - 1
        BY <1>1, <2>2, <2>3, <3>6
      <4>2. r[l] = s[l - 1] /\ l - 1 \in 1..n
        BY <1>1, <2>2, <2>3, <3>6
      <4> QED
        BY <3>1, <4>1, <4>2
    <3> QED
      BY <1>1, <3>3, <3>4, <3>5, <3>6
  <2> QED
    BY <2>1, <2>3 DEF InOrder
<1> QED
  BY <1>5, <1>7, <1>8, <1>9 DEF E

-----------------------------------------------------------------------------
\* The sort inserts one entry after the other.
LEMMA InsertedIsTyped ==
    ASSUME NEW m, NEW s \in Seq(MatrixEntries(m)), NEW e \in MatrixEntries(m)
    PROVE  Inserted(s, e) \in Seq(MatrixEntries(m))
<1> DEFINE E == MatrixEntries(m)
           n == Len(s)
           B == {k \in DOMAIN s : ~Precedes(e, s[k])}
           c == Cardinality(B)
<1>1. n \in Nat /\ DOMAIN s = 1..n /\ \A k \in 1..n : s[k] \in E
  OBVIOUS
<1>2. c \in 0..n
  <2>1. B \subseteq 1..n /\ IsFiniteSet(1..n) /\ Cardinality(1..n) = n
    <3>1. B \subseteq 1..n
      BY <1>1
    <3>2. 1 \in Int /\ n \in Int
      BY <1>1
    <3> HIDE DEF B, n
    <3> QED
      BY <1>1, <3>1, <3>2, FS_Interval
  <2> HIDE DEF B, n
  <2>2. c \in Nat /\ c <= n
    BY <2>1, FS_Subset, FS_CardinalityType
  <2> QED
    BY <1>1, <2>2
<1> HIDE DEF c, n, E
<1>3. SubSeq(s, 1, c) \in Seq(E) /\ SubSeq(s, c + 1, n) \in Seq(E)
  BY <1>1, <1>2, SubSeqProperties
<1>4. <<e>> \in Seq(E)
  BY DEF E
<1>5. SubSeq(s, 1, c) \o <<e>> \in Seq(E)
  BY <1>3, <1>4, ConcatProperties
<1>6. SubSeq(s, 1, c) \o <<e>> \o SubSeq(s, c + 1, n) \in Seq(E)
  BY <1>3, <1>5, ConcatProperties
<1> QED
  BY <1>6 DEF Inserted, c, n, E

LEMMA SortedAppend ==
    ASSUME NEW m
    PROVE  /\ Sorted(<<>>) = <<>>
           /\ \A s \in Seq(MatrixEntries(m)) : Sorted(s) \in Seq(MatrixEntries(m))
           /\ \A s \in Seq(MatrixEntries(m)), e \in MatrixEntries(m) :
                  Sorted(Append(s, e)) = Inserted(Sorted(s), e)
<1> DEFINE E == MatrixEntries(m)
           V == Seq(E)
           step == [xe \in V \X E |-> Inserted(xe[1], xe[2])]
           Body(s, g) == [k \in 0..Len(s) |-> IF k = 0 THEN <<>>
                                              ELSE Inserted(g[k - 1], s[k])]
<1>1. <<>> \in V
  OBVIOUS
<1>2. \A x \in V, e \in E :
          /\ <<x, e>> \in V \X E /\ <<x, e>>[1] = x /\ <<x, e>>[2] = e
          /\ step[<<x, e>>] = Inserted(x, e)
  OBVIOUS
<1>3. IsStep(step, V, E)
  <2>1. \A xe \in V \X E : Inserted(xe[1], xe[2]) \in V
    BY InsertedIsTyped
  <2> QED
    BY <2>1 DEF IsStep
<1> HIDE DEF step, E, V
<1>4. ASSUME NEW s \in Seq(E) PROVE Sorted(s) = Loop(s, <<>>, step)
  <2> DEFINE g == CHOOSE g : g = Body(s, g)
  <2>1. \E f : f = Body(s, f)
    <3>1. PICK f \in [0..Len(s) -> V] : IsLoop(f, s, <<>>, step)
      BY <1>1, <1>3, LoopExists
    <3>2. \A k \in 0..Len(s) : k # 0 => /\ f[k - 1] \in V /\ s[k] \in E
      OBVIOUS
    <3>3. \A k \in 0..Len(s) :
              (IF k = 0 THEN <<>> ELSE step[<<f[k - 1], s[k]>>])
                  = (IF k = 0 THEN <<>> ELSE Inserted(f[k - 1], s[k]))
      BY <1>2, <3>2
    <3>4. f = Body(s, f)
      BY <3>1, <3>3 DEF IsLoop
    <3> QED
      BY <3>4
  <2>2. g = Body(s, g)
    BY <2>1
  <2> HIDE DEF g
  <2>3. Len(s) \in 0..Len(s) /\ \A k \in 1..Len(s) : s[k] \in E
    OBVIOUS
  <2>4. Follows(g, s, <<>>, step, V)
    BY <1>2, <2>2, <2>3 DEF Follows
  <2>5. g[Len(s)] = Loop(s, <<>>, step)
    BY <1>1, <1>3, <2>4, LoopIsFound
  <2> QED
    BY <2>5 DEF Sorted, g
<1>5. /\ Loop(<<>>, <<>>, step) = <<>>
      /\ \A s \in Seq(E) : Loop(s, <<>>, step) \in V
      /\ \A s \in Seq(E), e \in E :
             Loop(Append(s, e), <<>>, step) = step[<<Loop(s, <<>>, step), e>>]
  BY <1>1, <1>3, LoopAppend
<1>6. <<>> \in Seq(E) /\ \A s \in Seq(E), e \in E : Append(s, e) \in Seq(E)
  OBVIOUS
<1>7. Sorted(<<>>) = <<>>
  BY <1>4, <1>5, <1>6
<1>8. \A s \in Seq(E) : Sorted(s) \in V
  BY <1>4, <1>5
<1>9. ASSUME NEW s \in Seq(E), NEW e \in E
      PROVE  Sorted(Append(s, e)) = Inserted(Sorted(s), e)
  <2>1. Loop(Append(s, e), <<>>, step) = step[<<Loop(s, <<>>, step), e>>]
    BY <1>5
  <2>2. Sorted(Append(s, e)) = Loop(Append(s, e), <<>>, step)
    BY <1>4, <1>6
  <2>3. Sorted(s) = Loop(s, <<>>, step) /\ Sorted(s) \in V
    BY <1>4, <1>8
  <2> QED
    BY <1>2, <2>1, <2>2, <2>3
<1> QED
  BY <1>7, <1>8, <1>9 DEF E, V

\* Neighbours at one place are combined as the loop meets them.
Packed(prev, e) ==
    IF prev # <<>> /\ Place(Last(prev)) = Place(e)
    THEN [prev EXCEPT ![Len(prev)].value = Plus(@, e.value)]
    ELSE Append(prev, e)

LEMMA PackedIsTyped ==
    ASSUME NEW m, NEW s \in Seq(MatrixEntries(m)), NEW e \in MatrixEntries(m)
    PROVE  Packed(s, e) \in Seq(MatrixEntries(m))
<1> DEFINE E == MatrixEntries(m)
           n == Len(s)
<1>1. CASE s # <<>> /\ Place(Last(s)) = Place(e)
  <2>1. n \in 1..n /\ s[n] \in E
    <3>1. n \in Nat /\ n # 0
      BY <1>1, EmptySeq
    <3> QED
      BY <3>1
  <2>2. Plus(s[n].value, e.value) \in Scalar
    <3>1. s[n].value \in Scalar /\ e.value \in Scalar
      BY <2>1, EntryFacts
    <3> QED
      BY <3>1, PlusLaws
  <2>3. [s[n] EXCEPT !.value = Plus(@, e.value)] \in E
    BY <2>1, <2>2, EntryFacts
  <2>4. Packed(s, e) = [s EXCEPT ![n] = [s[n] EXCEPT !.value = Plus(@, e.value)]]
    BY <1>1 DEF Packed
  <2> HIDE DEF E
  <2> QED
    BY <2>1, <2>3, <2>4, ExceptSeq DEF E
<1>2. CASE ~(s # <<>> /\ Place(Last(s)) = Place(e))
  BY <1>2 DEF Packed
<1> QED
  BY <1>1, <1>2

LEMMA CombinedAppend ==
    ASSUME NEW m
    PROVE  /\ CombineSortedEntries(<<>>) = <<>>
           /\ \A s \in Seq(MatrixEntries(m)) :
                  CombineSortedEntries(s) \in Seq(MatrixEntries(m))
           /\ \A s \in Seq(MatrixEntries(m)), e \in MatrixEntries(m) :
                  CombineSortedEntries(Append(s, e)) = Packed(CombineSortedEntries(s), e)
<1> DEFINE E == MatrixEntries(m)
           V == Seq(E)
           step == [xe \in V \X E |-> Packed(xe[1], xe[2])]
           Body(s, g) == [k \in 0..Len(s) |-> IF k = 0 THEN <<>>
                                              ELSE Packed(g[k - 1], s[k])]
<1>1. <<>> \in V
  OBVIOUS
<1>2. \A x \in V, e \in E :
          /\ <<x, e>> \in V \X E /\ <<x, e>>[1] = x /\ <<x, e>>[2] = e
          /\ step[<<x, e>>] = Packed(x, e)
  OBVIOUS
<1>3. IsStep(step, V, E)
  <2>1. \A xe \in V \X E : Packed(xe[1], xe[2]) \in V
    BY PackedIsTyped
  <2> QED
    BY <2>1 DEF IsStep
<1> HIDE DEF step, E, V
<1>4. ASSUME NEW s \in Seq(E) PROVE CombineSortedEntries(s) = Loop(s, <<>>, step)
  <2> DEFINE g == CHOOSE g : g = Body(s, g)
  <2>1. \E f : f = Body(s, f)
    <3>1. PICK f \in [0..Len(s) -> V] : IsLoop(f, s, <<>>, step)
      BY <1>1, <1>3, LoopExists
    <3>2. \A k \in 0..Len(s) : k # 0 => /\ f[k - 1] \in V /\ s[k] \in E
      OBVIOUS
    <3>3. \A k \in 0..Len(s) :
              (IF k = 0 THEN <<>> ELSE step[<<f[k - 1], s[k]>>])
                  = (IF k = 0 THEN <<>> ELSE Packed(f[k - 1], s[k]))
      BY <1>2, <3>2
    <3>4. f = Body(s, f)
      BY <3>1, <3>3 DEF IsLoop
    <3> QED
      BY <3>4
  <2>2. g = Body(s, g)
    BY <2>1
  <2> HIDE DEF g
  <2>3. Len(s) \in 0..Len(s) /\ \A k \in 1..Len(s) : s[k] \in E
    OBVIOUS
  <2>4. Follows(g, s, <<>>, step, V)
    BY <1>2, <2>2, <2>3 DEF Follows
  <2>5. g[Len(s)] = Loop(s, <<>>, step)
    BY <1>1, <1>3, <2>4, LoopIsFound
  <2> QED
    BY <2>5 DEF CombineSortedEntries, Packed, g
<1>5. /\ Loop(<<>>, <<>>, step) = <<>>
      /\ \A s \in Seq(E) : Loop(s, <<>>, step) \in V
      /\ \A s \in Seq(E), e \in E :
             Loop(Append(s, e), <<>>, step) = step[<<Loop(s, <<>>, step), e>>]
  BY <1>1, <1>3, LoopAppend
<1>6. <<>> \in Seq(E) /\ \A s \in Seq(E), e \in E : Append(s, e) \in Seq(E)
  OBVIOUS
<1>7. CombineSortedEntries(<<>>) = <<>>
  BY <1>4, <1>5, <1>6
<1>8. \A s \in Seq(E) : CombineSortedEntries(s) \in V
  BY <1>4, <1>5
<1>9. ASSUME NEW s \in Seq(E), NEW e \in E
      PROVE  CombineSortedEntries(Append(s, e)) = Packed(CombineSortedEntries(s), e)
  <2>1. Loop(Append(s, e), <<>>, step) = step[<<Loop(s, <<>>, step), e>>]
    BY <1>5
  <2>2. CombineSortedEntries(Append(s, e)) = Loop(Append(s, e), <<>>, step)
    BY <1>4, <1>6
  <2>3. CombineSortedEntries(s) = Loop(s, <<>>, step) /\ CombineSortedEntries(s) \in V
    BY <1>4, <1>8
  <2> QED
    BY <1>2, <2>1, <2>2, <2>3
<1> QED
  BY <1>7, <1>8, <1>9 DEF E, V

\* Entries at places that are taken out are passed over.
Passed(places, prev, e) ==
    IF Place(e) \in places THEN prev ELSE Append(prev, e)

LEMMA RemainingAppend ==
    ASSUME NEW m, NEW places
    PROVE  /\ Remaining(<<>>, places) = <<>>
           /\ \A s \in Seq(MatrixEntries(m)) :
                  Remaining(s, places) \in Seq(MatrixEntries(m))
           /\ \A s \in Seq(MatrixEntries(m)), e \in MatrixEntries(m) :
                  Remaining(Append(s, e), places)
                      = Passed(places, Remaining(s, places), e)
<1> DEFINE E == MatrixEntries(m)
           V == Seq(E)
           step == [xe \in V \X E |-> Passed(places, xe[1], xe[2])]
           Body(s, g) == [k \in 0..Len(s) |-> IF k = 0 THEN <<>>
                                              ELSE Passed(places, g[k - 1], s[k])]
<1>1. <<>> \in V
  OBVIOUS
<1>2. \A x \in V, e \in E :
          /\ <<x, e>> \in V \X E /\ <<x, e>>[1] = x /\ <<x, e>>[2] = e
          /\ step[<<x, e>>] = Passed(places, x, e)
  OBVIOUS
<1>3. IsStep(step, V, E)
  <2>1. \A xe \in V \X E : Passed(places, xe[1], xe[2]) \in V
    BY DEF Passed
  <2> QED
    BY <2>1 DEF IsStep
<1> HIDE DEF step, E, V
<1>4. ASSUME NEW s \in Seq(E) PROVE Remaining(s, places) = Loop(s, <<>>, step)
  <2> DEFINE g == CHOOSE g : g = Body(s, g)
  <2>1. \E f : f = Body(s, f)
    <3>1. PICK f \in [0..Len(s) -> V] : IsLoop(f, s, <<>>, step)
      BY <1>1, <1>3, LoopExists
    <3>2. \A k \in 0..Len(s) : k # 0 => /\ f[k - 1] \in V /\ s[k] \in E
      OBVIOUS
    <3>3. \A k \in 0..Len(s) :
              (IF k = 0 THEN <<>> ELSE step[<<f[k - 1], s[k]>>])
                  = (IF k = 0 THEN <<>> ELSE Passed(places, f[k - 1], s[k]))
      BY <1>2, <3>2
    <3>4. f = Body(s, f)
      BY <3>1, <3>3 DEF IsLoop
    <3> QED
      BY <3>4
  <2>2. g = Body(s, g)
    BY <2>1
  <2> HIDE DEF g
  <2>3. Len(s) \in 0..Len(s) /\ \A k \in 1..Len(s) : s[k] \in E
    OBVIOUS
  <2>4. Follows(g, s, <<>>, step, V)
    BY <1>2, <2>2, <2>3 DEF Follows
  <2>5. g[Len(s)] = Loop(s, <<>>, step)
    BY <1>1, <1>3, <2>4, LoopIsFound
  <2> QED
    BY <2>5 DEF Remaining, Passed, g
<1>5. /\ Loop(<<>>, <<>>, step) = <<>>
      /\ \A s \in Seq(E) : Loop(s, <<>>, step) \in V
      /\ \A s \in Seq(E), e \in E :
             Loop(Append(s, e), <<>>, step) = step[<<Loop(s, <<>>, step), e>>]
  BY <1>1, <1>3, LoopAppend
<1>6. <<>> \in Seq(E) /\ \A s \in Seq(E), e \in E : Append(s, e) \in Seq(E)
  OBVIOUS
<1>7. Remaining(<<>>, places) = <<>>
  BY <1>4, <1>5, <1>6
<1>8. \A s \in Seq(E) : Remaining(s, places) \in V
  BY <1>4, <1>5
<1>9. ASSUME NEW s \in Seq(E), NEW e \in E
      PROVE  Remaining(Append(s, e), places) = Passed(places, Remaining(s, places), e)
  <2>1. Loop(Append(s, e), <<>>, step) = step[<<Loop(s, <<>>, step), e>>]
    BY <1>5
  <2>2. Remaining(Append(s, e), places) = Loop(Append(s, e), <<>>, step)
    BY <1>4, <1>6
  <2>3. Remaining(s, places) = Loop(s, <<>>, step) /\ Remaining(s, places) \in V
    BY <1>4, <1>8
  <2> QED
    BY <1>2, <2>1, <2>2, <2>3
<1> QED
  BY <1>7, <1>8, <1>9 DEF E, V

-----------------------------------------------------------------------------
\* One more entry is in order if it fits behind all others.
LEMMA AppendOrder ==
    ASSUME NEW m, NEW s \in Seq(MatrixEntries(m)), NEW e \in MatrixEntries(m)
    PROVE  /\ DOMAIN s = 1..Len(s) /\ Len(s) \in Nat
           /\ \A k \in DOMAIN s : s[k] \in MatrixEntries(m)
           /\ DOMAIN Append(s, e) = 1..(Len(s) + 1)
           /\ \A k \in DOMAIN s : Append(s, e)[k] = s[k]
           /\ Append(s, e)[Len(s) + 1] = e
           /\ IsAscending(Append(s, e)) <=>
                  IsAscending(s) /\ \A k \in DOMAIN s : Precedes(s[k], e)
           /\ InOrder(Append(s, e)) <=>
                  InOrder(s) /\ \A k \in DOMAIN s : ~Precedes(e, s[k])
<1> DEFINE n == Len(s)
           t == Append(s, e)
<1>1. /\ DOMAIN s = 1..n /\ n \in Nat /\ DOMAIN t = 1..(n + 1)
      /\ \A k \in DOMAIN s : s[k] \in MatrixEntries(m) /\ t[k] = s[k]
      /\ t[n + 1] = e
  OBVIOUS
<1> HIDE DEF n, t
<1>2. /\ \A k, l \in 1..(n + 1) : k < l => k \in 1..n /\ (l \in 1..n \/ l = n + 1)
      /\ \A k \in 1..n : k \in 1..(n + 1) /\ k < n + 1
      /\ n + 1 \in 1..(n + 1)
  BY <1>1
<1>3. IsAscending(t) <=> IsAscending(s) /\ \A k \in DOMAIN s : Precedes(s[k], e)
  BY <1>1, <1>2 DEF IsAscending
<1>4. InOrder(t) <=> InOrder(s) /\ \A k \in DOMAIN s : ~Precedes(e, s[k])
  BY <1>1, <1>2 DEF InOrder
<1> QED
  BY <1>1, <1>3, <1>4 DEF n, t

\* The sort puts the entries in order and changes no total.
LEMMA SortedFits ==
    ASSUME NEW m, NEW s \in Seq(MatrixEntries(m))
    PROVE  /\ Sorted(s) \in Seq(MatrixEntries(m)) /\ InOrder(Sorted(s))
           /\ \A p : Total(m, Sorted(s), p) = Total(m, s, p)
<1> DEFINE E == MatrixEntries(m)
           T == {t \in Seq(E) : /\ InOrder(Sorted(t))
                                /\ \A p : Total(m, Sorted(t), p) = Total(m, t, p)}
<1>1. <<>> \in T
  <2>1. <<>> \in Seq(E) /\ Sorted(<<>>) = <<>>
    BY SortedAppend
  <2>2. InOrder(<<>>)
    BY DEF InOrder
  <2> QED
    BY <2>1, <2>2
<1>2. ASSUME NEW t \in Seq(E), NEW e \in E, t \in T PROVE Append(t, e) \in T
  <2> DEFINE u == Sorted(t)
  <2>1. /\ u \in Seq(E) /\ Sorted(Append(t, e)) = Inserted(u, e)
        /\ Append(t, e) \in Seq(E)
    BY SortedAppend
  <2>2. InOrder(u) /\ \A p : Total(m, u, p) = Total(m, t, p)
    BY <1>2
  <2> HIDE DEF u
  <2>3. /\ InOrder(Inserted(u, e))
        /\ \A p : Total(m, Inserted(u, e), p) = Total(m, Append(u, e), p)
    BY <2>1, <2>2, InsertedFits
  <2>4. \A p : Total(m, Append(u, e), p) = Total(m, Append(t, e), p)
    BY SMTT(30), <2>1, <2>2, TotalAppend
  <2> QED
    BY <2>1, <2>3, <2>4
<1>3. s \in T
  <2> HIDE DEF T, E
  <2>1. Seq(E) \subseteq T
    BY <1>1, <1>2, SequenceInduction
  <2> QED
    BY <2>1 DEF E
<1> QED
  BY <1>3, SortedAppend

\* An entry that does not come before the last is combined with it or put
\* behind it.
LEMMA PackedFits ==
    ASSUME NEW m, NEW t \in Seq(MatrixEntries(m)), IsAscending(t),
           NEW e \in MatrixEntries(m), t # <<>> => ~Precedes(e, Last(t))
    PROVE  LET u == Packed(t, e)
           IN  /\ IsAscending(u) /\ u # <<>> /\ Place(Last(u)) = Place(e)
               /\ \A p : Total(m, u, p) = Total(m, Append(t, e), p)
<1> DEFINE E == MatrixEntries(m)
           n == Len(t)
           u == Packed(t, e)
<1>1. /\ n \in Nat /\ DOMAIN t = 1..n /\ \A k \in 1..n : t[k] \in E
      /\ t # <<>> => n \in 1..n /\ Last(t) = t[n]
  <2>1. t # <<>> => n # 0
    BY EmptySeq
  <2> QED
    BY <2>1 DEF Last
<1>2. CASE t # <<>> /\ Place(Last(t)) = Place(e)
  <2> DEFINE l == t[n]
             r == SubSeq(t, 1, n - 1)
             f == [l EXCEPT !.value = Plus(@, e.value)]
  <2>1. n \in 1..n /\ l \in E /\ Place(l) = Place(e)
    BY <1>1, <1>2
  <2>2. /\ f \in E /\ f.value = Plus(l.value, e.value) /\ Place(f) = Place(l)
        /\ f.row = l.row /\ f.column = l.column
    <3>1. l.value \in Scalar /\ e.value \in Scalar
      BY <2>1, EntryFacts
    <3>2. Plus(l.value, e.value) \in Scalar
      BY <3>1, PlusLaws
    <3> HIDE DEF l, E
    <3> QED
      BY <2>1, <3>2, EntryFacts DEF E
  <2>3. r \in Seq(E) /\ t = Append(r, l)
    <3>1. r \in Seq(E) /\ Len(r) = n - 1 /\ \A k \in 1..(n - 1) : r[k] = t[k]
      BY <1>1, <2>1
    <3>2. l = t[n]
      OBVIOUS
    <3> HIDE DEF r, l, E
    <3>3. /\ Append(r, l) \in Seq(E) /\ Len(Append(r, l)) = (n - 1) + 1
          /\ \A k \in 1..(n - 1) : Append(r, l)[k] = r[k]
          /\ Append(r, l)[(n - 1) + 1] = l
      BY <2>1, <3>1, AppendProperties
    <3>4. (n - 1) + 1 = n /\ \A k \in 1..n : k \in 1..(n - 1) \/ k = n
      <4>1. n \in Nat
        BY <1>1
      <4> HIDE DEF n
      <4> QED
        BY <4>1
    <3>5. \A k \in 1..n : Append(r, l)[k] = t[k]
      BY <3>1, <3>2, <3>3, <3>4
    <3> QED
      BY <3>1, <3>3, <3>4, <3>5, SeqEqual DEF E
  <2>4. u = [t EXCEPT ![n] = f]
    BY <1>2 DEF Packed
  <2>5. u = Append(r, f)
    <3>1. r \in Seq(E) /\ Len(r) = n - 1 /\ \A k \in 1..(n - 1) : r[k] = t[k]
      BY <1>1, <2>1
    <3> HIDE DEF r, f, u, l
    <3>2. /\ u \in Seq(E) /\ Len(u) = n
          /\ \A k \in 1..n : u[k] = IF k = n THEN f ELSE t[k]
      BY <2>1, <2>2, <2>4, ExceptSeq
    <3> HIDE DEF E
    <3>3. /\ Append(r, f) \in Seq(E) /\ Len(Append(r, f)) = (n - 1) + 1
          /\ \A k \in 1..(n - 1) : Append(r, f)[k] = r[k]
          /\ Append(r, f)[(n - 1) + 1] = f
      BY SMTT(30), <2>2, <3>1, AppendProperties
    <3>4. (n - 1) + 1 = n /\ \A k \in 1..n : k \in 1..(n - 1) \/ k = n
      <4>1. n \in Nat
        BY <1>1
      <4> HIDE DEF n
      <4> QED
        BY <4>1
    <3>5. \A k \in 1..n : Append(r, f)[k] = u[k]
      BY <1>1, <3>1, <3>2, <3>3, <3>4
    <3> QED
      BY <3>2, <3>3, <3>4, <3>5, SeqEqual
  <2> HIDE DEF u, f, r, l
  <2>6. \A p : Total(m, u, p) = Total(m, Append(t, e), p)
    <3> SUFFICES ASSUME NEW p PROVE Total(m, u, p) = Total(m, Append(t, e), p)
      OBVIOUS
    <3>1. l.value \in Scalar /\ e.value \in Scalar
      BY <2>1, EntryFacts
    <3>2. /\ l.value \in Values /\ e.value \in Values
          /\ l.value # <<>> /\ e.value # <<>> /\ Total(m, r, p) \in Values
      BY <2>3, <3>1, ScalarIsValue, TotalAppend DEF Values
    <3>3. /\ Added(Added(Total(m, r, p), l.value), e.value)
                 = Added(Total(m, r, p), Added(l.value, e.value))
          /\ Added(l.value, e.value) = Plus(l.value, e.value)
      BY <3>2, AddedLaws
    <3>4. Total(m, t, p) = IF Place(l) = p THEN Added(Total(m, r, p), l.value)
                           ELSE Total(m, r, p)
      BY <2>1, <2>3, TotalAppend
    <3>5. Total(m, u, p) = IF Place(f) = p THEN Added(Total(m, r, p), f.value)
                           ELSE Total(m, r, p)
      BY <2>2, <2>3, <2>5, TotalAppend
    <3>6. Total(m, Append(t, e), p)
              = IF Place(e) = p THEN Added(Total(m, t, p), e.value)
                ELSE Total(m, t, p)
      BY TotalAppend
    <3> QED
      BY <2>1, <2>2, <3>3, <3>4, <3>5, <3>6
  <2>7. IsAscending(u)
    <3>1. IsAscending(r) /\ \A k \in DOMAIN r : Precedes(r[k], l)
      BY <2>1, <2>3, AppendOrder
    <3>2. \A k \in DOMAIN r : Precedes(r[k], f)
      BY <2>2, <3>1 DEF Precedes
    <3> QED
      BY <2>2, <2>3, <2>5, <3>1, <3>2, AppendOrder
  <2>8. u # <<>> /\ Last(u) = f
    BY <2>2, <2>3, <2>5 DEF Last
  <2> QED
    BY <2>1, <2>2, <2>6, <2>7, <2>8 DEF u
<1>3. CASE ~(t # <<>> /\ Place(Last(t)) = Place(e))
  <2>1. u = Append(t, e)
    BY <1>3 DEF Packed
  <2>2. u # <<>> /\ Last(u) = e
    BY <2>1 DEF Last
  <2>3. ASSUME NEW k \in 1..n PROVE Precedes(t[k], e)
    <3>1. t # <<>> /\ n \in 1..n /\ t[n] \in E /\ t[k] \in E /\ n \in Nat
      BY <1>1, <2>3
    <3>2. ~Precedes(e, t[n]) /\ Place(t[n]) # Place(e)
      BY <1>1, <1>3, <3>1
    <3>3. Precedes(t[n], e)
      BY <3>1, <3>2, PrecedesOrders
    <3>4. k = n \/ Precedes(t[k], t[n])
      <4> HIDE DEF n
      <4>1. k \in DOMAIN t /\ n \in DOMAIN t /\ (k = n \/ k < n)
        BY <1>1, <2>3, <3>1
      <4> QED
        BY <4>1 DEF IsAscending
    <3> QED
      BY <3>1, <3>3, <3>4, PrecedesOrders
  <2>4. IsAscending(u)
    BY <1>1, <2>1, <2>3, AppendOrder
  <2> QED
    BY <2>1, <2>2, <2>4
<1> QED
  BY <1>2, <1>3

\* Combining the neighbours leaves each place once and changes no total.
LEMMA CombinedFits ==
    ASSUME NEW m, NEW s \in Seq(MatrixEntries(m)), InOrder(s)
    PROVE  /\ CombineSortedEntries(s) \in Seq(MatrixEntries(m))
           /\ IsAscending(CombineSortedEntries(s))
           /\ \A p : Total(m, CombineSortedEntries(s), p) = Total(m, s, p)
<1> DEFINE E == MatrixEntries(m)
           C(t) == CombineSortedEntries(t)
           T == {t \in Seq(E) :
                    InOrder(t) =>
                        /\ IsAscending(C(t))
                        /\ t # <<>> => C(t) # <<>> /\ Place(Last(C(t))) = Place(Last(t))
                        /\ \A p : Total(m, C(t), p) = Total(m, t, p)}
<1>1. <<>> \in T
  <2>1. <<>> \in Seq(E) /\ C(<<>>) = <<>>
    BY CombinedAppend
  <2>2. IsAscending(<<>>)
    BY DEF IsAscending
  <2> QED
    BY <2>1, <2>2
<1>2. ASSUME NEW t \in Seq(E), NEW e \in E, t \in T, InOrder(Append(t, e))
      PROVE  Append(t, e) \in T
  <2> DEFINE u == C(t)
  <2>1. /\ u \in Seq(E) /\ C(Append(t, e)) = Packed(u, e)
        /\ Append(t, e) \in Seq(E)
    BY CombinedAppend
  <2>2. InOrder(t) /\ \A k \in DOMAIN t : ~Precedes(e, t[k])
    BY <1>2, AppendOrder
  <2>3. /\ IsAscending(u) /\ \A p : Total(m, u, p) = Total(m, t, p)
        /\ t # <<>> => u # <<>> /\ Place(Last(u)) = Place(Last(t))
    BY <1>2, <2>2
  <2>4. t = <<>> => u = <<>>
    BY CombinedAppend
  <2>5. u # <<>> => ~Precedes(e, Last(u))
    <3> SUFFICES ASSUME u # <<>> PROVE ~Precedes(e, Last(u))
      OBVIOUS
    <3>1. t # <<>> /\ Place(Last(u)) = Place(Last(t))
      BY <2>3, <2>4
    <3>2. \A v \in Seq(E) : v # <<>> => Last(v) \in E /\ Len(v) \in DOMAIN v
      <4> SUFFICES ASSUME NEW v \in Seq(E), v # <<>>
                   PROVE  Last(v) \in E /\ Len(v) \in DOMAIN v
        OBVIOUS
      <4>1. Len(v) \in 1..Len(v)
        BY EmptySeq
      <4> QED
        BY <4>1 DEF Last
    <3>3. Last(t) \in E /\ Last(u) \in E /\ ~Precedes(e, Last(t))
      BY <2>1, <2>2, <3>1, <3>2 DEF Last
    <3> HIDE DEF u
    <3> QED
      BY <3>1, <3>3, PrecedesOrders
  <2> HIDE DEF u
  <2>6. LET v == Packed(u, e)
        IN  /\ IsAscending(v) /\ v # <<>> /\ Place(Last(v)) = Place(e)
            /\ \A p : Total(m, v, p) = Total(m, Append(u, e), p)
    BY <2>1, <2>3, <2>5, PackedFits
  <2>7. \A p : Total(m, Append(u, e), p) = Total(m, Append(t, e), p)
    BY SMTT(30), <2>1, <2>3, TotalAppend
  <2>8. Last(Append(t, e)) = e
    BY DEF Last
  <2> QED
    BY <2>1, <2>6, <2>7, <2>8
<1>3. ASSUME NEW t \in Seq(E), NEW e \in E, t \in T PROVE Append(t, e) \in T
  <2>1. Append(t, e) \in Seq(E)
    OBVIOUS
  <2> QED
    BY <1>2, <1>3, <2>1
<1>4. s \in T
  <2> HIDE DEF T, E
  <2>1. Seq(E) \subseteq T
    BY <1>1, <1>3, SequenceInduction
  <2> QED
    BY <2>1 DEF E
<1> QED
  BY <1>4, CombinedAppend

\* When every place comes once, the total at a place is the entry there.
LEMMA TotalIsEntry ==
    ASSUME NEW m, NEW s \in Seq(MatrixEntries(m)), IsAscending(s), NEW p
    PROVE  /\ \A k \in DOMAIN s : Place(s[k]) = p => Total(m, s, p) = s[k].value
           /\ (\A k \in DOMAIN s : Place(s[k]) # p) => Total(m, s, p) = <<>>
<1> DEFINE E == MatrixEntries(m)
           Right(t) == /\ \A k \in DOMAIN t :
                              Place(t[k]) = p => Total(m, t, p) = t[k].value
                       /\ (\A k \in DOMAIN t : Place(t[k]) # p)
                              => Total(m, t, p) = <<>>
           T == {t \in Seq(E) : IsAscending(t) => Right(t)}
<1>1. <<>> \in T
  <2>1. <<>> \in Seq(E) /\ \A k \in DOMAIN <<>> : FALSE
    OBVIOUS
  <2> QED
    BY <2>1, TotalAppend
<1>2. ASSUME NEW t \in Seq(E), NEW e \in E, t \in T PROVE Append(t, e) \in T
  <2> DEFINE u == Append(t, e)
  <2>0. u \in Seq(E)
    OBVIOUS
  <2> SUFFICES ASSUME IsAscending(u) PROVE Right(u)
    <3> HIDE DEF Right, u
    <3>1. (IsAscending(u) => Right(u)) => u \in T
      BY <2>0
    <3> QED
      BY <2>0, <3>1 DEF u
  <2>1. /\ DOMAIN u = 1..(Len(t) + 1) /\ DOMAIN t = 1..Len(t) /\ Len(t) \in Nat
        /\ \A k \in DOMAIN t : t[k] \in E /\ u[k] = t[k] /\ Precedes(t[k], e)
        /\ u[Len(t) + 1] = e /\ IsAscending(t)
    BY AppendOrder
  <2>2. Right(t)
    BY <1>2, <2>1
  <2>3. Total(m, u, p) = IF Place(e) = p THEN Added(Total(m, t, p), e.value)
                         ELSE Total(m, t, p)
    BY TotalAppend
  <2>4. \A k \in DOMAIN u : k \in DOMAIN t \/ k = Len(t) + 1
    BY <2>1
  <2>5. DOMAIN t \subseteq DOMAIN u /\ Len(t) + 1 \in DOMAIN u
    BY <2>1
  <2> HIDE DEF u
  <2>6. CASE Place(e) = p
    <3>1. \A k \in DOMAIN t : Place(t[k]) # p
      BY <2>1, <2>6, PrecedesOrders
    <3>2. Total(m, t, p) = <<>> /\ e.value \in Values
      BY <2>2, <3>1, EntryFacts, ScalarIsValue
    <3>3. Total(m, u, p) = e.value
      BY <2>3, <2>6, <3>2, AddedLaws
    <3> QED
      BY <2>1, <2>4, <2>5, <2>6, <3>1, <3>3
  <2>7. CASE Place(e) # p
    BY <2>1, <2>2, <2>3, <2>4, <2>5, <2>7
  <2> QED
    BY <2>6, <2>7
<1>3. s \in T
  <2> HIDE DEF T, E
  <2>1. Seq(E) \subseteq T
    BY <1>1, <1>2, SequenceInduction
  <2> QED
    BY <2>1 DEF E
<1> QED
  BY <1>3

\* Removing entries keeps the order, and empties the places.
LEMMA RemainingFits ==
    ASSUME NEW m, NEW s \in Seq(MatrixEntries(m)), IsAscending(s), NEW places
    PROVE  /\ Remaining(s, places) \in Seq(MatrixEntries(m))
           /\ IsAscending(Remaining(s, places))
           /\ \A p : Total(m, Remaining(s, places), p) =
                         IF p \in places THEN <<>> ELSE Total(m, s, p)
<1> DEFINE E == MatrixEntries(m)
           R(t) == Remaining(t, places)
           Right(t) == /\ IsAscending(R(t))
                       /\ \A k \in DOMAIN R(t) : \E l \in DOMAIN t : R(t)[k] = t[l]
                       /\ \A p : Total(m, R(t), p) =
                              IF p \in places THEN <<>> ELSE Total(m, t, p)
           T == {t \in Seq(E) : IsAscending(t) => Right(t)}
<1>1. <<>> \in T
  <2>1. <<>> \in Seq(E) /\ R(<<>>) = <<>> /\ \A k \in DOMAIN <<>> : FALSE
    BY RemainingAppend
  <2>2. IsAscending(<<>>) /\ \A p : Total(m, <<>>, p) = <<>>
    BY TotalAppend DEF IsAscending
  <2> QED
    BY <2>1, <2>2
<1>2. ASSUME NEW t \in Seq(E), NEW e \in E, t \in T PROVE Append(t, e) \in T
  <2> DEFINE u == Append(t, e)
             r == R(t)
  <2>0. u \in Seq(E)
    OBVIOUS
  <2> SUFFICES ASSUME IsAscending(u) PROVE Right(u)
    <3> HIDE DEF Right, u
    <3>1. (IsAscending(u) => Right(u)) => u \in T
      BY <2>0
    <3> QED
      BY <2>0, <3>1 DEF u
  <2>1. /\ DOMAIN u = 1..(Len(t) + 1) /\ DOMAIN t = 1..Len(t) /\ Len(t) \in Nat
        /\ \A k \in DOMAIN t : t[k] \in E /\ u[k] = t[k] /\ Precedes(t[k], e)
        /\ u[Len(t) + 1] = e /\ IsAscending(t) /\ u \in Seq(E)
    BY AppendOrder
  <2>2. Right(t)
    BY <1>2, <2>1
  <2>3. r \in Seq(E) /\ R(u) = Passed(places, r, e)
    BY RemainingAppend
  <2>4. /\ IsAscending(r)
        /\ \A k \in DOMAIN r : \E l \in DOMAIN t : r[k] = t[l]
        /\ \A p : Total(m, r, p) = IF p \in places THEN <<>> ELSE Total(m, t, p)
    BY <2>2
  <2>5. \A p : Total(m, u, p) = IF Place(e) = p
                                THEN Added(Total(m, t, p), e.value)
                                ELSE Total(m, t, p)
    BY TotalAppend
  <2>6. DOMAIN t \subseteq DOMAIN u /\ Len(t) + 1 \in DOMAIN u
    BY <2>1
  <2> HIDE DEF u, r
  <2>7. CASE Place(e) \in places
    <3>1. R(u) = r
      BY <2>3, <2>7 DEF Passed
    <3>2. \A k \in DOMAIN r : \E l \in DOMAIN u : r[k] = u[l]
      BY <2>1, <2>4, <2>6
    <3>3. \A p : Total(m, r, p) = IF p \in places THEN <<>> ELSE Total(m, u, p)
      BY <2>4, <2>5, <2>7
    <3> QED
      BY <2>4, <3>1, <3>2, <3>3
  <2>8. CASE Place(e) \notin places
    <3>1. R(u) = Append(r, e)
      BY <2>3, <2>8 DEF Passed
    <3>2. /\ DOMAIN Append(r, e) = 1..(Len(r) + 1) /\ DOMAIN r = 1..Len(r)
          /\ Len(r) \in Nat /\ Append(r, e)[Len(r) + 1] = e
          /\ \A k \in DOMAIN r : Append(r, e)[k] = r[k]
          /\ IsAscending(Append(r, e)) <=>
                 IsAscending(r) /\ \A k \in DOMAIN r : Precedes(r[k], e)
      BY <2>3, AppendOrder
    <3>3. IsAscending(Append(r, e))
      BY <2>1, <2>4, <3>2
    <3>4. \A k \in DOMAIN Append(r, e) : \E l \in DOMAIN u : Append(r, e)[k] = u[l]
      <4> SUFFICES ASSUME NEW k \in DOMAIN Append(r, e)
                   PROVE  \E l \in DOMAIN u : Append(r, e)[k] = u[l]
        OBVIOUS
      <4>1. k \in DOMAIN r \/ k = Len(r) + 1
        BY <3>2
      <4> QED
        BY <2>1, <2>4, <2>6, <3>2, <4>1
    <3>5. \A p : Total(m, Append(r, e), p) =
                     IF Place(e) = p THEN Added(Total(m, r, p), e.value)
                     ELSE Total(m, r, p)
      BY <2>3, TotalAppend
    <3>6. \A p : Total(m, Append(r, e), p) =
                     IF p \in places THEN <<>> ELSE Total(m, u, p)
      BY <2>4, <2>5, <2>8, <3>5
    <3> QED
      BY <3>1, <3>3, <3>4, <3>6
  <2> QED
    BY <2>7, <2>8
<1>3. s \in T
  <2> HIDE DEF T, E
  <2>1. Seq(E) \subseteq T
    BY <1>1, <1>2, SequenceInduction
  <2> QED
    BY <2>1 DEF E
<1> QED
  BY <1>3, RemainingAppend

-----------------------------------------------------------------------------
\* What the class maintains, as facts about the record.
LEMMA MatrixFacts ==
    ASSUME NEW m, IsCoordinateMatrix(m)
    PROVE  /\ DOMAIN m = {"rows", "columns", "entries", "offsets", "toAdd",
                          "toRemove"}
           /\ m.rows \in Nat /\ m.columns \in Nat
           /\ m.entries \in Seq(MatrixEntries(m)) /\ IsAscending(m.entries)
           /\ m.toAdd \in Seq(MatrixEntries(m)) /\ m.toRemove \in Seq(Places(m))
           /\ Len(m.entries) \in Nat /\ DOMAIN m.entries = 1..Len(m.entries)
           /\ \A k \in DOMAIN m.entries : m.entries[k] \in MatrixEntries(m)
           /\ \A r \in 1..(m.rows + 1) : m.offsets[r]
                  = Cardinality({k \in DOMAIN m.entries : m.entries[k].row < r})
BY DEF IsCoordinateMatrix, EmptyMatrix, RowEntryOffsets

LEMMA SameShape ==
    ASSUME NEW m, NEW f, f.rows = m.rows, f.columns = m.columns
    PROVE  /\ MatrixEntries(f) = MatrixEntries(m) /\ Places(f) = Places(m)
           /\ \A s, p : Total(f, s, p) = Total(m, s, p)
BY DEF MatrixEntries, Places, Total, TotalStep

\* The removals are flushed, then the additions: a place has what was asked for
\* it since the last flush, and what was there unless it is removed.
LEMMA FlushFits ==
    ASSUME NEW m, IsCoordinateMatrix(m)
    PROVE  LET f == FlushEntryQueues(m)
           IN  /\ IsCoordinateMatrix(f) /\ EntryQueuesAreEmpty(f)
               /\ f.rows = m.rows /\ f.columns = m.columns
               /\ \A p : Total(m, f.entries, p) =
                      Added(IF p \in Range(m.toRemove) THEN <<>>
                            ELSE Total(m, m.entries, p), Total(m, m.toAdd, p))
<1> DEFINE E == MatrixEntries(m)
           f == FlushEntryQueues(m)
           g == FlushEntryRemovalQueue(m)
           kept == Remaining(m.entries, Range(m.toRemove))
           old(p) == IF p \in Range(m.toRemove) THEN <<>>
                     ELSE Total(m, m.entries, p)
<1>1. \A p : Total(m, m.entries, p) \in Values /\ Total(m, m.toAdd, p) \in Values
  BY MatrixFacts, TotalAppend
<1>2. <<>> \in Values
  BY DEF Values
<1>3. CASE EntryQueuesAreEmpty(m)
  <2>1. f = m
    BY <1>3 DEF FlushEntryQueues
  <2>2. m.toAdd = <<>> /\ Range(m.toRemove) = {}
    BY <1>3 DEF EntryQueuesAreEmpty, Range
  <2>3. \A p : Total(m, m.toAdd, p) = <<>> /\ old(p) = Total(m, m.entries, p)
    BY <2>2, TotalAppend
  <2>4. \A p : Added(Total(m, m.entries, p), <<>>) = Total(m, m.entries, p)
    BY <1>1, AddedLaws
  <2> HIDE DEF f
  <2> QED
    BY <1>3, <2>1, <2>3, <2>4 DEF f
<1>4. CASE ~EntryQueuesAreEmpty(m)
  <2>1. /\ kept \in Seq(E) /\ IsAscending(kept)
        /\ \A p : Total(m, kept, p) = old(p)
    BY MatrixFacts, RemainingFits
  <2> HIDE DEF kept
  <2>2. /\ DOMAIN g = DOMAIN m /\ g.rows = m.rows /\ g.columns = m.columns
        /\ g.entries = kept /\ g.toAdd = m.toAdd /\ g.toRemove = <<>>
    BY MatrixFacts DEF FlushEntryRemovalQueue, kept
  <2> HIDE DEF g
  <2> DEFINE added == CombineSortedEntries(Sorted(g.toAdd))
             merged == Sorted(g.entries \o added)
             h == IF g.toAdd = <<>> THEN g
                  ELSE [g EXCEPT !.entries = CombineSortedEntries(merged),
                                 !.toAdd = <<>>]
  <2>3. f = [h EXCEPT !.offsets = RowEntryOffsets(h)]
    BY <1>4 DEF FlushEntryQueues, FlushEntryAdditionQueue, UpdateRowEntryOffsets, g
  <2>4. /\ DOMAIN h = DOMAIN m /\ h.rows = m.rows /\ h.columns = m.columns
        /\ h.toAdd = <<>> /\ h.toRemove = <<>>
        /\ h.entries \in Seq(E) /\ IsAscending(h.entries)
        /\ \A p : Total(m, h.entries, p) = Added(old(p), Total(m, m.toAdd, p))
    <3>1. CASE g.toAdd = <<>>
      <4>1. \A p : Total(m, m.toAdd, p) = <<>> /\ old(p) \in Values
        BY <1>1, <1>2, <2>2, <3>1, TotalAppend
      <4>2. \A p : Added(old(p), <<>>) = old(p)
        BY <4>1, AddedLaws
      <4> HIDE DEF old, E
      <4> QED
        BY <2>1, <2>2, <3>1, <4>1, <4>2
    <3>2. CASE g.toAdd # <<>>
      <4>1. m.toAdd \in Seq(E)
        BY MatrixFacts
      <4>2. /\ added \in Seq(E)
            /\ \A p : Total(m, added, p) = Total(m, m.toAdd, p)
        <5>1. /\ Sorted(m.toAdd) \in Seq(E) /\ InOrder(Sorted(m.toAdd))
              /\ \A p : Total(m, Sorted(m.toAdd), p) = Total(m, m.toAdd, p)
          BY <4>1, SortedFits
        <5> HIDE DEF E
        <5> QED
          BY <2>2, <5>1, CombinedFits DEF E
      <4> HIDE DEF added
      <4>3. /\ kept \o added \in Seq(E)
            /\ \A p : Total(m, kept \o added, p)
                          = Added(old(p), Total(m, m.toAdd, p))
        <5>1. kept \o added \in Seq(E)
          BY <2>1, <4>2, ConcatProperties
        <5>2. \A p : Total(m, kept \o added, p)
                         = Added(Total(m, kept, p), Total(m, added, p))
          BY <2>1, <4>2, TotalConcat
        <5> HIDE DEF old
        <5> QED
          BY <2>1, <4>2, <5>1, <5>2
      <4>4. /\ merged \in Seq(E) /\ InOrder(merged)
            /\ \A p : Total(m, merged, p) = Total(m, kept \o added, p)
        BY <2>2, <4>3, SortedFits
      <4> HIDE DEF merged
      <4> DEFINE c == CombineSortedEntries(merged)
      <4>5. /\ c \in Seq(E) /\ IsAscending(c)
            /\ \A p : Total(m, c, p) = Total(m, merged, p)
        BY <4>4, CombinedFits
      <4> HIDE DEF c
      <4>6. /\ DOMAIN h = DOMAIN m /\ h.rows = m.rows /\ h.columns = m.columns
            /\ h.toAdd = <<>> /\ h.toRemove = <<>> /\ h.entries = c
        BY <2>2, <3>2, MatrixFacts DEF c
      <4> HIDE DEF h, E, old
      <4> QED
        BY <4>3, <4>4, <4>5, <4>6
    <3> QED
      BY <3>1, <3>2
  <2> HIDE DEF h, old
  <2>5. /\ DOMAIN f = DOMAIN m /\ f.rows = m.rows /\ f.columns = m.columns
        /\ f.toAdd = <<>> /\ f.toRemove = <<>> /\ f.entries = h.entries
        /\ f.offsets = RowEntryOffsets(h)
    BY <2>3, <2>4, MatrixFacts
  <2> HIDE DEF f
  <2>6. RowEntryOffsets(f) = RowEntryOffsets(h)
    BY <2>4, <2>5 DEF RowEntryOffsets
  <2>7. IsCoordinateMatrix(f)
    <3>1. MatrixEntries(f) = E /\ Places(f) = Places(m)
      BY <2>5, SameShape
    <3>2. DOMAIN m = DOMAIN EmptyMatrix /\ m.rows \in Nat /\ m.columns \in Nat
      BY DEF IsCoordinateMatrix
    <3>3. <<>> \in Seq(MatrixEntries(f)) /\ <<>> \in Seq(Places(f))
      OBVIOUS
    <3> HIDE DEF E
    <3> QED
      BY <2>4, <2>5, <2>6, <3>1, <3>2, <3>3 DEF IsCoordinateMatrix
  <2>8. \A p : Total(m, f.entries, p) = Added(old(p), Total(m, m.toAdd, p))
    BY <2>4, <2>5
  <2>9. EntryQueuesAreEmpty(f)
    BY <2>5 DEF EntryQueuesAreEmpty
  <2> QED
    BY <2>5, <2>7, <2>8, <2>9 DEF f, old
<1> QED
  BY <1>3, <1>4

\* A row holds the entries between its offset and the next one.
LEMMA RowSlices ==
    ASSUME NEW m, IsCoordinateMatrix(m), NEW row \in 1..m.rows
    PROVE  /\ m.offsets[row] \in 0..Len(m.entries)
           /\ m.offsets[row + 1] \in 0..Len(m.entries)
           /\ m.offsets[row] <= m.offsets[row + 1]
           /\ \A k : k \in (m.offsets[row] + 1)..m.offsets[row + 1]
                        <=> k \in DOMAIN m.entries /\ m.entries[k].row = row
<1> DEFINE E == m.entries
           n == Len(E)
           at(k) == E[k].row
<1>1. n \in Nat /\ DOMAIN E = 1..n /\ \A k \in 1..n : E[k] \in MatrixEntries(m)
  BY MatrixFacts
<1>2. \A k, l \in 1..n : k < l => Precedes(E[k], E[l])
  BY <1>1, MatrixFacts DEF IsAscending
<1>3. \A r \in 1..(m.rows + 1) : m.offsets[r] = Cardinality({k \in 1..n : at(k) < r})
  BY <1>1, MatrixFacts
<1>4. m.rows \in Nat /\ \A k \in 1..n : at(k) \in 1..m.rows
  BY <1>1, MatrixFacts, EntryFacts
<1> HIDE DEF E, n
<1>5. \A k, l \in 1..n : k <= l => at(k) <= at(l)
  BY <1>1, <1>2, <1>4 DEF Precedes
<1> HIDE DEF at
<1>6. ASSUME NEW r \in 1..(m.rows + 1)
      PROVE  /\ m.offsets[r] \in 0..n
             /\ \A k \in 1..n : at(k) < r <=> k <= m.offsets[r]
  <2> DEFINE T == {k \in 1..n : at(k) < r}
             S == {k \in 1..(n + 1) : k \notin T}
  <2>1. PICK k \in S : \A y \in S : k <= y
    <3>1. n + 1 \in S /\ S \subseteq Nat
      BY <1>1
    <3> HIDE DEF S
    <3> QED
      BY <3>1, LeastElement
  <2>2. \A l \in 1..(k - 1) : l \in T
    BY <1>1, <2>1
  <2>3. \A l \in T : l < k
    BY <1>1, <1>4, <1>5, <2>1
  <2>4. T = 1..(k - 1) /\ k - 1 \in 0..n
    BY <1>1, <2>1, <2>2, <2>3
  <2>5. Cardinality(1..(k - 1)) = k - 1
    BY <1>1, <2>4, FS_Interval
  <2>6. m.offsets[r] = k - 1
    BY <1>3, <2>4, <2>5
  <2> QED
    BY <1>1, <2>4, <2>6
<1>7. row \in 1..(m.rows + 1) /\ row + 1 \in 1..(m.rows + 1)
  BY <1>4
<1>8. /\ m.offsets[row] \in 0..n /\ m.offsets[row + 1] \in 0..n
      /\ \A k \in 1..n : /\ at(k) < row <=> k <= m.offsets[row]
                         /\ at(k) < row + 1 <=> k <= m.offsets[row + 1]
  BY <1>6, <1>7
<1>9. \A k \in 1..n : k \in (m.offsets[row] + 1)..m.offsets[row + 1] <=> at(k) = row
  BY <1>1, <1>4, <1>8
<1>10. m.offsets[row] <= m.offsets[row + 1]
  BY <1>1, <1>4, <1>8
<1> QED
  BY <1>1, <1>8, <1>9, <1>10 DEF at, E, n

\* The search in a row finds the entry at the place if there is one, and the
\* end of the row or an entry at a later column otherwise.
LEMMA EntryFound ==
    ASSUME NEW m, IsCoordinateMatrix(m), NEW row \in 1..m.rows,
           NEW column \in 1..m.columns
    PROVE  /\ EntryOffset(m, row, column) \in Nat
           /\ \A k \in DOMAIN m.entries :
                  Place(m.entries[k]) = <<row, column>> =>
                      /\ EntryOffset(m, row, column) + 1 = k
                      /\ EntryIsPresent(m, row, column)
           /\ EntryIsPresent(m, row, column) =>
                  LET k == EntryOffset(m, row, column) + 1
                  IN  /\ k \in DOMAIN m.entries
                      /\ Place(m.entries[k]) = <<row, column>>
<1> DEFINE E == m.entries
           n == Len(E)
           a == m.offsets[row]
           b == m.offsets[row + 1]
           before(k) == E[k].column < column
           T == {k \in (a + 1)..b : before(k)}
<1>1. /\ n \in Nat /\ DOMAIN E = 1..n
      /\ \A k \in 1..n : E[k] \in MatrixEntries(m) /\ E[k].column \in Int
  BY MatrixFacts, EntryFacts
<1>2. /\ a \in 0..n /\ b \in 0..n /\ a <= b
      /\ \A k : k \in (a + 1)..b <=> k \in 1..n /\ E[k].row = row
  BY <1>1, RowSlices
<1>3. \A k, l \in (a + 1)..b : k < l => E[k].column < E[l].column
  <2>1. \A k, l \in 1..n : k < l => Precedes(E[k], E[l])
    BY <1>1, MatrixFacts DEF IsAscending
  <2>2. row \in Int
    OBVIOUS
  <2> HIDE DEF E, n, a, b
  <2> QED
    BY <1>2, <2>1, <2>2 DEF Precedes
<1>4. EntryOffset(m, row, column) = a + Cardinality(T)
  <2>1. \A k \in (a + 1)..b :
            Precedes(E[k], Entry(row, column, Zero)) <=> before(k)
    <3>1. \A k \in (a + 1)..b : E[k].row = row
      BY <1>2
    <3>2. row \in Int
      OBVIOUS
    <3> HIDE DEF E, a, b
    <3> QED
      BY <3>1, <3>2 DEF Precedes, Entry
  <2>2. T = {k \in (a + 1)..b : Precedes(E[k], Entry(row, column, Zero))}
    BY <2>1
  <2> QED
    BY <2>2 DEF EntryOffset, RowEntryOffset
<1>5. column \in Int
  OBVIOUS
<1>6. \A k : Place(E[k]) = <<row, column>> <=> E[k].row = row /\ E[k].column = column
  BY DEF Place
<1>7. EntryIsPresent(m, row, column) <=>
          a + Cardinality(T) # b /\ E[a + Cardinality(T) + 1].column = column
  BY <1>4 DEF EntryIsPresent, RowEntryOffset
<1> HIDE DEF E, n, a, b
<1>8. PICK c \in a..b :
          /\ T = (a + 1)..c
          /\ c + 1 \in (a + 1)..b => ~before(c + 1)
  <2> DEFINE S == {k \in (a + 1)..(b + 1) : k \notin T}
  <2>1. PICK k \in S : \A y \in S : k <= y
    <3>1. b + 1 \in S /\ S \subseteq Nat
      BY <1>2
    <3> HIDE DEF S
    <3> QED
      BY <3>1, LeastElement
  <2>2. k \in (a + 1)..(b + 1) /\ k \notin T /\ k \in Int
    BY <1>2, <2>1
  <2>3. \A l \in (a + 1)..(k - 1) : l \in T
    BY <1>2, <2>1, <2>2
  <2>4. \A l \in T : l < k
    <3> SUFFICES ASSUME NEW l \in T, l >= k PROVE FALSE
      BY <1>2, <2>2
    <3>1. k \in (a + 1)..b /\ l \in (a + 1)..b /\ l # k /\ k < l
      BY <1>2, <2>2
    <3>2. E[k].column < E[l].column /\ E[l].column < column /\ E[k].column \in Int
          /\ E[l].column \in Int
      BY <1>1, <1>2, <1>3, <3>1
    <3>3. before(k)
      BY <1>5, <3>2
    <3> QED
      BY <2>2, <3>1, <3>3
  <2>5. T = (a + 1)..(k - 1)
    <3>1. T \subseteq (a + 1)..b /\ a \in Int /\ b \in Int
      BY <1>2
    <3> HIDE DEF T
    <3>2. \A l \in T : l \in (a + 1)..(k - 1)
      BY <2>2, <2>4, <3>1
    <3>3. T \subseteq (a + 1)..(k - 1) /\ (a + 1)..(k - 1) \subseteq T
      BY <2>3, <3>2
    <3> QED
      BY <3>3
  <2>6. k - 1 \in a..b /\ k - 1 + 1 = k
    BY <1>2, <2>2
  <2>7. k \in (a + 1)..b => ~before(k)
    BY <2>2
  <2> QED
    BY <2>5, <2>6, <2>7
<1>9. Cardinality(T) = c - a
  <2>1. a \in Int /\ c \in Int /\ a + 1 \in Int /\ a <= c
    BY <1>2, <1>8
  <2>2. Cardinality((a + 1)..c) = IF a + 1 > c THEN 0 ELSE c - (a + 1) + 1
    BY <2>1, FS_Interval
  <2>3. (IF a + 1 > c THEN 0 ELSE c - (a + 1) + 1) = c - a
    BY <2>1
  <2> QED
    BY <1>8, <2>2, <2>3
<1>10. ASSUME NEW k \in 1..n, E[k].row = row, E[k].column = column
       PROVE  c + 1 = k /\ a + Cardinality(T) # b
  <2>1. k \in (a + 1)..b /\ ~before(k)
    BY <1>2, <1>5, <1>10
  <2>2. k \notin T /\ c < k /\ c \in Int
    BY <1>2, <1>8, <2>1
  <2>3. ~(c + 1 < k)
    <3> SUFFICES ASSUME c + 1 < k PROVE FALSE
      OBVIOUS
    <3>1. c + 1 \in (a + 1)..b
      BY <1>2, <1>8, <2>1
    <3>2. E[c + 1].column < column
      BY <1>3, <1>10, <2>1, <3>1
    <3> QED
      BY <1>8, <3>1, <3>2
  <2>4. c + 1 = k
    BY <2>1, <2>2, <2>3
  <2> QED
    BY <1>2, <1>8, <1>9, <2>1, <2>4
<1>11. ASSUME a + Cardinality(T) # b, E[a + Cardinality(T) + 1].column = column
       PROVE  c + 1 \in 1..n /\ E[c + 1].row = row /\ E[c + 1].column = column
  <2>1. c # b /\ E[c + 1].column = column
    BY <1>2, <1>8, <1>9, <1>11
  <2>2. c + 1 \in (a + 1)..b
    BY <1>2, <1>8, <2>1
  <2> QED
    BY <1>2, <2>1, <2>2
<1>12. a + Cardinality(T) + 1 = c + 1 /\ a + Cardinality(T) = c /\ c \in Nat
  BY <1>2, <1>8, <1>9
<1> QED
  BY <1>1, <1>4, <1>6, <1>7, <1>10, <1>11, <1>12 DEF E, a

\* Another value at the k-th entry: the places stay, and so does every search.
WithValue(m, k, v) == [m EXCEPT !.entries[k].value = v]

LEMMA ValueFits ==
    ASSUME NEW m, IsCoordinateMatrix(m), NEW k \in DOMAIN m.entries,
           NEW v \in Scalar
    PROVE  LET f == WithValue(m, k, v)
           IN  /\ IsCoordinateMatrix(f) /\ f.rows = m.rows
               /\ f.columns = m.columns /\ f.toAdd = m.toAdd
               /\ f.toRemove = m.toRemove
               /\ Len(f.entries) = Len(m.entries)
               /\ \A l \in DOMAIN m.entries :
                      Place(f.entries[l]) = Place(m.entries[l])
               /\ \A p : Total(m, f.entries, p) =
                      IF p = Place(m.entries[k]) THEN v
                      ELSE Total(m, m.entries, p)
<1> DEFINE f == WithValue(m, k, v)
           E == m.entries
           x == [E[k] EXCEPT !.value = v]
           F == f.entries
           M == MatrixEntries(m)
<1>1. /\ E \in Seq(M) /\ Len(E) \in Nat /\ DOMAIN E = 1..Len(E)
      /\ \A l \in DOMAIN E : E[l] \in M
      /\ IsAscending(E)
  BY MatrixFacts
<1>2. /\ x \in M /\ Place(x) = Place(E[k]) /\ x.value = v
      /\ x.row = E[k].row /\ x.column = E[k].column
  BY <1>1, EntryFacts
<1>3. /\ F = [E EXCEPT ![k] = x] /\ DOMAIN f = DOMAIN m
      /\ f.rows = m.rows /\ f.columns = m.columns /\ f.toAdd = m.toAdd
      /\ f.toRemove = m.toRemove /\ f.offsets = m.offsets
  BY MatrixFacts DEF WithValue
<1> HIDE DEF f, x
<1>4. /\ F \in Seq(M) /\ Len(F) = Len(E) /\ DOMAIN F = DOMAIN E
      /\ F[k] = x /\ \A l \in DOMAIN E : l # k => F[l] = E[l]
  <2>1. F \in Seq(M) /\ Len(F) = Len(E)
    BY <1>1, <1>2, <1>3, ExceptSeq
  <2> QED
    BY <1>1, <1>3, <2>1
<1>5. \A l \in DOMAIN E : /\ F[l].row = E[l].row /\ F[l].column = E[l].column
                          /\ Place(F[l]) = Place(E[l])
  BY <1>2, <1>4
<1>6. IsAscending(F)
  <2>1. \A l, n \in DOMAIN E : Precedes(F[l], F[n]) <=> Precedes(E[l], E[n])
    BY <1>5 DEF Precedes
  <2> QED
    BY <1>1, <1>4, <2>1 DEF IsAscending
<1>7. f.offsets = RowEntryOffsets(f)
  <2>1. \A r : {l \in DOMAIN F : F[l].row < r} = {l \in DOMAIN E : E[l].row < r}
    BY <1>4, <1>5
  <2>2. m.offsets = RowEntryOffsets(m)
    BY DEF IsCoordinateMatrix
  <2>3. RowEntryOffsets(f) = RowEntryOffsets(m)
    BY <1>3, <2>1 DEF RowEntryOffsets
  <2> QED
    BY <1>3, <2>2, <2>3
<1>8. IsCoordinateMatrix(f)
  <2>1. MatrixEntries(f) = M /\ Places(f) = Places(m)
    BY <1>3, SameShape
  <2> QED
    BY <1>3, <1>4, <1>6, <1>7, <2>1 DEF IsCoordinateMatrix
<1>9. ASSUME NEW p
      PROVE  Total(m, F, p) = IF p = Place(E[k]) THEN v ELSE Total(m, E, p)
  <2>1. /\ \A l \in DOMAIN E : Place(E[l]) = p => Total(m, E, p) = E[l].value
        /\ (\A l \in DOMAIN E : Place(E[l]) # p) => Total(m, E, p) = <<>>
    BY <1>1, TotalIsEntry
  <2>2. /\ \A l \in DOMAIN F : Place(F[l]) = p => Total(m, F, p) = F[l].value
        /\ (\A l \in DOMAIN F : Place(F[l]) # p) => Total(m, F, p) = <<>>
    BY <1>4, <1>6, TotalIsEntry
  <2>3. CASE p = Place(E[k])
    BY <1>2, <1>4, <2>2, <2>3
  <2>4. CASE p # Place(E[k])
    BY <1>4, <1>5, <2>1, <2>2, <2>4
  <2> QED
    BY <2>3, <2>4
<1> QED
  BY <1>3, <1>4, <1>5, <1>8, <1>9 DEF f

\* Equal shapes and places: what the values do not decide.
Alike(f, m) ==
    /\ IsCoordinateMatrix(f) /\ f.rows = m.rows /\ f.columns = m.columns
    /\ f.toAdd = m.toAdd /\ f.toRemove = m.toRemove
    /\ Len(f.entries) = Len(m.entries)
    /\ \A l \in DOMAIN m.entries : Place(f.entries[l]) = Place(m.entries[l])

LEMMA ReplacementFits ==
    ASSUME NEW m, IsCoordinateMatrix(m), NEW e \in MatrixEntries(m)
    PROVE  /\ Alike(ReplaceEntry(m, e), m)
           /\ EntryIsPresent(m, e.row, e.column) =>
                  \A p : Total(m, ReplaceEntry(m, e).entries, p) =
                      IF p = Place(e) THEN e.value ELSE Total(m, m.entries, p)
<1> DEFINE k == EntryOffset(m, e.row, e.column) + 1
           f == ReplaceEntry(m, e)
<1>1. e.row \in 1..m.rows /\ e.column \in 1..m.columns /\ e.value \in Scalar
  BY EntryFacts
<1>2. Place(e) = <<e.row, e.column>>
  BY DEF Place
<1>3. f = WithValue(m, k, e.value)
  BY DEF ReplaceEntry, WithValue
<1>4. EntryIsPresent(m, e.row, e.column) =>
          k \in DOMAIN m.entries /\ Place(m.entries[k]) = Place(e)
  BY <1>1, <1>2, EntryFound
<1> HIDE DEF k, f
<1>5. CASE k \in DOMAIN m.entries
  <2> DEFINE w == WithValue(m, k, e.value)
  <2>1. /\ IsCoordinateMatrix(w) /\ w.rows = m.rows
        /\ w.columns = m.columns /\ w.toAdd = m.toAdd
        /\ w.toRemove = m.toRemove /\ Len(w.entries) = Len(m.entries)
        /\ \A l \in DOMAIN m.entries :
               Place(w.entries[l]) = Place(m.entries[l])
        /\ \A p : Total(m, w.entries, p) =
               IF p = Place(m.entries[k]) THEN e.value
               ELSE Total(m, m.entries, p)
    BY <1>1, <1>5, ValueFits
  <2> HIDE DEF w
  <2>2. Alike(w, m)
    BY <2>1 DEF Alike
  <2>3. f = w
    BY <1>3 DEF w
  <2> QED
    BY <1>4, <2>1, <2>2, <2>3 DEF f
<1>6. CASE k \notin DOMAIN m.entries
  <2>1. /\ DOMAIN f = DOMAIN m
        /\ f.rows = m.rows /\ f.columns = m.columns /\ f.toAdd = m.toAdd
        /\ f.toRemove = m.toRemove /\ f.offsets = m.offsets
        /\ f.entries = [m.entries EXCEPT ![k].value = e.value]
    BY <1>3, MatrixFacts DEF WithValue
  <2>2. f.entries = m.entries
    BY <1>6, <2>1, MatrixFacts
  <2>3. MatrixEntries(f) = MatrixEntries(m) /\ Places(f) = Places(m)
    BY <2>1, SameShape
  <2>4. RowEntryOffsets(f) = RowEntryOffsets(m)
    BY <2>1, <2>2 DEF RowEntryOffsets
  <2>5. IsCoordinateMatrix(f)
    BY <2>1, <2>2, <2>3, <2>4 DEF IsCoordinateMatrix
  <2>6. Alike(f, m)
    BY <2>1, <2>2, <2>5 DEF Alike
  <2> QED
    BY <1>4, <1>6, <2>6 DEF f
<1> QED
  BY <1>5, <1>6

LEMMA AlikeFacts ==
    ASSUME NEW f, NEW m, IsCoordinateMatrix(m), Alike(f, m)
    PROVE  /\ MatrixEntries(f) = MatrixEntries(m) /\ Places(f) = Places(m)
           /\ \A s, p : Total(f, s, p) = Total(m, s, p)
           /\ CoordinateGraph(f) = CoordinateGraph(m)
           /\ \A g : Alike(g, f) => Alike(g, m)
           /\ \A e \in MatrixEntries(m) :
                  EntryIsPresent(f, e.row, e.column)
                      <=> EntryIsPresent(m, e.row, e.column)
<1>1. /\ MatrixEntries(f) = MatrixEntries(m) /\ Places(f) = Places(m)
      /\ \A s, p : Total(f, s, p) = Total(m, s, p)
  BY SameShape DEF Alike
<1>2. /\ DOMAIN m.entries = 1..Len(m.entries)
      /\ DOMAIN f.entries = 1..Len(m.entries)
      /\ \A k \in 1..Len(m.entries) : Place(f.entries[k]) = Place(m.entries[k])
  BY MatrixFacts DEF Alike
<1>3. CoordinateGraph(f) = CoordinateGraph(m)
  BY <1>2 DEF CoordinateGraph
<1>4. \A g : Alike(g, f) => Alike(g, m)
  BY <1>2 DEF Alike
<1>5. ASSUME NEW n, IsCoordinateMatrix(n), NEW e \in MatrixEntries(n)
      PROVE  EntryIsPresent(n, e.row, e.column)
                 <=> \E k \in DOMAIN n.entries : Place(n.entries[k]) = Place(e)
  <2>1. e.row \in 1..n.rows /\ e.column \in 1..n.columns
    BY EntryFacts
  <2>2. Place(e) = <<e.row, e.column>>
    BY DEF Place
  <2>3. \A k \in DOMAIN n.entries : Place(n.entries[k]) = <<e.row, e.column>>
            => EntryIsPresent(n, e.row, e.column)
    BY <1>5, <2>1, EntryFound
  <2>4. EntryIsPresent(n, e.row, e.column) =>
            \E k \in DOMAIN n.entries : Place(n.entries[k]) = <<e.row, e.column>>
    BY <1>5, <2>1, EntryFound
  <2> QED
    BY <2>2, <2>3, <2>4
<1>6. ASSUME NEW e \in MatrixEntries(m)
      PROVE  EntryIsPresent(f, e.row, e.column)
                 <=> EntryIsPresent(m, e.row, e.column)
  <2>1. EntryIsPresent(f, e.row, e.column)
            <=> \E k \in DOMAIN f.entries : Place(f.entries[k]) = Place(e)
    BY <1>1, <1>5 DEF Alike
  <2>2. EntryIsPresent(m, e.row, e.column)
            <=> \E k \in DOMAIN m.entries : Place(m.entries[k]) = Place(e)
    BY <1>5
  <2> QED
    BY <1>2, <2>1, <2>2
<1> QED
  BY <1>1, <1>3, <1>4, <1>6

\* Replacements take effect up to the first whose entry is not there; of two
\* for one place the last one counts.
Effective(m, es, k) ==
    \A j \in 1..k : EntryIsPresent(m, es[j].row, es[j].column)
Replacing(m, es, p, n) ==
    {k \in 1..n : Place(es[k]) = p /\ Effective(m, es, k)}

LEMMA ReplacementsFit ==
    ASSUME NEW m, IsCoordinateMatrix(m), NEW es \in Seq(MatrixEntries(m))
    PROVE  LET f == ReplaceEntries(m, es)
           IN  /\ Alike(f, m)
               /\ \A p : Total(m, f.entries, p) =
                      LET done == Replacing(m, es, p, Len(es))
                      IN  IF done = {} THEN Total(m, m.entries, p)
                          ELSE es[Max(done)].value
<1> DEFINE M == MatrixEntries(m)
           n == Len(es)
           U == {m.rows, m.columns, m.offsets, m.toAdd, m.toRemove} \cup Seq(M)
           V == {m} \cup {f \in [DOMAIN m -> U] : Alike(f, m)}
           E == M \X BOOLEAN
           step == [xe \in V \X E |->
                        IF xe[2][2] THEN ReplaceEntry(xe[1], xe[2][1]) ELSE xe[1]]
           s == [k \in 1..n |-> <<es[k], Effective(m, es, k)>>]
           Body(g) == [k \in 0..n |->
                           IF k = 0 THEN m
                           ELSE IF Effective(m, es, k)
                                THEN ReplaceEntry(g[k - 1], es[k])
                                ELSE g[k - 1]]
           done == CHOOSE g : g = Body(g)
<1>1. n \in Nat /\ \A k \in 1..n : es[k] \in M
  OBVIOUS
<1>2. \A x \in V : Alike(x, m)
  BY DEF Alike
<1>3. ASSUME NEW x \in V, NEW e \in M PROVE ReplaceEntry(x, e) \in V
  <2> DEFINE y == ReplaceEntry(x, e)
  <2>1. Alike(x, m) /\ MatrixEntries(x) = M
    BY <1>2, AlikeFacts
  <2>2. IsCoordinateMatrix(x)
    BY <2>1 DEF Alike
  <2>3. Alike(y, x)
    BY <2>1, <2>2, ReplacementFits
  <2>4. Alike(y, m)
    BY <2>1, <2>3, AlikeFacts
  <2>5. /\ DOMAIN y = DOMAIN m /\ y = [i \in DOMAIN y |-> y[i]]
    BY <2>2, MatrixFacts DEF ReplaceEntry
  <2> HIDE DEF y
  <2>6. MatrixEntries(y) = M
    BY <2>4, AlikeFacts
  <2>7. /\ y.rows \in U /\ y.columns \in U /\ y.toAdd \in U /\ y.toRemove \in U
        /\ y.entries \in U
    BY <2>4, <2>6, MatrixFacts DEF Alike
  <2>8. y.offsets \in U
    <3>1. IsCoordinateMatrix(y) /\ DOMAIN y.entries = DOMAIN m.entries
      BY <2>4, MatrixFacts DEF Alike
    <3>2. \A k \in DOMAIN m.entries : y.entries[k].row = m.entries[k].row
      BY <2>4 DEF Alike, Place
    <3>3. RowEntryOffsets(y) = RowEntryOffsets(m)
      <4>1. \A r : {k \in DOMAIN y.entries : y.entries[k].row < r}
                       = {k \in DOMAIN m.entries : m.entries[k].row < r}
        BY <3>1, <3>2
      <4> QED
        BY <2>4, <4>1 DEF RowEntryOffsets, Alike
    <3> QED
      BY <3>1, <3>3 DEF IsCoordinateMatrix
  <2>9. \A i \in DOMAIN y : y[i] \in U
    BY <2>5, <2>7, <2>8, MatrixFacts
  <2>10. y \in [DOMAIN m -> U]
    <3> HIDE DEF U
    <3> QED
      BY <2>5, <2>9
  <2> QED
    BY <2>4, <2>10 DEF y
<1>4. \A x \in V, e \in M, b \in BOOLEAN :
          /\ <<x, <<e, b>>>> \in V \X E
          /\ step[<<x, <<e, b>>>>] = IF b THEN ReplaceEntry(x, e) ELSE x
  OBVIOUS
<1>5. IsStep(step, V, E)
  <2> HIDE DEF V, M
  <2>1. \A xe \in V \X E : /\ xe[1] \in V /\ xe[2][1] \in M
    OBVIOUS
  <2>2. \A xe \in V \X E :
          (IF xe[2][2] THEN ReplaceEntry(xe[1], xe[2][1]) ELSE xe[1]) \in V
    BY <1>3, <2>1
  <2> QED
    BY <2>2 DEF IsStep
<1>6. s \in Seq(E) /\ Len(s) = n /\ m \in V
  <2>1. \A k \in 1..n : Effective(m, es, k) \in BOOLEAN
    BY DEF Effective
  <2> HIDE DEF n, M
  <2>2. s \in [1..n -> E]
    BY <1>1, <2>1
  <2> HIDE DEF s, E
  <2> QED
    BY <1>1, <2>2
<1> HIDE DEF U, V, M, E, step, s
<1>7. \E g : g = Body(g)
  <2>1. PICK g \in [0..n -> V] : IsLoop(g, s, m, step)
    BY <1>5, <1>6, LoopExists
  <2>2. \A k \in 0..n : k # 0 => g[k - 1] \in V /\ k \in 1..n
    BY <1>1
  <2>3. \A k \in 1..n : s[k] = <<es[k], Effective(m, es, k)>>
                         /\ Effective(m, es, k) \in BOOLEAN
    BY DEF s, Effective
  <2>4. \A k \in 0..n :
            (IF k = 0 THEN m ELSE step[<<g[k - 1], s[k]>>])
                = (IF k = 0 THEN m
                   ELSE IF Effective(m, es, k)
                        THEN ReplaceEntry(g[k - 1], es[k]) ELSE g[k - 1])
    <3> SUFFICES ASSUME NEW k \in 1..n
                 PROVE  step[<<g[k - 1], s[k]>>]
                            = IF Effective(m, es, k)
                              THEN ReplaceEntry(g[k - 1], es[k]) ELSE g[k - 1]
      BY <2>2
    <3>1. k \in 0..n /\ k # 0
      BY <1>1
    <3>2. es[k] \in M /\ g[k - 1] \in V
      BY <1>1, <2>2, <3>1
    <3> QED
      BY SMTT(30), <1>4, <2>3, <3>2
  <2>5. g = Body(g)
    BY <1>6, <2>1, <2>4 DEF IsLoop
  <2> QED
    BY <2>5
<1>8. done = Body(done)
  BY <1>7
<1>9. done[n] = ReplaceEntries(m, es)
  BY DEF ReplaceEntries, Effective
<1> HIDE DEF done
<1>10. /\ done[0] = m
       /\ \A k \in 1..n : done[k] = IF Effective(m, es, k)
                                    THEN ReplaceEntry(done[k - 1], es[k])
                                    ELSE done[k - 1]
  BY <1>1, <1>8
<1> HIDE DEF n
<1> DEFINE R(k, p) == Replacing(m, es, p, k)
           Right(k) ==
               /\ Alike(done[k], m)
               /\ \A p : Total(m, done[k].entries, p) =
                      IF R(k, p) = {} THEN Total(m, m.entries, p)
                      ELSE es[Max(R(k, p))].value
<1>11. Right(0)
  <2>1. \A p : R(0, p) = {}
    BY DEF Replacing
  <2>2. Alike(m, m)
    BY DEF Alike
  <2> HIDE DEF R
  <2> QED
    BY <1>10, <2>1, <2>2
<1>12. ASSUME NEW k \in 1..n, Right(k - 1) PROVE Right(k)
  <2> DEFINE d == done[k - 1]
             e == es[k]
             f == ReplaceEntry(d, e)
  <2>1. e \in M /\ Alike(d, m) /\ IsCoordinateMatrix(d) /\ MatrixEntries(d) = M
    BY <1>1, <1>12, AlikeFacts DEF Alike, M
  <2>2. \A p : R(k, p) = IF Place(e) = p /\ Effective(m, es, k)
                         THEN R(k - 1, p) \cup {k} ELSE R(k - 1, p)
    BY <1>1 DEF Replacing
  <2>3. \A p : R(k - 1, p) \subseteq 1..(k - 1)
    BY DEF Replacing
  <2>4. CASE Effective(m, es, k)
    <3>1. EntryIsPresent(m, e.row, e.column)
      BY <2>4 DEF Effective
    <3>2. EntryIsPresent(d, e.row, e.column)
      BY <2>1, <3>1, AlikeFacts DEF M
    <3>3. Alike(f, d) /\ \A p : Total(d, f.entries, p) =
              IF p = Place(e) THEN e.value ELSE Total(d, d.entries, p)
      BY <2>1, <3>2, ReplacementFits
    <3>4. /\ Alike(f, m) /\ \A t, p : Total(d, t, p) = Total(m, t, p)
          /\ done[k] = f
      BY <1>10, <2>1, <2>4, <3>3, AlikeFacts
    <3> HIDE DEF f, d, e
    <3>5. \A p : Total(m, f.entries, p) =
              IF p = Place(e) THEN e.value ELSE Total(m, d.entries, p)
      BY <3>3, <3>4
    <3>6. ASSUME NEW p PROVE Total(m, f.entries, p) =
              IF R(k, p) = {} THEN Total(m, m.entries, p)
              ELSE es[Max(R(k, p))].value
      <4>1. CASE p = Place(e)
        <5>1. /\ k \in R(k, p) /\ \A j \in R(k, p) : j <= k /\ j \in Int
          BY <1>1, <2>2, <2>3, <2>4, <4>1
        <5> HIDE DEF R
        <5>2. Max(R(k, p)) = k
          BY <5>1 DEF Max
        <5> QED
          BY <3>5, <4>1, <5>1, <5>2 DEF e
      <4>2. CASE p # Place(e)
        <5>1. R(k, p) = R(k - 1, p)
          BY <2>2, <4>2
        <5> HIDE DEF R
        <5> QED
          BY <1>12, <3>5, <4>2, <5>1 DEF d
      <4> QED
        BY <4>1, <4>2
    <3> HIDE DEF R
    <3> QED
      BY <3>4, <3>6
  <2>5. CASE ~Effective(m, es, k)
    <3>1. done[k] = d
      BY <1>10, <2>5
    <3>2. \A p : R(k, p) = R(k - 1, p)
      BY <2>2, <2>5
    <3> HIDE DEF R
    <3> QED
      BY <1>12, <3>1, <3>2
  <2> QED
    BY <2>4, <2>5
<1>13. Right(n)
  <2> HIDE DEF Right
  <2> DEFINE Wrong == {k \in 0..n : ~Right(k)}
  <2> SUFFICES ASSUME Wrong # {} PROVE FALSE
    BY <1>1
  <2>1. PICK k \in Wrong : \A j \in Wrong : k <= j
    <3> Wrong \subseteq Nat
      BY <1>1
    <3> HIDE DEF Wrong
    <3> QED
      BY LeastElement
  <2>2. k # 0
    BY <1>11, <2>1
  <2>3. k \in 1..n /\ k - 1 \in 0..n /\ k - 1 \notin Wrong
    BY <1>1, <2>1, <2>2
  <2> QED
    BY <1>12, <2>1, <2>3
<1> QED
  BY <1>9, <1>13 DEF n

-----------------------------------------------------------------------------
LEMMA QueueTallies ==
    ASSUME NEW m, NEW c, NEW r, Tallies(m, c, r), NEW e \in MatrixEntries(m)
    PROVE  /\ LET f == QueueEntryAddition(m, e)
              IN  /\ SameSize(f, m)
                  /\ Tallies(f, c,
                         [r EXCEPT !.added[Place(e)] = Added(@, e.value)])
           /\ LET f == QueueEntryRemoval(m, Place(e))
              IN  /\ SameSize(f, m)
                  /\ Tallies(f, c, [r EXCEPT !.removed = @ \cup {Place(e)}])
<1> DEFINE f == QueueEntryAddition(m, e)
           g == QueueEntryRemoval(m, Place(e))
<1>1. /\ IsCoordinateMatrix(m) /\ Place(e) \in Places(m)
      /\ c = [p \in Places(m) |-> Total(m, m.entries, p)]
      /\ r = [added |-> [p \in Places(m) |-> Total(m, m.toAdd, p)],
              removed |-> Range(m.toRemove)]
      /\ m.toAdd \in Seq(MatrixEntries(m)) /\ m.toRemove \in Seq(Places(m))
  BY MatrixFacts, EntryFacts DEF Tallies
<1>2. ASSUME NEW h, DOMAIN h = DOMAIN m, h.rows = m.rows, h.columns = m.columns,
             h.entries = m.entries, h.offsets = m.offsets,
             h.toAdd \in Seq(MatrixEntries(m)), h.toRemove \in Seq(Places(m))
      PROVE  /\ SameSize(h, m) /\ IsCoordinateMatrix(h) /\ Places(h) = Places(m)
             /\ \A s, p : Total(h, s, p) = Total(m, s, p)
  <2>1. /\ MatrixEntries(h) = MatrixEntries(m) /\ Places(h) = Places(m)
        /\ \A s, p : Total(h, s, p) = Total(m, s, p)
    BY <1>2, SameShape
  <2>2. RowEntryOffsets(h) = RowEntryOffsets(m)
    BY <1>2 DEF RowEntryOffsets
  <2> QED
    BY <1>1, <1>2, <2>1, <2>2 DEF IsCoordinateMatrix, SameSize
<1>3. /\ DOMAIN f = DOMAIN m /\ f.rows = m.rows /\ f.columns = m.columns
      /\ f.entries = m.entries /\ f.offsets = m.offsets
      /\ f.toAdd = Append(m.toAdd, e) /\ f.toRemove = m.toRemove
  BY <1>1, MatrixFacts DEF QueueEntryAddition
<1>4. /\ DOMAIN g = DOMAIN m /\ g.rows = m.rows /\ g.columns = m.columns
      /\ g.entries = m.entries /\ g.offsets = m.offsets
      /\ g.toAdd = m.toAdd /\ g.toRemove = Append(m.toRemove, Place(e))
  BY <1>1, MatrixFacts DEF QueueEntryRemoval
<1>5. Append(m.toAdd, e) \in Seq(MatrixEntries(m))
      /\ Append(m.toRemove, Place(e)) \in Seq(Places(m))
  BY <1>1
<1> HIDE DEF f, g
<1>6. SameSize(f, m) /\ Tallies(f, c,
          [r EXCEPT !.added[Place(e)] = Added(@, e.value)])
  <2>1. /\ SameSize(f, m) /\ IsCoordinateMatrix(f) /\ Places(f) = Places(m)
        /\ \A s, p : Total(f, s, p) = Total(m, s, p)
    BY <1>1, <1>2, <1>3, <1>5
  <2> DEFINE A == [p \in Places(m) |-> Total(m, m.toAdd, p)]
  <2>2. [A EXCEPT ![Place(e)] = Added(@, e.value)]
            = [p \in Places(m) |-> Total(m, Append(m.toAdd, e), p)]
    <3>1. \A p \in Places(m) : Total(m, Append(m.toAdd, e), p) =
              IF Place(e) = p THEN Added(A[p], e.value) ELSE A[p]
      BY <1>1, TotalAppend
    <3> QED
      BY <3>1
  <2>3. [r EXCEPT !.added[Place(e)] = Added(@, e.value)]
            = [added |-> [A EXCEPT ![Place(e)] = Added(@, e.value)],
               removed |-> Range(m.toRemove)]
    BY <1>1
  <2> QED
    BY <1>1, <1>3, <2>1, <2>2, <2>3 DEF Tallies
<1>7. SameSize(g, m)
      /\ Tallies(g, c, [r EXCEPT !.removed = @ \cup {Place(e)}])
  <2>1. /\ SameSize(g, m) /\ IsCoordinateMatrix(g) /\ Places(g) = Places(m)
        /\ \A s, p : Total(g, s, p) = Total(m, s, p)
    BY <1>1, <1>2, <1>4, <1>5
  <2>2. Range(Append(m.toRemove, Place(e))) = Range(m.toRemove) \cup {Place(e)}
    <3> DEFINE t == m.toRemove
               n == Len(t)
    <3>1. /\ n \in Nat /\ DOMAIN t = 1..n /\ DOMAIN Append(t, Place(e)) = 1..(n + 1)
          /\ \A k \in 1..n : Append(t, Place(e))[k] = t[k]
          /\ Append(t, Place(e))[n + 1] = Place(e)
      BY <1>1
    <3>2. \A k : k \in 1..(n + 1) <=> k \in 1..n \/ k = n + 1
      BY <3>1
    <3> HIDE DEF t, n
    <3> QED
      BY <3>1, <3>2 DEF Range, t
  <2> DEFINE A == [p \in Places(m) |-> Total(m, m.toAdd, p)]
             B == Range(m.toRemove)
             new == [r EXCEPT !.removed = @ \cup {Place(e)}]
  <2>3. new = [added |-> A, removed |-> B \cup {Place(e)}]
    <3>1. r = [added |-> A, removed |-> B]
      BY <1>1
    <3> HIDE DEF A, B
    <3> QED
      BY <3>1
  <2> HIDE DEF new
  <2>4. A = [p \in Places(g) |-> Total(g, g.toAdd, p)]
    BY <1>4, <2>1
  <2>5. c = [p \in Places(g) |-> Total(g, g.entries, p)]
    BY <1>1, <1>4, <2>1
  <2>6. Tallies(g, c, new)
    <3> HIDE DEF A, B
    <3> QED
      BY <1>4, <2>1, <2>2, <2>3, <2>4, <2>5 DEF Tallies, B
  <2> QED
    BY <2>1, <2>6 DEF new
<1> QED
  BY <1>6, <1>7 DEF f, g

LEMMA EmptyTallies ==
    ASSUME NEW m, IsCoordinateMatrix(m), EntryQueuesAreEmpty(m)
    PROVE  NoRequests(m) = [added |-> [p \in Places(m) |-> Total(m, m.toAdd, p)],
                            removed |-> Range(m.toRemove)]
<1>1. m.toAdd = <<>> /\ m.toRemove = <<>>
  BY DEF EntryQueuesAreEmpty
<1>2. Range(m.toRemove) = {}
  BY <1>1 DEF Range
<1>3. \A p \in Places(m) : Total(m, m.toAdd, p) = <<>>
  BY <1>1, TotalAppend
<1> QED
  BY <1>2, <1>3 DEF NoRequests

LEMMA FlushTallies ==
    ASSUME NEW m, NEW c, NEW r, Tallies(m, c, r)
    PROVE  LET f == FlushEntryQueues(m)
           IN  SameSize(f, m) /\ Tallies(f, Flushed(c, r), NoRequests(m))
<1> DEFINE f == FlushEntryQueues(m)
<1>1. /\ IsCoordinateMatrix(f) /\ EntryQueuesAreEmpty(f) /\ SameSize(f, m)
      /\ f.rows = m.rows /\ f.columns = m.columns
      /\ \A p : Total(m, f.entries, p) =
             Added(IF p \in Range(m.toRemove) THEN <<>>
                   ELSE Total(m, m.entries, p), Total(m, m.toAdd, p))
  BY FlushFits DEF Tallies, SameSize
<1> HIDE DEF f
<1>2. Places(f) = Places(m) /\ \A s, p : Total(f, s, p) = Total(m, s, p)
  BY <1>1, SameShape
<1>3. NoRequests(m) = NoRequests(f)
  BY <1>2 DEF NoRequests
<1>4. /\ DOMAIN c = Places(m)
      /\ \A p \in Places(m) : c[p] = Total(m, m.entries, p)
      /\ r.removed = Range(m.toRemove)
      /\ \A p \in Places(m) : r.added[p] = Total(m, m.toAdd, p)
  BY DEF Tallies
<1>5. Flushed(c, r) = [p \in Places(f) |-> Total(f, f.entries, p)]
  BY <1>1, <1>2, <1>4 DEF Flushed
<1>6. NoRequests(f) = [added |-> [p \in Places(f) |-> Total(f, f.toAdd, p)],
                       removed |-> Range(f.toRemove)]
  BY <1>1, EmptyTallies
<1> QED
  BY <1>1, <1>3, <1>5, <1>6 DEF Tallies, f

\* Values change at entries that are there; the queues stay as they are.
LEMMA ValuesTally ==
    ASSUME NEW m, NEW c, NEW r, Tallies(m, c, r), NEW f, Alike(f, m), NEW d,
           d = [p \in Places(m) |-> Total(m, f.entries, p)]
    PROVE  SameSize(f, m) /\ Tallies(f, d, r)
<1>1. /\ Places(f) = Places(m) /\ \A s, p : Total(f, s, p) = Total(m, s, p)
      /\ IsCoordinateMatrix(f) /\ SameSize(f, m)
      /\ f.toAdd = m.toAdd /\ f.toRemove = m.toRemove
  BY AlikeFacts DEF Tallies, Alike, SameSize
<1>2. d = [p \in Places(f) |-> Total(f, f.entries, p)]
  BY <1>1
<1>3. r = [added |-> [p \in Places(f) |-> Total(f, f.toAdd, p)],
           removed |-> Range(f.toRemove)]
  BY <1>1 DEF Tallies
<1> QED
  BY <1>1, <1>2, <1>3 DEF Tallies

LEMMA ChangeTallies ==
    ASSUME NEW m, NEW c, NEW r, Tallies(m, c, r), NEW e \in MatrixEntries(m),
           EntryIsPresent(m, e.row, e.column)
    PROVE  /\ LET f == ReplaceEntry(m, e)
              IN  /\ SameSize(f, m)
                  /\ Tallies(f, [c EXCEPT ![Place(e)] = e.value], r)
           /\ LET f == AddToEntry(m, e)
              IN  /\ SameSize(f, m)
                  /\ Tallies(f, [c EXCEPT ![Place(e)] = Plus(@, e.value)], r)
<1> DEFINE k == EntryOffset(m, e.row, e.column) + 1
           E == m.entries
<1>1. /\ IsCoordinateMatrix(m) /\ DOMAIN c = Places(m)
      /\ c = [p \in Places(m) |-> Total(m, E, p)]
  BY DEF Tallies
<1>2. /\ e.row \in 1..m.rows /\ e.column \in 1..m.columns /\ e.value \in Scalar
      /\ Place(e) \in Places(m) /\ Place(e) = <<e.row, e.column>>
  BY EntryFacts
<1>3. k \in DOMAIN E /\ Place(E[k]) = Place(e)
  BY <1>1, <1>2, EntryFound
<1>4. E[k].value \in Scalar /\ Total(m, E, Place(e)) = E[k].value
  BY <1>1, <1>3, MatrixFacts, EntryFacts, TotalIsEntry
<1>5. Plus(E[k].value, e.value) \in Scalar
  BY <1>2, <1>4, PlusLaws
<1>6. ReplaceEntry(m, e) = WithValue(m, k, e.value)
  BY DEF ReplaceEntry, WithValue
<1>7. AddToEntry(m, e) = WithValue(m, k, Plus(E[k].value, e.value))
  BY DEF AddToEntry, WithValue
<1> HIDE DEF k, E
<1>8. ASSUME NEW v \in Scalar
      PROVE  /\ SameSize(WithValue(m, k, v), m)
             /\ Tallies(WithValue(m, k, v), [c EXCEPT ![Place(e)] = v], r)
  <2> DEFINE f == WithValue(m, k, v)
             d == [c EXCEPT ![Place(e)] = v]
  <2>1. Alike(f, m) /\ \A p : Total(m, f.entries, p) =
                          IF p = Place(e) THEN v ELSE Total(m, E, p)
    <3>1. k \in DOMAIN m.entries
      BY <1>3 DEF E
    <3>2. /\ IsCoordinateMatrix(f) /\ f.rows = m.rows
          /\ f.columns = m.columns /\ f.toAdd = m.toAdd
          /\ f.toRemove = m.toRemove
          /\ Len(f.entries) = Len(m.entries)
          /\ \A l \in DOMAIN m.entries :
                 Place(f.entries[l]) = Place(m.entries[l])
          /\ \A p : Total(m, f.entries, p) =
                 IF p = Place(m.entries[k]) THEN v ELSE Total(m, m.entries, p)
      BY <1>1, <3>1, ValueFits
    <3> HIDE DEF f
    <3> QED
      BY <1>3, <3>2 DEF Alike, E
  <2> HIDE DEF f
  <2>2. d = [p \in Places(m) |-> Total(m, f.entries, p)]
    BY <1>1, <1>2, <2>1
  <2> HIDE DEF d
  <2>3. SameSize(f, m) /\ Tallies(f, d, r)
    BY <2>1, <2>2, ValuesTally
  <2> QED
    BY <2>3 DEF f, d
<1>9. [c EXCEPT ![Place(e)] = Plus(@, e.value)]
          = [c EXCEPT ![Place(e)] = Plus(E[k].value, e.value)]
  BY <1>1, <1>2, <1>4
<1> QED
  BY <1>2, <1>5, <1>6, <1>7, <1>8, <1>9

LEMMA ReplaceTallies ==
    ASSUME NEW m, NEW c, NEW r, Tallies(m, c, r),
           NEW es \in Seq(MatrixEntries(m))
    PROVE  LET f == ReplaceEntries(m, es)
           IN  /\ SameSize(f, m)
               /\ Tallies(f, [p \in DOMAIN c |->
                      LET done == Replacing(m, es, p, Len(es))
                      IN  IF done = {} THEN c[p] ELSE es[Max(done)].value], r)
<1> DEFINE f == ReplaceEntries(m, es)
           R(p) == Replacing(m, es, p, Len(es))
           d == [p \in DOMAIN c |-> IF R(p) = {} THEN c[p]
                                    ELSE es[Max(R(p))].value]
<1>1. IsCoordinateMatrix(m) /\ c = [p \in Places(m) |-> Total(m, m.entries, p)]
  BY DEF Tallies
<1>2. Alike(f, m) /\ \A p : Total(m, f.entries, p) =
          IF R(p) = {} THEN Total(m, m.entries, p) ELSE es[Max(R(p))].value
  BY <1>1, ReplacementsFit
<1> HIDE DEF f, R
<1>3. d = [p \in Places(m) |-> Total(m, f.entries, p)]
  BY <1>1, <1>2
<1> HIDE DEF d
<1>4. SameSize(f, m) /\ Tallies(f, d, r)
  BY <1>2, <1>3, ValuesTally
<1> QED
  BY <1>4 DEF f, d, R

\* The tables of a matrix that nothing is queued on.
LEMMA HeldTallies ==
    ASSUME NEW m, IsCoordinateMatrix(m), EntryQueuesAreEmpty(m)
    PROVE  Tallies(m, Held(m), NoRequests(m))
<1> DEFINE E == m.entries
<1>1. ASSUME NEW p \in Places(m)
      PROVE  Held(m)[p] = Total(m, E, p)
  <2>1. PICK i \in 1..m.rows, j \in 1..m.columns : p = <<i, j>>
    BY DEF Places
  <2>2. /\ \A k \in DOMAIN E : Place(E[k]) = p => Total(m, E, p) = E[k].value
        /\ (\A k \in DOMAIN E : Place(E[k]) # p) => Total(m, E, p) = <<>>
    BY MatrixFacts, TotalIsEntry
  <2>3. CASE p \in CoordinateGraph(m)
    <3>1. PICK k \in DOMAIN E : Place(E[k]) = p
      BY <2>3 DEF CoordinateGraph
    <3> DEFINE o == EntryOffset(m, i, j)
    <3>2. o + 1 = k
      BY <2>1, <3>1, EntryFound
    <3>3. o < Len(E)
      <4>1. k \in 1..Len(E) /\ Len(E) \in Nat
        BY MatrixFacts
      <4>2. o \in Nat
        BY EntryFound
      <4> QED
        BY <3>2, <4>1, <4>2
    <3>4. Value(m, i, j) = E[k].value
      BY <2>1, <3>1, <3>2, <3>3 DEF Value, EntryExists
    <3>5. Held(m)[p] = Value(m, i, j)
      BY <2>1, <2>3 DEF Held
    <3> QED
      BY <2>2, <3>1, <3>4, <3>5
  <2>4. CASE p \notin CoordinateGraph(m)
    <3>1. Total(m, E, p) = <<>>
      BY <2>2, <2>4 DEF CoordinateGraph
    <3> QED
      BY <2>4, <3>1 DEF Held
  <2> QED
    BY <2>3, <2>4
<1>2. Held(m) = [p \in Places(m) |-> Total(m, E, p)]
  <2>1. Held(m) = [p \in Places(m) |-> Held(m)[p]]
    BY DEF Held
  <2> QED
    BY <1>1, <2>1
<1> QED
  BY <1>2, EmptyTallies DEF Tallies

-----------------------------------------------------------------------------
(***************************************************************************)
(* Supernodes.                                                             *)
(***************************************************************************)
\* Supernodes follow one another.
LEMMA OffsetsAscend ==
    ASSUME NEW n \in Nat, NEW sizes, NEW offsets,
           \A i \in 1..n : sizes[i] \in Nat,
           \A i \in 1..(n + 1) : offsets[i] \in Nat,
           \A i \in 1..n : offsets[i + 1] = offsets[i] + sizes[i],
           NEW s \in 1..n, NEW t \in 1..(n + 1), s < t
    PROVE  offsets[s] + sizes[s] <= offsets[t]
<1> DEFINE Wrong == {u \in 1..(n + 1) : s < u /\
                        ~(offsets[s] + sizes[s] <= offsets[u])}
<1> SUFFICES ASSUME Wrong # {} PROVE FALSE
  OBVIOUS
<1>1. PICK u \in Wrong : \A v \in Wrong : u <= v
  <2> Wrong \subseteq Nat
    OBVIOUS
  <2> HIDE DEF Wrong
  <2> QED
    BY LeastElement
<1>2. /\ u - 1 \in 1..n /\ u - 1 \in 1..(n + 1) /\ s <= u - 1
      /\ ~(offsets[s] + sizes[s] <= offsets[u])
  BY <1>1
<1>3. offsets[(u - 1) + 1] = offsets[u - 1] + sizes[u - 1]
  BY <1>2
<1>4. offsets[u] = offsets[u - 1] + sizes[u - 1]
  BY <1>2, <1>3
<1>5. /\ sizes[u - 1] \in Nat /\ sizes[s] \in Nat
      /\ offsets[u - 1] \in Nat /\ offsets[s] \in Nat /\ offsets[u] \in Nat
  BY <1>2
<1>6. s # u - 1
  BY <1>2, <1>4, <1>5
<1>7. u - 1 \notin Wrong
  BY <1>1, <1>2
<1>8. offsets[s] + sizes[s] <= offsets[u - 1]
  BY <1>2, <1>6, <1>7
<1> QED
  BY <1>2, <1>4, <1>5, <1>8

LEMMA SupernodeFacts ==
    ASSUME NEW o, NEW columns, CutsIntoSupernodes(o, columns)
    PROVE  \E n \in Nat :
               /\ DOMAIN o.sizes = 1..n /\ Len(o.sizes) = n
               /\ \A i \in 1..n : o.sizes[i] \in Nat \ {0}
               /\ \A i \in 1..(n + 1) : o.offsets[i] \in Nat
               /\ \A i \in 1..n : o.offsets[i + 1] = o.offsets[i] + o.sizes[i]
               /\ o.offsets[1] = 0 /\ o.offsets[n + 1] = columns
<1> DEFINE sizes == o.sizes
           offsets == o.offsets
           n == Len(sizes)
<1>1. /\ sizes \in Seq(Nat \ {0}) /\ offsets \in Seq(Nat)
      /\ Len(offsets) = n + 1
      /\ \A s \in DOMAIN sizes : offsets[s + 1] = offsets[s] + sizes[s]
      /\ offsets[1] = 0 /\ offsets[n + 1] = columns
  BY DEF CutsIntoSupernodes
<1> HIDE DEF sizes, offsets
<1>2. /\ n \in Nat /\ DOMAIN sizes = 1..n
      /\ \A i \in 1..n : sizes[i] \in Nat \ {0}
      /\ \A i \in 1..(n + 1) : offsets[i] \in Nat
  BY <1>1
<1> QED
  BY <1>1, <1>2 DEF sizes, offsets

\* A column belongs to one supernode, and is a column of the matrix.
LEMMA ColumnsApart ==
    ASSUME NEW o, NEW columns, CutsIntoSupernodes(o, columns),
           NEW s \in DOMAIN o.sizes, NEW t \in DOMAIN o.sizes, s # t
    PROVE  ColumnsOf(o, s) \cap ColumnsOf(o, t) = {}
<1>1. PICK n \in Nat :
          /\ DOMAIN o.sizes = 1..n
          /\ \A i \in 1..n : o.sizes[i] \in Nat
          /\ \A i \in 1..(n + 1) : o.offsets[i] \in Nat
          /\ \A i \in 1..n : o.offsets[i + 1] = o.offsets[i] + o.sizes[i]
  BY SupernodeFacts
<1>2. s \in 1..n /\ t \in 1..n /\ s \in 1..(n + 1) /\ t \in 1..(n + 1)
  BY <1>1
<1>3. s < t => o.offsets[s] + o.sizes[s] <= o.offsets[t]
  BY <1>1, <1>2, OffsetsAscend
<1>4. t < s => o.offsets[t] + o.sizes[t] <= o.offsets[s]
  BY <1>1, <1>2, OffsetsAscend
<1>5. /\ o.offsets[s] \in Nat /\ o.sizes[s] \in Nat
      /\ o.offsets[t] \in Nat /\ o.sizes[t] \in Nat
  BY <1>1, <1>2
<1> QED
  BY <1>2, <1>3, <1>4, <1>5 DEF ColumnsOf

LEMMA ColumnsInside ==
    ASSUME NEW o, NEW columns, CutsIntoSupernodes(o, columns),
           NEW s \in DOMAIN o.sizes
    PROVE  /\ ColumnsOf(o, s) \subseteq 1..columns
           /\ o.offsets[s] \in Nat /\ o.sizes[s] \in Nat \ {0}
<1>1. PICK n \in Nat :
          /\ DOMAIN o.sizes = 1..n
          /\ \A i \in 1..n : o.sizes[i] \in Nat \ {0}
          /\ \A i \in 1..(n + 1) : o.offsets[i] \in Nat
          /\ \A i \in 1..n : o.offsets[i + 1] = o.offsets[i] + o.sizes[i]
          /\ o.offsets[n + 1] = columns
  BY SupernodeFacts
<1>2. s \in 1..n /\ s < n + 1 /\ n + 1 \in 1..(n + 1)
  BY <1>1
<1>3. \A i \in 1..n : o.sizes[i] \in Nat
  BY <1>1
<1>4. o.offsets[s] + o.sizes[s] <= columns
  BY <1>1, <1>2, <1>3, OffsetsAscend
<1>5. o.offsets[s] \in Nat /\ o.sizes[s] \in Nat \ {0} /\ columns \in Nat
  BY <1>1, <1>2
<1> QED
  BY <1>4, <1>5 DEF ColumnsOf

-----------------------------------------------------------------------------
(***************************************************************************)
(* The programs.                                                           *)
(***************************************************************************)
LEMMA ProblemFacts ==
    ASSUME NEW p \in Problems
    PROVE  /\ IsCoordinateMatrix(p.matrix) /\ EntryQueuesAreEmpty(p.matrix)
           /\ p.matrix.rows \in Nat
           /\ p.entries \subseteq MatrixEntries(p.matrix)
           /\ p.replacement \in Seq(MatrixEntries(p.matrix))
           /\ p.ordering.forest.roots # <<>> =>
                  CutsIntoSupernodes(p.ordering, p.matrix.rows)
BY SessionsAssumption DEF Problems, IsCoordinateMatrix

LEMMA InitIndInv == Init => IndInv
<1> SUFFICES ASSUME Init PROVE IndInv
  OBVIOUS
<1>1. session \in Sessions /\ session # <<>> /\ session \in Seq(Range(session))
  BY SessionsAssumption DEF Init
<1>2. Range(session) \subseteq Problems
  BY <1>1 DEF Problems
<1>3. session \in Seq(Problems)
  BY <1>1, <1>2
<1>4. problem \in Problems
  BY <1>1, <1>3 DEF problem
<1>5. SessionInv
  BY <1>1, <1>3, <1>4, ProblemFacts, HeldTallies
     DEF Init, SessionInv, problem, SameSize
<1>6. ObjectInv
  BY DEF Init, ObjectInv, NoLDL, NoOutcome
<1>7. TasksInv /\ LocksInv
  BY DEF Init, TasksInv, LocksInv, NoAnalysis
<1> QED
  BY <1>5, <1>6, <1>7 DEF IndInv, Init

\* Steps that leave the analysis alone, while it does not run.
LEMMA OutsideAnalysis ==
    ASSUME TasksInv, UNCHANGED tasks, phase' # "analyzing"
    PROVE  TasksInv' /\ LocksInv'
BY DEF TasksInv, LocksInv

-----------------------------------------------------------------------------
(***************************************************************************)
(* The analysis.                                                           *)
(***************************************************************************)
LEMMA BeginStep ==
    ASSUME IndInv, StartAnalysis
    PROVE  TasksInv' /\ LocksInv'
<1>1. /\ phase = "editing" /\ ordering.forest.roots # <<>>
      /\ ordering' = ordering /\ matrix' = matrix
      /\ BeginAnalysis(matrix, ordering)
  BY DEF StartAnalysis
<1>2. problem \in Problems
  BY DEF IndInv, SessionInv, problem
<1>3. CutsIntoSupernodes(ordering, matrix.rows) /\ matrix.rows \in Nat
  BY <1>1, <1>2, ProblemFacts DEF IndInv, SessionInv, SameSize
<1> DEFINE n == Len(ordering.sizes)
           first(s) == [column |-> ordering.offsets[s] + 1, next |-> "compute"]
<1>4. n \in Nat /\ DOMAIN ordering.sizes = 1..n
  BY <1>3, SupernodeFacts
<1>5. /\ DOMAIN tasks' = 1..n
      /\ \A s \in 1..n : tasks'[s] = first(s)
  <2>1. tasks' = <<>> \o [s \in 1..n |-> first(s)]
    BY <1>1, <1>4 DEF BeginAnalysis
  <2> HIDE DEF n
  <2> QED
    BY <1>4, <2>1
<1>6. DOMAIN parents' = 1..matrix.rows
  BY <1>1, <1>3 DEF BeginAnalysis, Resized
<1>7. \A column \in DOMAIN child_locks' : child_locks'[column] = FALSE
  BY <1>1, <1>3 DEF BeginAnalysis, Constant
<1>8. ASSUME NEW s \in 1..n PROVE first(s).column \in ColumnsOf(ordering, s)
  <2>1. ordering.offsets[s] \in Nat /\ ordering.sizes[s] \in Nat \ {0}
    BY <1>3, <1>4, ColumnsInside
  <2> QED
    BY <2>1 DEF ColumnsOf
<1> HIDE DEF n
<1>9. TasksInv'
  BY <1>1, <1>3, <1>4, <1>5, <1>6, <1>8 DEF TasksInv, ColumnsOf
<1>10. \A column : Holders(column)' = {}
  BY <1>5 DEF Holders
<1> QED
  BY <1>7, <1>9, <1>10 DEF LocksInv

\* What every step of a task needs of the others: they are at other columns,
\* and what comes next for the task is a column of its own.
LEMMA TaskFacts ==
    ASSUME TasksInv, phase = "analyzing", NEW s \in DOMAIN tasks
    PROVE  /\ tasks[s].column \in DOMAIN parents
           /\ \A t \in DOMAIN tasks : t # s => tasks[t].column # tasks[s].column
           /\ NextColumn(s) = [column |-> NextColumn(s).column,
                               next |-> NextColumn(s).next]
           /\ NextColumn(s).next \in {"compute", "done"}
           /\ NextColumn(s).column \in ColumnsOf(ordering, s)
<1> DEFINE o == ordering
<1>1. /\ CutsIntoSupernodes(o, matrix.rows)
      /\ DOMAIN tasks = DOMAIN o.sizes /\ DOMAIN parents = 1..matrix.rows
      /\ \A t \in DOMAIN tasks :
             /\ tasks[t] = [column |-> tasks[t].column, next |-> tasks[t].next]
             /\ tasks[t].column \in ColumnsOf(o, t)
  BY DEF TasksInv
<1>2. tasks[s].column \in DOMAIN parents
  BY <1>1, ColumnsInside
<1>3. ASSUME NEW t \in DOMAIN tasks, t # s
      PROVE  tasks[t].column # tasks[s].column
  <2>1. ColumnsOf(o, s) \cap ColumnsOf(o, t) = {}
    BY <1>1, <1>3, ColumnsApart
  <2> QED
    BY <1>1, <2>1
<1>4. o.offsets[s] \in Nat /\ o.sizes[s] \in Nat
  BY <1>1, ColumnsInside
<1>5. CASE tasks[s].column = o.offsets[s] + o.sizes[s]
  <2>1. NextColumn(s) = [tasks[s] EXCEPT !.next = "done"]
    BY <1>5 DEF NextColumn
  <2>2. NextColumn(s) = [column |-> tasks[s].column, next |-> "done"]
    BY <1>1, <2>1
  <2>3. NextColumn(s).column = tasks[s].column
    BY <2>2
  <2>4. NextColumn(s).column \in ColumnsOf(o, s)
    BY <1>1, <2>3
  <2> QED
    BY <1>2, <1>3, <2>2, <2>4
<1>6. CASE tasks[s].column # o.offsets[s] + o.sizes[s]
  <2>1. NextColumn(s) = [column |-> tasks[s].column + 1, next |-> "compute"]
    BY <1>6 DEF NextColumn
  <2>2. tasks[s].column + 1 \in ColumnsOf(o, s)
    <3>1. tasks[s].column \in (o.offsets[s] + 1)..(o.offsets[s] + o.sizes[s])
      BY <1>1 DEF ColumnsOf
    <3>2. tasks[s].column + 1
              \in (o.offsets[s] + 1)..(o.offsets[s] + o.sizes[s])
      BY <1>4, <1>6, <3>1
    <3> QED
      BY <3>2 DEF ColumnsOf
  <2>3. NextColumn(s).column \in ColumnsOf(o, s)
    BY <2>1, <2>2
  <2> QED
    BY <1>2, <1>3, <2>1, <2>3
<1> QED
  BY <1>5, <1>6

\* A task that moves on within its supernode.
LEMMA TaskMoves ==
    ASSUME TasksInv, phase = "analyzing", NEW s \in DOMAIN tasks, NEW column,
           NEW next \in {"compute", "link", "publish", "done"},
           column \in ColumnsOf(ordering, s),
           tasks' = [tasks EXCEPT ![s] = [column |-> column, next |-> next]],
           DOMAIN parents' = DOMAIN parents,
           UNCHANGED <<phase, matrix, ordering>>
    PROVE  TasksInv'
<1> DEFINE new == [column |-> column, next |-> next]
<1>1. /\ DOMAIN tasks' = DOMAIN tasks
      /\ \A t \in DOMAIN tasks : tasks'[t] = IF t = s THEN new ELSE tasks[t]
  OBVIOUS
<1>2. ColumnsOf(ordering, s)' = ColumnsOf(ordering, s)
      /\ \A t : ColumnsOf(ordering', t) = ColumnsOf(ordering, t)
  OBVIOUS
<1>3. new = [column |-> new.column, next |-> new.next]
      /\ new.next = next /\ new.column = column
  OBVIOUS
<1> HIDE DEF new
<1>4. ASSUME NEW t \in DOMAIN tasks
      PROVE  /\ tasks'[t].next \in {"compute", "link", "publish", "done"}
             /\ tasks'[t] = [column |-> tasks'[t].column,
                             next |-> tasks'[t].next]
             /\ tasks'[t].column \in ColumnsOf(ordering, t)
  BY <1>1, <1>3 DEF TasksInv
<1> QED
  BY <1>1, <1>2, <1>4 DEF TasksInv

\* A column is computed: its task does not hold a lock, before or after.
LEMMA ComputeStep ==
    ASSUME TasksInv, LocksInv, phase = "analyzing", NEW s \in DOMAIN tasks,
           ComputeColumn(s), UNCHANGED <<phase, matrix, ordering>>
    PROVE  TasksInv' /\ LocksInv'
<1> DEFINE column == tasks[s].column
<1>1. /\ tasks[s].next = "compute"
      /\ child_locks' = child_locks
  BY DEF ComputeColumn
<1>2. PICK parent : parents' = [parents EXCEPT ![column] = parent]
  BY DEF ComputeColumn
<1>3. /\ column \in DOMAIN parents /\ column \in ColumnsOf(ordering, s)
      /\ \A t \in DOMAIN tasks : t # s => tasks[t].column # column
      /\ tasks[s] = [column |-> column, next |-> "compute"]
  BY <1>1, TaskFacts DEF TasksInv
<1>4. \E c \in ColumnsOf(ordering, s), next \in {"compute", "link", "done"} :
          tasks' = [tasks EXCEPT ![s] = [column |-> c, next |-> next]]
  <2>1. \/ tasks' = [tasks EXCEPT ![s] = NextColumn(s)]
        \/ tasks' = [tasks EXCEPT ![s] = [@ EXCEPT !.next = "link"]]
    BY DEF ComputeColumn
  <2>2. [tasks[s] EXCEPT !.next = "link"] = [column |-> column, next |-> "link"]
    BY <1>3
  <2>3. CASE tasks' = [tasks EXCEPT ![s] = NextColumn(s)]
    BY <2>3, TaskFacts
  <2>4. CASE tasks' = [tasks EXCEPT ![s] = [@ EXCEPT !.next = "link"]]
    BY <1>3, <2>2, <2>4
  <2> QED
    BY <2>1, <2>3, <2>4
<1>5. PICK c \in ColumnsOf(ordering, s), next \in {"compute", "link", "done"} :
          tasks' = [tasks EXCEPT ![s] = [column |-> c, next |-> next]]
  BY <1>4
<1> HIDE DEF column
<1>6. TasksInv'
  BY <1>2, <1>5, TaskMoves
<1>7. /\ DOMAIN tasks' = DOMAIN tasks
      /\ \A t \in DOMAIN tasks :
             t # s => tasks'[t] = tasks[t]
                      /\ parents'[tasks[t].column] = parents[tasks[t].column]
      /\ tasks'[s].next # "publish"
  <2>1. \A t \in DOMAIN tasks : t # s =>
            parents'[tasks[t].column] = parents[tasks[t].column]
    BY <1>2, <1>3
  <2> QED
    BY <1>5, <2>1
<1>8. \A list : Holders(list)' = Holders(list)
  BY <1>1, <1>7 DEF Holders
<1> QED
  BY <1>1, <1>6, <1>8 DEF LocksInv

\* A free lock is taken: nobody was between linking and publishing.
LEMMA LinkStep ==
    ASSUME TasksInv, LocksInv, phase = "analyzing", NEW s \in DOMAIN tasks,
           LinkColumn(s), UNCHANGED <<phase, matrix, ordering>>
    PROVE  TasksInv' /\ LocksInv'
<1> DEFINE column == tasks[s].column
           parent == parents[column]
<1>1. /\ tasks[s].next = "link" /\ ~child_locks[parent]
      /\ child_locks' = [child_locks EXCEPT ![parent] = TRUE]
      /\ tasks' = [tasks EXCEPT ![s].next = "publish"]
      /\ parents' = parents
  BY DEF LinkColumn
<1>2. /\ column \in ColumnsOf(ordering, s)
      /\ tasks[s] = [column |-> column, next |-> "link"]
  BY <1>1 DEF TasksInv
<1>3. tasks' = [tasks EXCEPT ![s] = [column |-> column, next |-> "publish"]]
  <2>1. [tasks[s] EXCEPT !.next = "publish"]
            = [column |-> column, next |-> "publish"]
    BY <1>2
  <2> QED
    BY <1>1, <2>1
<1>4. TasksInv'
  BY <1>1, <1>2, <1>3, TaskMoves
<1>5. /\ DOMAIN tasks' = DOMAIN tasks
      /\ \A t \in DOMAIN tasks : t # s => tasks'[t] = tasks[t]
      /\ tasks'[s].next = "publish" /\ tasks'[s].column = column
  BY <1>3
<1>6. \A list : Holders(list)' = IF list = parent THEN Holders(list) \cup {s}
                                 ELSE Holders(list)
  <2> HIDE DEF column
  <2>1. tasks[s].next # "publish"
    BY <1>1
  <2>2. tasks[s].column = column
    BY DEF column
  <2> QED
    BY <1>1, <1>5, <2>1, <2>2 DEF Holders
<1>7. parent \in DOMAIN child_locks => Holders(parent) = {}
  BY <1>1 DEF LocksInv
<1> HIDE DEF parent
<1>8. ASSUME NEW list \in DOMAIN child_locks
      PROVE  IF child_locks'[list] THEN \E t : Holders(list)' = {t}
             ELSE Holders(list)' = {}
  <2>1. CASE list = parent
    <3>1. Holders(list)' = {s}
      BY <1>6, <1>7, <2>1
    <3>2. child_locks'[list]
      BY <1>1, <2>1
    <3> QED
      BY <3>1, <3>2
  <2>2. CASE list # parent
    <3>1. Holders(list)' = Holders(list)
      BY <1>6, <2>2
    <3>2. child_locks'[list] = child_locks[list]
      BY <1>1, <2>2
    <3> QED
      BY <3>1, <3>2 DEF LocksInv
  <2> QED
    BY <2>1, <2>2
<1>9. DOMAIN child_locks' = DOMAIN child_locks
  BY <1>1
<1> QED
  BY <1>4, <1>8, <1>9 DEF LocksInv

\* The task that publishes is the only one that holds the lock.
LEMMA PublishStep ==
    ASSUME TasksInv, LocksInv, phase = "analyzing", NEW s \in DOMAIN tasks,
           PublishColumn(s), UNCHANGED <<phase, matrix, ordering>>
    PROVE  TasksInv' /\ LocksInv'
<1> DEFINE column == tasks[s].column
           parent == parents[column]
<1>1. /\ tasks[s].next = "publish"
      /\ child_locks' = [child_locks EXCEPT ![parent] = FALSE]
      /\ tasks' = [tasks EXCEPT ![s] = NextColumn(s)]
      /\ parents' = parents
  BY DEF PublishColumn
<1>2. /\ NextColumn(s) = [column |-> NextColumn(s).column,
                          next |-> NextColumn(s).next]
      /\ NextColumn(s).next \in {"compute", "done"}
      /\ NextColumn(s).column \in ColumnsOf(ordering, s)
  BY TaskFacts
<1> DEFINE c == NextColumn(s).column
           next == NextColumn(s).next
<1>3. tasks' = [tasks EXCEPT ![s] = [column |-> c, next |-> next]]
  BY <1>1, <1>2
<1>4. TasksInv'
  <2> HIDE DEF c, next
  <2>1. c \in ColumnsOf(ordering, s)
        /\ next \in {"compute", "link", "publish", "done"}
    BY <1>2 DEF c, next
  <2> QED
    BY <1>1, <1>3, <2>1, TaskMoves
<1>5. /\ DOMAIN tasks' = DOMAIN tasks
      /\ \A t \in DOMAIN tasks : t # s => tasks'[t] = tasks[t]
      /\ tasks'[s].next # "publish"
  BY <1>1, <1>2
<1>6. \A list : Holders(list)' = Holders(list) \ {s}
  BY <1>1, <1>5 DEF Holders
<1>7. /\ s \in Holders(parent)
      /\ \A list : list # parent => s \notin Holders(list)
  BY <1>1 DEF Holders
<1> HIDE DEF parent
<1>8. ASSUME NEW list \in DOMAIN child_locks
      PROVE  IF child_locks'[list] THEN \E t : Holders(list)' = {t}
             ELSE Holders(list)' = {}
  <2>1. CASE list = parent
    <3>1. \E t : Holders(list) = {t}
      BY <1>7, <2>1 DEF LocksInv
    <3>2. Holders(list)' = {}
      BY <1>6, <1>7, <2>1, <3>1
    <3>3. ~child_locks'[list]
      BY <1>1, <2>1
    <3> QED
      BY <3>2, <3>3
  <2>2. CASE list # parent
    <3>1. Holders(list)' = Holders(list)
      BY <1>6, <1>7, <2>2
    <3>2. child_locks'[list] = child_locks[list]
      BY <1>1, <2>2
    <3> QED
      BY <3>1, <3>2 DEF LocksInv
  <2> QED
    BY <2>1, <2>2
<1>9. DOMAIN child_locks' = DOMAIN child_locks
  BY <1>1
<1> QED
  BY <1>4, <1>8, <1>9 DEF LocksInv

LEMMA AnalysisTaskStep ==
    ASSUME IndInv, AnalysisStep
    PROVE  TasksInv' /\ LocksInv'
<1>1. /\ phase = "analyzing" /\ UNCHANGED <<phase, matrix, ordering>>
      /\ TasksInv /\ LocksInv
  BY DEF AnalysisStep, IndInv
<1>2. PICK s \in DOMAIN tasks :
          ComputeColumn(s) \/ LinkColumn(s) \/ PublishColumn(s)
  BY DEF AnalysisStep, TaskStep
<1> QED
  BY <1>1, <1>2, ComputeStep, LinkStep, PublishStep

-----------------------------------------------------------------------------
(***************************************************************************)
(* The object and the matrix.                                              *)
(***************************************************************************)
\* A record with a status, and one of these four.
Statuses == {"empty", "symbolic", "factored", "failed"}
HasStatus(l) == "status" \in DOMAIN l /\ l.status \in Statuses

LEMMA JudgedStatus ==
    ASSUME NEW l, "status" \in DOMAIN l
    PROVE  HasStatus(Judged(l))
BY DEF Judged, HasStatus, Statuses

LEMMA ResultStatus ==
    ASSUME NEW l, NEW scaling, NEW result, "status" \in DOMAIN l
    PROVE  HasStatus(WithResult(l, scaling, result))
<1> DEFINE r == [l EXCEPT
        !.factor = IF l.isSupernodal THEN WithNumbers(@, result.factor)
                   ELSE result.factor,
        !.scaling = scaling, !.pivots = result.pivots,
        !.regularization = RescaledRegularization(result.regularization,
                                                  scaling)]
<1>1. "status" \in DOMAIN r
  OBVIOUS
<1>2. WithResult(l, scaling, result) = Judged(r)
  BY DEF WithResult
<1> HIDE DEF r
<1> QED
  BY <1>1, <1>2, JudgedStatus

LEMMA AnalyzedStatus ==
    ASSUME NEW l, NEW m, NEW o, NEW forest, NEW control, NEW deferred
    PROVE  HasStatus(AnalyzePattern(l, m, o, forest, control, deferred))
BY DEF AnalyzePattern, WithSymbolicFactor, NoLDL, HasStatus, Statuses

LEMMA FactoredStatus ==
    ASSUME NEW l, NEW m, NEW o, NEW forest, NEW control, NEW deferred
    PROVE  HasStatus(FactorSupernodal(l, m, o, forest, control, deferred))
<1> DEFINE analyzed == AnalyzePattern(l, m, o, forest, control, deferred)
<1>1. "status" \in DOMAIN analyzed
  BY AnalyzedStatus DEF HasStatus
<1> HIDE DEF analyzed
<1>2. \A scaling : HasStatus(FactorAnalyzed(analyzed, m, scaling))
  BY <1>1, ResultStatus DEF FactorAnalyzed
<1> QED
  BY <1>2 DEF FactorSupernodal, analyzed

LEMMA ScalarStatus ==
    ASSUME NEW m, NEW o, NEW control
    PROVE  HasStatus(FactorScalar(m, o, control))
<1>1. "status" \in DOMAIN [NoLDL EXCEPT !.control = control]
  BY DEF NoLDL
<1> QED
  BY <1>1, ResultStatus DEF FactorScalar

LEMMA RefactoredStatus ==
    ASSUME NEW l, HasStatus(l), NEW m, NEW input
    PROVE  /\ HasStatus(RefactorWithFixedSparsityPattern(l, m))
           /\ HasStatus(RefactorBlocks(l, input))
<1>1. "status" \in DOMAIN l /\ "status" \in DOMAIN [l EXCEPT !.input = input]
  BY DEF HasStatus
<1>2. HasStatus(RefactorWithFixedSparsityPattern(l, m))
  BY <1>1, ResultStatus DEF RefactorWithFixedSparsityPattern
<1>3. HasStatus(RefactorBlocks(l, input))
  BY <1>1, ResultStatus DEF RefactorBlocks
<1> QED
  BY <1>2, <1>3

LEMMA CopiedStatus ==
    ASSUME NEW l, HasStatus(l), NEW size
    PROVE  HasStatus(ExpandedLDL(l, size)) /\ HasStatus(Clone(l))
BY DEF HasStatus, Statuses, ExpandedLDL, Clone

-----------------------------------------------------------------------------
(***************************************************************************)
(* Every step.                                                             *)
(***************************************************************************)
EditStep == QueueAddition \/ QueueRemoval \/ AddAtOnce \/ ChangeValue \/ Flush

\* Every edit, and the flush, leaves tables that tell what has been asked for.
LEMMA EditTallies ==
    ASSUME SessionInv, EditStep
    PROVE  /\ SameSize(matrix', problem.matrix)
           /\ Tallies(matrix', contents', requests')
<1> DEFINE m == matrix
           c == contents
           r == requests
           added(e) == [r EXCEPT !.added[Place(e)] = Added(@, e.value)]
<1>1. Tallies(m, c, r) /\ SameSize(m, problem.matrix)
  BY DEF SessionInv
<1>2. problem.entries \subseteq MatrixEntries(m)
  <2>1. problem \in Problems
    BY DEF SessionInv, problem
  <2>2. MatrixEntries(m) = MatrixEntries(problem.matrix)
    BY <1>1 DEF SameSize, MatrixEntries
  <2> QED
    BY <2>1, <2>2, ProblemFacts
<1>3. SUFFICES SameSize(matrix', m) /\ Tallies(matrix', contents', requests')
  BY <1>1 DEF SameSize
<1>4. CASE QueueAddition
  <2>1. PICK e \in problem.entries :
            /\ matrix' = QueueEntryAddition(m, e) /\ requests' = added(e)
            /\ contents' = c
    BY <1>4 DEF QueueAddition
  <2> QED
    BY <1>1, <1>2, <2>1, QueueTallies
<1>5. CASE QueueRemoval
  <2>1. PICK e \in problem.entries :
            /\ matrix' = QueueEntryRemoval(m, Place(e)) /\ contents' = c
            /\ requests' = [r EXCEPT !.removed = @ \cup {Place(e)}]
    BY <1>5 DEF QueueRemoval
  <2> QED
    BY <1>1, <1>2, <2>1, QueueTallies
<1>6. CASE AddAtOnce
  <2>1. PICK e \in problem.entries :
            /\ matrix' = FlushEntryQueues(QueueEntryAddition(m, e))
            /\ contents' = Flushed(c, added(e))
    BY <1>6 DEF AddAtOnce, AddEntry
  <2>2. requests' = NoRequests(m)
    BY <1>6 DEF AddAtOnce
  <2> DEFINE q == QueueEntryAddition(m, e)
  <2>3. SameSize(q, m) /\ Tallies(q, c, added(e))
    BY <1>1, <1>2, QueueTallies
  <2> HIDE DEF q
  <2>4. /\ SameSize(FlushEntryQueues(q), q)
        /\ Tallies(FlushEntryQueues(q), Flushed(c, added(e)), NoRequests(q))
    BY <2>3, FlushTallies
  <2>5. NoRequests(q) = NoRequests(m)
    BY <2>3 DEF SameSize, NoRequests, Places
  <2>6. matrix' = FlushEntryQueues(q)
    BY <2>1 DEF q
  <2> QED
    BY <2>1, <2>2, <2>3, <2>4, <2>5, <2>6 DEF SameSize
<1>7. CASE ChangeValue
  <2>1. PICK e \in problem.entries :
            /\ EntryIsPresent(m, e.row, e.column)
            /\ \/ /\ matrix' = ReplaceEntry(m, e)
                  /\ contents' = [c EXCEPT ![Place(e)] = e.value]
               \/ /\ matrix' = AddToEntry(m, e)
                  /\ contents' = [c EXCEPT ![Place(e)] = Plus(@, e.value)]
    BY <1>7 DEF ChangeValue
  <2>2. requests' = r
    BY <1>7 DEF ChangeValue
  <2>3. e \in MatrixEntries(m)
    BY <1>2
  <2>4. /\ SameSize(ReplaceEntry(m, e), m) /\ SameSize(AddToEntry(m, e), m)
        /\ Tallies(ReplaceEntry(m, e), [c EXCEPT ![Place(e)] = e.value], r)
        /\ Tallies(AddToEntry(m, e),
                   [c EXCEPT ![Place(e)] = Plus(@, e.value)], r)
    BY <1>1, <2>1, <2>3, ChangeTallies
  <2> HIDE DEF m, c, r
  <2> QED
    BY <2>1, <2>2, <2>4
<1>8. CASE Flush
  <2>1. /\ matrix' = FlushEntryQueues(m) /\ contents' = Flushed(c, r)
        /\ requests' = NoRequests(m)
    BY <1>8 DEF Flush
  <2> QED
    BY <1>1, <2>1, FlushTallies
<1> QED
  BY <1>4, <1>5, <1>6, <1>7, <1>8 DEF EditStep

LEMMA ReplaceStep ==
    ASSUME SessionInv, Replace
    PROVE  /\ SameSize(matrix', problem.matrix)
           /\ Tallies(matrix', contents', requests')
<1> DEFINE es == problem.replacement
           new == [p \in DOMAIN contents |->
                      LET done == Replacing(matrix, es, p, Len(es))
                      IN  IF done = {} THEN contents[p] ELSE es[Max(done)].value]
<1>1. Tallies(matrix, contents, requests) /\ SameSize(matrix, problem.matrix)
  BY DEF SessionInv
<1>2. es \in Seq(MatrixEntries(matrix))
  <2>1. problem \in Problems
    BY DEF SessionInv, problem
  <2>2. MatrixEntries(matrix) = MatrixEntries(problem.matrix)
    BY <1>1 DEF SameSize, MatrixEntries
  <2> QED
    BY <2>1, <2>2, ProblemFacts
<1>3. /\ matrix' = ReplaceEntries(matrix, es) /\ requests' = requests
      /\ contents' = [p \in DOMAIN contents |->
             IF ReplacedAt(p) = {} THEN contents[p]
             ELSE es[Max(ReplacedAt(p))].value]
  BY DEF Replace
<1>4. \A p : ReplacedAt(p) = Replacing(matrix, es, p, Len(es))
  <2>1. DOMAIN es = 1..Len(es)
    BY <1>2
  <2> HIDE DEF es
  <2> QED
    BY <2>1 DEF ReplacedAt, Replacing, Effective, es
<1> HIDE DEF es
<1>5. contents' = new
  BY <1>3, <1>4
<1>6. /\ SameSize(ReplaceEntries(matrix, es), matrix)
      /\ Tallies(ReplaceEntries(matrix, es), new, requests)
  BY <1>1, <1>2, ReplaceTallies
<1> HIDE DEF new
<1> QED
  BY <1>1, <1>3, <1>5, <1>6 DEF SameSize

LEMMA SessionStep ==
    ASSUME IndInv, Next
    PROVE  SessionInv'
<1>1. /\ session \in Seq(Problems) /\ session # <<>>
      /\ ordering = problem.ordering /\ SessionInv
      /\ SameSize(matrix, problem.matrix)
      /\ Tallies(matrix, contents, requests)
  BY DEF IndInv, SessionInv
<1>2. CASE NextProblem
  <2> DEFINE m == session[2].matrix
  <2>1. /\ session' = Tail(session) /\ Len(session) > 1
        /\ matrix' = m /\ ordering' = session[2].ordering
        /\ contents' = Held(m) /\ requests' = NoRequests(m)
    BY <1>2 DEF NextProblem
  <2>2. /\ session' \in Seq(Problems) /\ session' # <<>>
        /\ Head(session') = session[2] /\ session[2] \in Problems
    <3>1. /\ Tail(session) \in Seq(Problems)
          /\ Len(Tail(session)) = Len(session) - 1 /\ Len(session) \in Nat
      BY <1>1
    <3>2. Tail(session)[1] = session[2] /\ session[2] \in Problems
      BY <1>1, <2>1, <3>1
    <3>3. Tail(session) # <<>>
      <4>1. Len(Tail(session)) # 0
        BY <2>1, <3>1
      <4>2. Len(<<>>) = 0
        OBVIOUS
      <4> QED
        BY <4>1, <4>2
    <3> QED
      BY <2>1, <3>1, <3>2, <3>3
  <2>3. Tallies(m, Held(m), NoRequests(m))
    BY <2>2, ProblemFacts, HeldTallies
  <2> HIDE DEF m
  <2>4. Tallies(matrix', contents', requests')
    BY <2>1, <2>3
  <2>5. problem' = session[2]
    BY <2>2 DEF problem
  <2>6. SameSize(matrix', problem.matrix')
    BY <2>1, <2>5 DEF SameSize, m
  <2> QED
    BY <2>1, <2>2, <2>4, <2>5, <2>6 DEF SessionInv
<1>3. CASE EditStep
  <2>1. session' = session /\ ordering' = ordering
    BY <1>3 DEF EditStep, QueueAddition, QueueRemoval, AddAtOnce, ChangeValue,
                Flush, Edit
  <2>2. /\ SameSize(matrix', problem.matrix)
        /\ Tallies(matrix', contents', requests')
    BY <1>1, <1>3, EditTallies
  <2> QED
    BY <1>1, <2>1, <2>2 DEF SessionInv, problem
<1>4. CASE Replace
  <2>1. session' = session /\ ordering' = ordering
    BY <1>4 DEF Replace
  <2>2. /\ SameSize(matrix', problem.matrix)
        /\ Tallies(matrix', contents', requests')
    BY <1>1, <1>4, ReplaceStep
  <2> QED
    BY <1>1, <2>1, <2>2 DEF SessionInv, problem
<1>5. CASE \/ DrawSample \/ StartAnalysis \/ AnalysisStep
           \/ EndAnalysis \/ SequentialAnalysis
           \/ Analyzed \/ Factored \/ FactoredWithoutSupernodes \/ Expand
           \/ CloneObject \/ RefactorFromArrays
           \/ RefactorFromMatrix \/ SolveSystem \/ RefineSystem
  <2>1. /\ session' = session /\ ordering' = ordering /\ matrix' = matrix
        /\ contents' = contents /\ requests' = requests
    BY <1>5 DEF DrawSample, StartAnalysis, AnalysisStep, EndAnalysis,
                SequentialAnalysis, Analyzed, Factored,
                FactoredWithoutSupernodes, Expand, CloneObject,
                RefactorFromArrays, RefactorFromMatrix, SolveSystem,
                RefineSystem, Becomes, Renewed, editing
  <2>2. SameSize(matrix', problem.matrix) /\ Tallies(matrix', contents', requests')
    BY <1>1, <2>1
  <2> QED
    BY <1>1, <2>1, <2>2 DEF SessionInv, problem
<1> QED
  BY <1>2, <1>3, <1>4, <1>5 DEF Next, EditStep

LEMMA ObjectStep ==
    ASSUME IndInv, Next
    PROVE  ObjectInv'
<1> DEFINE kinds == {"none", "threw", "solved", "refined", "sampled"}
<1>1. HasStatus(ldl) /\ outcome.kind \in kinds
  BY DEF IndInv, ObjectInv, HasStatus, Statuses
<1>2. SUFFICES HasStatus(ldl') /\ outcome'.kind \in kinds
  BY DEF ObjectInv, HasStatus, Statuses
<1>3. NoOutcome.kind = "none"
  BY DEF NoOutcome
<1>4. CASE EditStep \/ StartAnalysis \/ AnalysisStep \/ EndAnalysis
           \/ SequentialAnalysis
  <2>1. ldl' = ldl /\ outcome' = outcome
    BY <1>4 DEF EditStep, QueueAddition, QueueRemoval, AddAtOnce, ChangeValue,
                Flush, Edit, StartAnalysis, AnalysisStep, EndAnalysis,
                SequentialAnalysis, solving
  <2> QED
    BY <1>1, <2>1
<1>5. CASE DrawSample
  <2>1. ldl' = ldl /\ outcome'.kind = "sampled"
    BY <1>5 DEF DrawSample
  <2> QED
    BY <1>1, <2>1
<1>6. CASE Analyzed \/ Factored \/ FactoredWithoutSupernodes \/ Expand
           \/ CloneObject
  <2>1. \E l, a : HasStatus(l) /\ Becomes(l, a)
    BY <1>1, <1>6, AnalyzedStatus, FactoredStatus, ScalarStatus, CopiedStatus
       DEF Analyzed, Factored, FactoredWithoutSupernodes, Expand, CloneObject
  <2> QED
    BY <1>3, <2>1 DEF Becomes
<1>7. CASE RefactorFromArrays \/ RefactorFromMatrix
  <2>1. \E l, a : HasStatus(l) /\ Renewed(l, a)
    BY <1>1, <1>7, RefactoredStatus DEF RefactorFromArrays, RefactorFromMatrix
  <2> QED
    BY <1>3, <2>1 DEF Renewed
<1>8. CASE Replace \/ NextProblem
  <2>1. ldl' = ldl /\ outcome' = NoOutcome
    BY <1>8 DEF Replace, NextProblem
  <2> QED
    BY <1>1, <1>3, <2>1
<1>9. CASE SolveSystem \/ RefineSystem
  <2>1. ldl' = ldl
    BY <1>9 DEF SolveSystem, RefineSystem
  <2>2. CASE SolveSystem
    <3>1. \/ outcome' = [kind |-> "threw"]
          \/ \E b, parallel, x :
                 outcome' = [kind |-> "solved", b |-> b, parallel |-> parallel,
                             solution |-> x]
      BY <2>2 DEF SolveSystem
    <3> QED
      BY <1>1, <2>1, <3>1
  <2>3. CASE RefineSystem
    <3>1. \E b, system, control, first, status :
              outcome' = [kind |-> "refined", b |-> b, system |-> system,
                          control |-> control, first |-> first,
                          status |-> status]
      BY <2>3 DEF RefineSystem
    <3> QED
      BY <1>1, <2>1, <3>1
  <2> QED
    BY <1>9, <2>2, <2>3
<1> QED
  BY <1>4, <1>5, <1>6, <1>7, <1>8, <1>9 DEF Next, EditStep

LEMMA TasksStep ==
    ASSUME IndInv, Next
    PROVE  /\ TasksInv' /\ LocksInv'
           /\ phase' \in {"editing", "analyzing", "analyzed", "ready"}
<1>1. CASE StartAnalysis
  BY <1>1, BeginStep DEF StartAnalysis
<1>2. CASE AnalysisStep
  BY <1>2, AnalysisTaskStep DEF AnalysisStep
<1>3. CASE EditStep \/ DrawSample
  <2>1. phase' = "editing" /\ tasks' = tasks
    BY <1>3 DEF EditStep, QueueAddition, QueueRemoval, AddAtOnce, ChangeValue,
                Flush, Edit, DrawSample, analysis
  <2> QED
    BY <2>1, OutsideAnalysis DEF IndInv
<1>4. CASE EndAnalysis \/ SequentialAnalysis
  <2>1. phase' = "analyzed" /\ tasks' = tasks
    BY <1>4 DEF EndAnalysis, SequentialAnalysis, AnalyzeSequentially, analysis
  <2> QED
    BY <2>1, OutsideAnalysis DEF IndInv
<1>5. CASE \/ Analyzed \/ Factored \/ FactoredWithoutSupernodes \/ Expand
           \/ CloneObject \/ RefactorFromArrays \/ Replace
           \/ RefactorFromMatrix \/ SolveSystem \/ RefineSystem
  <2>1. phase' = "ready" /\ tasks' = tasks
    BY <1>5 DEF Analyzed, Factored, FactoredWithoutSupernodes, Expand,
                CloneObject, RefactorFromArrays, Replace, RefactorFromMatrix,
                SolveSystem, RefineSystem, MaySolveNow, Becomes, Renewed,
                analysis
  <2> QED
    BY <2>1, OutsideAnalysis DEF IndInv
<1>6. CASE NextProblem
  <2>1. phase' = "editing" /\ tasks' = tasks
    BY <1>6 DEF NextProblem, analysis
  <2> QED
    BY <2>1, OutsideAnalysis DEF IndInv
<1> QED
  BY <1>1, <1>2, <1>3, <1>4, <1>5, <1>6 DEF Next, EditStep

LEMMA StutterStep ==
    ASSUME IndInv, UNCHANGED vars
    PROVE  IndInv'
BY ZenonT(40)
DEF IndInv, SessionInv, ObjectInv, TasksInv, LocksInv, Holders, problem,
    Tallies, SameSize, vars, analysis, editing, solving, ColumnsOf

LEMMA IndInvHolds == Spec => []IndInv
<1>1. IndInv /\ [Next]_vars => IndInv'
  BY SessionStep, ObjectStep, TasksStep, StutterStep DEF IndInv
<1> QED
  BY <1>1, InitIndInv, PTL DEF Spec

-----------------------------------------------------------------------------
\* While the tasks of a parallel analysis hang columns into lists of children,
\* a list is locked if and only if one task is between reading and replacing
\* its head, and never two; each is at a column of its own supernode; and what
\* any calls leave in the object has a status (the parallel analysis of
\* supernode_utils, and SparseLDL).
THEOREM TypeCorrect == Spec => []TypeOK
<1>1. IndInv => TypeOK
  <2> SUFFICES ASSUME IndInv PROVE TypeOK
    OBVIOUS
  <2>1. ASSUME phase = "analyzing", NEW column \in DOMAIN child_locks
        PROVE  Cardinality(Holders(column))
                   = (IF child_locks[column] THEN 1 ELSE 0)
    <3>1. CASE child_locks[column]
      <4>1. PICK s : Holders(column) = {s}
        BY <2>1, <3>1 DEF IndInv, LocksInv
      <4> QED
        BY <3>1, <4>1, FS_Singleton
    <3>2. CASE ~child_locks[column]
      BY <2>1, <3>2, FS_EmptySet DEF IndInv, LocksInv
    <3> QED
      BY <3>1, <3>2
  <2> QED
    BY <2>1 DEF IndInv, ObjectInv, TasksInv, TypeOK, Holders
<1> QED
  BY <1>1, IndInvHolds, PTL

-----------------------------------------------------------------------------
(***************************************************************************)
(* What the matrix holds.                                                  *)
(***************************************************************************)
\* The places of the matrix are those where its table has a value.
LEMMA EntriesAreTold ==
    ASSUME IndInv
    PROVE  EditsApplied
<1> DEFINE m == matrix
           E == matrix.entries
           P == {p \in Places(m) : contents[p] # <<>>}
<1>1. /\ IsCoordinateMatrix(m) /\ DOMAIN contents = Places(m)
      /\ \A p \in Places(m) : contents[p] = Total(m, E, p)
  BY DEF IndInv, SessionInv, Tallies
<1>2. /\ E \in Seq(MatrixEntries(m)) /\ IsAscending(E) /\ Len(E) \in Nat
      /\ DOMAIN E = 1..Len(E) /\ m.rows \in Nat
      /\ \A k \in DOMAIN E : E[k] \in MatrixEntries(m)
      /\ \A row \in 1..(m.rows + 1) :
             m.offsets[row] = Cardinality({k \in DOMAIN E : E[k].row < row})
  BY <1>1, MatrixFacts
<1>3. \A p : /\ \A k \in DOMAIN E : Place(E[k]) = p => Total(m, E, p) = E[k].value
             /\ (\A k \in DOMAIN E : Place(E[k]) # p) => Total(m, E, p) = <<>>
  BY <1>2, TotalIsEntry
<1>4. \A k \in DOMAIN E : /\ Place(E[k]) \in Places(m) /\ E[k].value # <<>>
                          /\ Place(E[k])[1] = E[k].row
  BY <1>2, EntryFacts, ScalarIsValue DEF Place
<1> HIDE DEF m, E
<1>5. \A k \in DOMAIN E : E[k].value = contents[Place(E[k])]
  BY <1>1, <1>3, <1>4
<1>6. P = {Place(E[k]) : k \in DOMAIN E}
  <2>1. \A k \in DOMAIN E : Place(E[k]) \in P
    BY <1>4, <1>5
  <2>2. \A p \in P : \E k \in DOMAIN E : Place(E[k]) = p
    BY <1>1, <1>3
  <2> QED
    BY <2>1, <2>2
<1>7. \A k \in DOMAIN E : k > 1 => Precedes(E[k - 1], E[k])
  <2>1. \A k \in DOMAIN E : k > 1 => k - 1 \in DOMAIN E /\ k - 1 < k
    BY <1>2
  <2> QED
    BY <1>2, <2>1 DEF IsAscending
<1>8. \A k, l \in DOMAIN E : Place(E[k]) = Place(E[l]) => k = l
  <2> SUFFICES ASSUME NEW k \in DOMAIN E, NEW l \in DOMAIN E, k < l
               PROVE  Place(E[k]) # Place(E[l])
    BY <1>2
  <2> QED
    BY <1>2, PrecedesOrders DEF IsAscending
<1>9. ASSUME NEW row \in 1..(m.rows + 1)
      PROVE  m.offsets[row] = Cardinality({p \in Places(m) :
                                   p[1] < row /\ contents[p] # <<>>})
  <2> DEFINE T == {k \in DOMAIN E : E[k].row < row}
             Q == {p \in Places(m) : p[1] < row /\ contents[p] # <<>>}
             f == [k \in T |-> Place(E[k])]
  <2>1. Q = {Place(E[k]) : k \in T}
    <3>1. Q = {p \in P : p[1] < row}
      OBVIOUS
    <3> HIDE DEF P
    <3> QED
      BY <1>4, <1>6, <3>1
  <2>2. f \in Bijection(T, Q)
    <3>1. f \in [T -> Q]
      BY <2>1
    <3>2. \A a, b \in T : f[a] = f[b] => a = b
      BY <1>8
    <3>3. \A q \in Q : \E a \in T : f[a] = q
      BY <2>1
    <3> HIDE DEF f
    <3>4. f \in Injection(T, Q)
      BY <3>1, <3>2 DEF Injection, IsInjective
    <3>5. f \in Surjection(T, Q)
      BY <3>1, <3>3 DEF Surjection
    <3> QED
      BY <3>4, <3>5 DEF Bijection
  <2>3. IsFiniteSet(T)
    <3>1. IsFiniteSet(DOMAIN E)
      BY <1>2, FS_Interval
    <3> QED
      BY <3>1, FS_Subset
  <2> HIDE DEF f, T, Q
  <2>4. Cardinality(T) = Cardinality(Q)
    BY <2>2, <2>3, FS_Bijection DEF ExistsBijection
  <2> QED
    BY <1>2, <2>4 DEF T, Q
<1>10. E \in Seq(Range(E))
  <2>1. \A k \in DOMAIN E : E[k] \in Range(E)
    BY DEF Range
  <2> QED
    BY <1>2, <2>1
<1> QED
  BY <1>5, <1>6, <1>7, <1>9, <1>10 DEF EditsApplied, CoordinateGraph, m, E

\* Whatever was queued, flushed, added, replaced and removed, and in whichever
\* order, the matrix holds at every place what these calls ask for, each place
\* once and in order, and its offsets count what it holds (CoordinateMatrix).
THEOREM EditsHold == Spec => []EditsApplied
<1>1. IndInv => EditsApplied
  BY EntriesAreTold
<1> QED
  BY <1>1, IndInvHolds, PTL

-----------------------------------------------------------------------------
(***************************************************************************)
(* What an ordering separates.                                             *)
(***************************************************************************)
\* Where a problem may come to have entries.
MayHold(p) == CoordinateGraph(p.matrix) \cup {Place(e) : e \in p.entries}

\* An ordering that comes with a forest fits its matrix, and the entries that
\* the matrix may be edited with join no more supernodes.
OrderingsFit ==
    \A p \in Problems : p.ordering.forest.roots # <<>> =>
        /\ Separates(p.matrix, p.ordering)
        /\ \A q \in MayHold(p) :
               Related(p.ordering,
                       SupernodeOf(p.ordering, p.ordering.permutation[q[1]]),
                       SupernodeOf(p.ordering, p.ordering.permutation[q[2]]))

\* While a matrix is edited, entries are and will be where they may come to be.
InsideInv ==
    phase = "editing" =>
        \A p \in Places(matrix) :
            contents[p] # <<>> \/ requests.added[p] # <<>> => p \in MayHold(problem)

\* The places of a matrix that nothing is queued on.
LEMMA HeldInside ==
    ASSUME NEW p \in Problems, NEW q \in Places(p.matrix)
    PROVE  /\ Held(p.matrix)[q] # <<>> => q \in MayHold(p)
           /\ NoRequests(p.matrix).added[q] = <<>>
BY DEF Held, NoRequests, MayHold

LEMMA EditsStayInside ==
    ASSUME SessionInv, InsideInv, EditStep
    PROVE  InsideInv'
<1>1. /\ phase = "editing" /\ problem' = problem
      /\ SameSize(matrix', matrix) /\ Places(matrix') = Places(matrix)
  <2>1. phase = "editing" /\ session' = session
    BY DEF EditStep, QueueAddition, QueueRemoval, AddAtOnce, ChangeValue,
           Flush, Edit
  <2>2. SameSize(matrix', matrix)
    BY EditTallies DEF SessionInv, SameSize
  <2> QED
    BY <2>1, <2>2 DEF problem, SameSize, Places
<1>2. /\ DOMAIN contents = Places(matrix)
      /\ \A p \in Places(matrix) : contents[p] \in Values
      /\ DOMAIN requests.added = Places(matrix)
      /\ \A p \in Places(matrix) : requests.added[p] \in Values
      /\ \A A : [requests EXCEPT !.added = A].added = A
      /\ \A R : [requests EXCEPT !.removed = R].added = requests.added
  <2>1. matrix.entries \in Seq(MatrixEntries(matrix))
        /\ matrix.toAdd \in Seq(MatrixEntries(matrix))
    BY MatrixFacts DEF SessionInv, Tallies
  <2> QED
    BY <2>1, TotalAppend DEF SessionInv, Tallies
<1>3. \A p \in Places(matrix) :
          contents[p] # <<>> \/ requests.added[p] # <<>> => p \in MayHold(problem)
  BY <1>1 DEF InsideInv
<1>4. SUFFICES \A p \in Places(matrix) :
          contents'[p] # <<>> \/ requests'.added[p] # <<>> => p \in MayHold(problem)
  BY <1>1 DEF InsideInv
<1>5. \A p : NoRequests(matrix).added[p] = <<>> \/ p \notin Places(matrix)
  BY DEF NoRequests
<1> DEFINE added(e) == [requests.added EXCEPT ![Place(e)] = Added(@, e.value)]
<1>6. ASSUME NEW e \in problem.entries, NEW p \in Places(matrix),
             added(e)[p] # <<>>
      PROVE  p \in MayHold(problem)
  BY <1>2, <1>3, <1>6 DEF MayHold
<1>7. ASSUME NEW r, NEW p \in Places(matrix), Flushed(contents, r)[p] # <<>>
      PROVE  contents[p] # <<>> \/ r.added[p] # <<>>
  BY <1>2, <1>7 DEF Flushed, Added
<1>8. CASE QueueAddition
  <2>1. PICK e \in problem.entries :
            /\ requests' = [requests EXCEPT !.added[Place(e)] = Added(@, e.value)]
            /\ contents' = contents
    BY <1>8 DEF QueueAddition
  <2>2. requests'.added = added(e)
    BY <1>2, <2>1
  <2> HIDE DEF added
  <2> QED
    BY <1>3, <1>6, <2>1, <2>2
<1>9. CASE QueueRemoval
  <2>1. \E place : requests' = [requests EXCEPT !.removed = @ \cup {place}]
    BY <1>9 DEF QueueRemoval
  <2>2. requests'.added = requests.added /\ contents' = contents
    BY <1>2, <1>9, <2>1 DEF QueueRemoval
  <2> QED
    BY <1>3, <2>2
<1>10. CASE AddAtOnce
  <2>1. PICK e \in problem.entries : contents' = Flushed(contents,
            [requests EXCEPT !.added[Place(e)] = Added(@, e.value)])
    BY <1>10 DEF AddAtOnce
  <2> DEFINE r == [requests EXCEPT !.added[Place(e)] = Added(@, e.value)]
  <2>2. r.added = added(e)
    BY <1>2
  <2>3. requests' = NoRequests(matrix)
    BY <1>10 DEF AddAtOnce
  <2>4. contents' = Flushed(contents, r)
    BY <2>1
  <2> HIDE DEF r, added
  <2> QED
    BY <1>3, <1>5, <1>6, <1>7, <2>2, <2>3, <2>4
<1>11. CASE ChangeValue
  <2>1. PICK e \in problem.entries :
            /\ \E v : contents' = [contents EXCEPT ![Place(e)] = v]
            /\ requests' = requests
    BY <1>11 DEF ChangeValue
  <2>2. Place(e) \in MayHold(problem)
    BY DEF MayHold
  <2> QED
    BY <1>2, <1>3, <2>1, <2>2
<1>12. CASE Flush
  <2>1. /\ contents' = Flushed(contents, requests)
        /\ requests' = NoRequests(matrix)
    BY <1>12 DEF Flush
  <2> QED
    BY <1>3, <1>5, <1>7, <2>1
<1> QED
  BY <1>8, <1>9, <1>10, <1>11, <1>12 DEF EditStep

LEMMA InsideStep ==
    ASSUME IndInv, InsideInv, [Next]_vars
    PROVE  InsideInv'
<1>1. CASE EditStep
  BY <1>1, EditsStayInside DEF IndInv
<1>2. CASE UNCHANGED vars \/ DrawSample
  <2>1. UNCHANGED <<session, phase, matrix, contents, requests>>
    BY <1>2 DEF vars, editing, DrawSample
  <2> QED
    BY <2>1 DEF InsideInv, problem, Places
<1>3. CASE NextProblem
  <2> DEFINE p == session[2]
  <2>1. /\ session' = Tail(session) /\ Len(session) > 1
        /\ matrix' = p.matrix /\ contents' = Held(p.matrix)
        /\ requests' = NoRequests(p.matrix)
    BY <1>3 DEF NextProblem
  <2>2. p \in Problems /\ problem' = p
    <3>1. session \in Seq(Problems)
      BY DEF IndInv, SessionInv
    <3>2. Head(Tail(session)) = session[2] /\ session[2] \in Problems
      BY <2>1, <3>1
    <3> QED
      BY <2>1, <3>2 DEF problem
  <2> HIDE DEF p
  <2> QED
    BY <2>1, <2>2, HeldInside DEF InsideInv
<1>4. CASE Next /\ ~EditStep /\ ~DrawSample /\ ~NextProblem
  <2>1. phase' # "editing"
    BY <1>4 DEF Next, EditStep, StartAnalysis, AnalysisStep, EndAnalysis,
                SequentialAnalysis, Analyzed, Factored,
                FactoredWithoutSupernodes, Expand, CloneObject,
                RefactorFromArrays, Replace, RefactorFromMatrix, SolveSystem,
                RefineSystem, MaySolveNow, Becomes, Renewed
  <2> QED
    BY <2>1 DEF InsideInv
<1> QED
  BY <1>1, <1>2, <1>3, <1>4

\* Edits never join two supernodes that an ordering keeps apart: if the entries
\* that a program edits with respect its orderings, so does every matrix that
\* it comes to (NestedDissectionOrdering's forest, given to the analysis).
THEOREM OrderingsKeepSeparating ==
    ASSUME OrderingsFit
    PROVE  Spec => []OrderingSeparates
<1>1. Init => InsideInv
  <2> SUFFICES ASSUME Init PROVE InsideInv
    OBVIOUS
  <2>1. IndInv
    BY InitIndInv
  <2>2. problem \in Problems
    BY <2>1 DEF IndInv, SessionInv, problem
  <2>3. /\ matrix = problem.matrix /\ contents = Held(problem.matrix)
        /\ requests = NoRequests(problem.matrix)
    BY DEF Init
  <2> HIDE DEF problem
  <2> QED
    BY <2>2, <2>3, HeldInside DEF InsideInv
<1>2. IndInv /\ InsideInv => OrderingSeparates
  <2> SUFFICES ASSUME IndInv, InsideInv, phase = "editing",
                      ordering.forest.roots # <<>>
               PROVE  Separates(matrix, ordering)
    BY DEF OrderingSeparates
  <2>1. /\ problem \in Problems /\ ordering = problem.ordering
        /\ SameSize(matrix, problem.matrix)
    BY DEF IndInv, SessionInv, problem
  <2>2. /\ Separates(problem.matrix, ordering)
        /\ \A q \in MayHold(problem) :
               Related(ordering,
                       SupernodeOf(ordering, ordering.permutation[q[1]]),
                       SupernodeOf(ordering, ordering.permutation[q[2]]))
    BY <2>1 DEF OrderingsFit
  <2>3. CoordinateGraph(matrix) \subseteq MayHold(problem)
    <3>1. EditsApplied
      BY EntriesAreTold
    <3> QED
      BY <3>1 DEF EditsApplied, InsideInv
  <2> QED
    BY <2>1, <2>2, <2>3 DEF Separates, SameSize
<1>3. IndInv /\ InsideInv /\ [Next]_vars => InsideInv'
  BY InsideStep
<1> QED
  BY <1>1, <1>2, <1>3, IndInvHolds, PTL DEF Spec

-----------------------------------------------------------------------------
(***************************************************************************)
(* Least and largest indices.                                              *)
(***************************************************************************)
\* A set of indices that is not empty has a largest element.
LEMMA LargestIndex ==
    ASSUME NEW n \in Nat, NEW S, S \subseteq 0..n, S # {}
    PROVE  \E x \in S : \A y \in S : y <= x
<1> DEFINE T == {n - x : x \in S}
<1>1. T \subseteq Nat /\ T # {}
  <2>1. \A x \in S : n - x \in Nat
    OBVIOUS
  <2> QED
    BY <2>1
<1>2. PICK t \in T : \A u \in T : t <= u
  BY <1>1, LeastElement
<1>3. PICK x \in S : t = n - x
  BY <1>2
<1>4. \A y \in S : n - x <= n - y
  BY <1>2, <1>3
<1> QED
  BY <1>3, <1>4

LEMMA MinFacts ==
    ASSUME NEW S, S \subseteq Nat, S # {}
    PROVE  Min(S) \in S /\ \A y \in S : Min(S) <= y
BY LeastElement DEF Min

-----------------------------------------------------------------------------
(***************************************************************************)
(* Lines of a forest.                                                      *)
(***************************************************************************)
\* line[s] is what is met from s on upwards.
AreLines(line, up, n) ==
    /\ \A s \in 1..n : up[s] = None \/ (up[s] \in 1..n /\ up[s] > s)
    /\ \A s \in 1..n : line[s] = {s} \cup (IF up[s] = None THEN {}
                                           ELSE line[up[s]])

\* What does not hold of every index fails for a last one.
LEMMA FromAbove ==
    ASSUME NEW n \in Nat, NEW A, A \subseteq 1..n,
           \A s \in A : \E t \in A : t > s
    PROVE  A = {}
<1> SUFFICES ASSUME A # {} PROVE FALSE
  OBVIOUS
<1>1. A \subseteq 0..n
  OBVIOUS
<1>2. PICK s \in A : \A t \in A : t <= s
  BY <1>1, LargestIndex
<1> QED
  BY <1>2

LEMMA LinesClimb ==
    ASSUME NEW n \in Nat, NEW line, NEW up, AreLines(line, up, n)
    PROVE  \A s \in 1..n : s \in line[s] /\ line[s] \subseteq s..n
<1> DEFINE Wrong == {s \in 1..n : ~(line[s] \subseteq s..n)}
<1>1. ASSUME NEW s \in Wrong PROVE \E t \in Wrong : t > s
  BY <1>1 DEF AreLines
<1>2. Wrong = {}
  <2> Wrong \subseteq 1..n
    OBVIOUS
  <2> HIDE DEF Wrong
  <2> QED
    BY <1>1, FromAbove
<1> QED
  BY <1>2 DEF AreLines

\* Of two on a line the later is on the line of the other.
LEMMA LinesNest ==
    ASSUME NEW n \in Nat, NEW line, NEW up, AreLines(line, up, n),
           NEW u \in 1..n, NEW s \in line[u], NEW t \in line[u], s <= t
    PROVE  t \in line[s]
<1> DEFINE Good(v) == \A x, y \in line[v] : x <= y => y \in line[x]
           Wrong == {v \in 1..n : ~Good(v)}
<1>1. ASSUME NEW v \in Wrong PROVE \E w \in Wrong : w > v
  <2>1. PICK x \in line[v], y \in line[v] : x <= y /\ y \notin line[x]
    BY <1>1
  <2>2. v \in 1..n /\ x \in v..n /\ y \in v..n
    BY <1>1, <2>1, LinesClimb
  <2>3. x # v
    BY <2>1
  <2>4. y # v
    BY <2>1, <2>2, <2>3
  <2>5. /\ up[v] \in 1..n /\ up[v] > v
        /\ x \in line[up[v]] /\ y \in line[up[v]]
    BY <2>1, <2>2, <2>3, <2>4 DEF AreLines, None
  <2> QED
    BY <2>1, <2>5
<1>2. Wrong = {}
  <2> Wrong \subseteq 1..n
    OBVIOUS
  <2> HIDE DEF Wrong
  <2> QED
    BY <1>1, FromAbove
<1> QED
  BY <1>2

\* The way up to another index goes through a child of that index.
LEMMA LinesArrive ==
    ASSUME NEW n \in Nat, NEW line, NEW up, AreLines(line, up, n),
           NEW s \in 1..n, NEW t \in line[s], t # s
    PROVE  \E c \in 1..n : up[c] = t /\ c \in line[s]
<1> DEFINE Good(v) == \A x \in line[v] : x # v =>
                          \E c \in 1..n : up[c] = x /\ c \in line[v]
           Wrong == {v \in 1..n : ~Good(v)}
<1>1. ASSUME NEW v \in Wrong PROVE \E w \in Wrong : w > v
  <2>1. PICK x \in line[v] :
            x # v /\ ~\E c \in 1..n : up[c] = x /\ c \in line[v]
    BY <1>1
  <2>2. v \in 1..n /\ v \in line[v]
    BY <1>1, LinesClimb
  <2>3. /\ up[v] \in 1..n /\ up[v] > v /\ x \in line[up[v]]
        /\ line[up[v]] \subseteq line[v]
    BY <2>1, <2>2 DEF AreLines, None
  <2>4. x # up[v]
    BY <2>1, <2>2
  <2>5. up[v] \in Wrong
    BY <2>1, <2>3, <2>4
  <2> QED
    BY <2>3, <2>5
<1>2. Wrong = {}
  <2> Wrong \subseteq 1..n
    OBVIOUS
  <2> HIDE DEF Wrong
  <2> QED
    BY <1>1, FromAbove
<1> QED
  BY <1>2

-----------------------------------------------------------------------------
(***************************************************************************)
(* Fill.                                                                   *)
(***************************************************************************)
\* F[j] is the rows below j after the elimination of the columns before j,
\* own[j] those before it.
IsFill(F, own, n) ==
    /\ F \in [1..n -> SUBSET (1..n)]
    /\ \A j \in 1..n : own[j] \subseteq F[j] /\ \A i \in F[j] : i > j
    /\ \A k \in 1..n : \A i, j \in F[k] : i > j => i \in F[j]
    /\ \A j \in 1..n : \A i \in F[j] :
           i \in own[j] \/ \E k \in 1..n : k < j /\ i \in F[k] /\ j \in F[k]

\* The children of a column in the elimination forest.
Kids(F, n, j) == {k \in 1..n : F[k] # {} /\ Min(F[k]) = j}

LEMMA KidFacts ==
    ASSUME NEW n \in Nat, NEW F, NEW own, IsFill(F, own, n),
           NEW j \in 1..n, NEW k \in Kids(F, n, j)
    PROVE  /\ k \in 1..n /\ k < j /\ j \in F[k]
           /\ \A i \in F[k] : i # j => i \in F[j]
<1>1. k \in 1..n /\ F[k] \subseteq 1..n /\ F[k] # {} /\ Min(F[k]) = j
  BY DEF Kids, IsFill
<1>2. j \in F[k] /\ \A i \in F[k] : j <= i
  BY <1>1, MinFacts
<1>3. ASSUME NEW i \in F[k], i # j PROVE i \in F[j]
  <2>1. i > j
    BY <1>1, <1>2, <1>3
  <2> QED
    BY <1>1, <1>2, <2>1 DEF IsFill
<1> QED
  BY <1>1, <1>2, <1>3 DEF IsFill

\* A column has the rows of its children besides its own.
LEMMA ChildrenBringFill ==
    ASSUME NEW n \in Nat, NEW F, NEW own, IsFill(F, own, n), NEW j \in 1..n
    PROVE  F[j] = (own[j] \cup UNION {F[k] : k \in Kids(F, n, j)}) \ {j}
<1>1. ASSUME NEW i \in F[j], i \notin own[j]
      PROVE  \E k \in Kids(F, n, j) : i \in F[k]
  <2> DEFINE W == {k \in 1..n : k < j /\ i \in F[k] /\ j \in F[k]}
  <2>1. W # {} /\ W \subseteq 0..n
    BY <1>1 DEF IsFill
  <2>2. PICK k \in W : \A l \in W : l <= k
    <3> HIDE DEF W
    <3> QED
      BY <2>1, LargestIndex
  <2>3. k \in 1..n /\ k < j /\ i \in F[k] /\ j \in F[k] /\ F[k] \subseteq 1..n
    BY <2>2 DEF IsFill
  <2> DEFINE p == Min(F[k])
  <2>4. p \in F[k] /\ p <= j
    BY <2>3, MinFacts
  <2> HIDE DEF p
  <2>5. p \in 1..n /\ p > k /\ i > j /\ i \in 1..n
    BY <1>1, <2>3, <2>4 DEF IsFill
  <2>6. CASE p = j
    BY <2>3, <2>6 DEF Kids, p
  <2>7. CASE p # j
    <3>1. p < j /\ p < i
      BY <2>4, <2>5, <2>7
    <3>2. j \in F[p] /\ i \in F[p]
      BY <2>3, <2>4, <2>5, <3>1 DEF IsFill
    <3>3. p \in W
      BY <2>5, <3>1, <3>2
    <3> QED
      BY <2>2, <2>3, <2>5, <3>3
  <2> QED
    BY <2>6, <2>7
<1>2. \A k \in Kids(F, n, j) : F[k] \subseteq F[j] \cup {j}
  BY KidFacts
<1>3. own[j] \subseteq F[j] /\ j \notin F[j]
  BY DEF IsFill
<1> QED
  BY <1>1, <1>2, <1>3

\* Fill stays on the lines that the entries are on.
LEMMA FillOnLines ==
    ASSUME NEW n \in Nat, NEW F, NEW own, IsFill(F, own, n),
           NEW m \in Nat, NEW line, NEW up, AreLines(line, up, m),
           NEW at, \A i \in 1..n : at[i] \in 1..m,
           \A i, j \in 1..n : i <= j => at[i] <= at[j],
           \A j \in 1..n : \A i \in own[j] : at[i] \in line[at[j]]
    PROVE  \A j \in 1..n : \A i \in F[j] : at[i] \in line[at[j]]
<1> DEFINE Wrong == {j \in 1..n : \E i \in F[j] : at[i] \notin line[at[j]]}
<1> SUFFICES ASSUME Wrong # {} PROVE FALSE
  OBVIOUS
<1>1. PICK j \in Wrong : \A k \in Wrong : j <= k
  <2> Wrong \subseteq Nat
    OBVIOUS
  <2> HIDE DEF Wrong
  <2> QED
    BY LeastElement
<1>2. PICK i \in F[j] : at[i] \notin line[at[j]]
  BY <1>1
<1>3. j \in 1..n /\ i \in 1..n /\ i > j
  BY <1>1, <1>2 DEF IsFill
<1>4. PICK k \in 1..n : k < j /\ i \in F[k] /\ j \in F[k]
  BY <1>2, <1>3 DEF IsFill
<1>5. k \notin Wrong
  BY <1>1, <1>3, <1>4
<1>6. at[i] \in line[at[k]] /\ at[j] \in line[at[k]]
  BY <1>4, <1>5
<1>7. at[k] \in 1..m /\ at[j] <= at[i]
  BY <1>3, <1>4
<1> QED
  BY <1>2, <1>6, <1>7, LinesNest

\* The ways up in a forest are sequences, and each is its first index followed
\* by the way up from the parent.
LEMMA PathsClimb ==
    ASSUME NEW n \in Nat, NEW up, DOMAIN up = 1..n,
           \A s \in 1..n : up[s] = None \/ (up[s] \in 1..n /\ up[s] > s)
    PROVE  /\ Path(up, None, {None}) = <<>>
           /\ \A s \in 1..n :
                 /\ Path(up, s, {None}) \in Seq(1..n)
                 /\ Path(up, up[s], {None}) \in Seq(1..n)
                 /\ Path(up, s, {None}) = <<s>> \o Path(up, up[s], {None})
<1> DEFINE D == 1..n \cup {None}
           V == Seq(1..n)
           Body(f) == [i \in D |-> IF i \in {None} THEN <<>>
                                   ELSE <<i>> \o f[up[i]]]
           G == [f \in [D -> V] |-> Body(f)]
           rank == [i \in D |-> IF i = None THEN 0 ELSE n + 1 - i]
           K == n + 2
<1>1. K \in Nat /\ rank \in [D -> Nat] /\ \A i \in D : rank[i] < K
  BY DEF None
<1>2. \A i \in 1..n : i # None /\ up[i] \in D /\ rank[up[i]] < rank[i]
  BY DEF None
<1>3. G \in [[D -> V] -> [D -> V]]
  <2>1. ASSUME NEW f \in [D -> V], NEW i \in 1..n
        PROVE  <<i>> \o f[up[i]] \in Seq(1..n)
    <3>1. f[up[i]] \in Seq(1..n)
      BY <1>2
    <3> QED
      BY <3>1
  <2>2. <<>> \in Seq(1..n)
    OBVIOUS
  <2>3. ASSUME NEW f \in [D -> V] PROVE Body(f) \in [D -> V]
    <3>1. \A i \in D : (IF i \in {None} THEN <<>> ELSE <<i>> \o f[up[i]]) \in V
      BY <2>1, <2>2
    <3> HIDE DEF V, D
    <3> QED
      BY <3>1
  <2> HIDE DEF V, D, Body
  <2> QED
    BY <2>3
<1>4. ASSUME NEW f \in [D -> V], NEW g \in [D -> V], NEW i \in D,
             \A j \in D : rank[j] < rank[i] => f[j] = g[j]
      PROVE  G[f][i] = G[g][i]
  <2>1. i # None => f[up[i]] = g[up[i]]
    BY <1>2, <1>4
  <2> QED
    BY <2>1
<1>5. PICK f \in [D -> V] : f = Body(f)
  <2>1. <<>> \in V
    OBVIOUS
  <2>2. Determined(D, V, rank, K, G)
    <3> HIDE DEF G, D, rank, K, V
    <3> QED
      BY <1>1, <1>3, <1>4 DEF Determined
  <2>3. \E f \in [D -> V] : f = G[f]
    <3> HIDE DEF G, D, rank, K, V
    <3> QED
      BY <2>1, <2>2, RecursionExists
  <2> QED
    BY <2>3
<1> DEFINE path == CHOOSE g : g = Body(g)
<1>6. path = Body(path)
  BY <1>5
<1>7. \A i : Path(up, i, {None}) = path[i]
  BY DEF Path
<1> HIDE DEF path
<1>8. \A s \in D : path[s] = f[s]
  <2> DEFINE Wrong == {s \in 1..n : path[s] # f[s]}
  <2>1. path[None] = <<>> /\ f[None] = <<>>
    BY <1>5, <1>6
  <2>2. ASSUME NEW s \in Wrong PROVE \E t \in Wrong : t > s
    <3>1. /\ path[s] = <<s>> \o path[up[s]] /\ f[s] = <<s>> \o f[up[s]]
      BY <1>2, <1>5, <1>6
    <3> QED
      BY <2>1, <2>2, <3>1
  <2>3. Wrong = {}
    <3> Wrong \subseteq 1..n
      OBVIOUS
    <3> HIDE DEF Wrong
    <3> QED
      BY <2>2, FromAbove
  <2> QED
    BY <2>1, <2>3
<1>9. \A s \in 1..n : path[s] = <<s>> \o path[up[s]]
  BY <1>2, <1>6
<1>10. path[None] = <<>>
  BY <1>6
<1>11. \A s \in D : path[s] \in V
  <2> HIDE DEF D, V, Body
  <2> QED
    BY <1>5, <1>8
<1>12. \A s \in 1..n : path[s] \in Seq(1..n) /\ path[up[s]] \in Seq(1..n)
  BY <1>2, <1>11
<1> HIDE DEF D, V, Body
<1> QED
  BY <1>7, <1>9, <1>10, <1>12

\* So what is on them are lines.
LEMMA PathsAreLines ==
    ASSUME NEW n \in Nat, NEW up, DOMAIN up = 1..n,
           \A s \in 1..n : up[s] = None \/ (up[s] \in 1..n /\ up[s] > s)
    PROVE  AreLines([s \in 1..n |-> Range(Path(up, s, {None}))], up, n)
<1> DEFINE p(s) == Path(up, s, {None})
<1>1. /\ p(None) = <<>>
      /\ \A s \in 1..n : /\ p(s) \in Seq(1..n) /\ p(up[s]) \in Seq(1..n)
                         /\ p(s) = <<s>> \o p(up[s])
  BY PathsClimb
<1> HIDE DEF p
<1>2. ASSUME NEW q \in Seq(1..n), NEW s \in 1..n
      PROVE  Range(<<s>> \o q) = {s} \cup Range(q)
  <2> DEFINE r == <<s>> \o q
  <2>1. /\ DOMAIN r = 1..(Len(q) + 1) /\ r[1] = s
        /\ \A i \in 1..Len(q) : r[i + 1] = q[i]
        /\ DOMAIN q = 1..Len(q) /\ Len(q) \in Nat
    OBVIOUS
  <2> HIDE DEF r
  <2>2. ASSUME NEW i \in 2..(Len(q) + 1)
        PROVE  i - 1 \in 1..Len(q) /\ r[i] = q[i - 1]
    <3>1. i - 1 \in 1..Len(q) /\ (i - 1) + 1 = i
      BY <2>1
    <3>2. r[(i - 1) + 1] = q[i - 1]
      BY <2>1, <3>1
    <3> QED
      BY <3>1, <3>2
  <2>3. \A x : (\E i \in 1..(Len(q) + 1) : r[i] = x)
                   <=> x = s \/ \E i \in 1..Len(q) : q[i] = x
    <3> SUFFICES ASSUME NEW x
                 PROVE  (\E i \in 1..(Len(q) + 1) : r[i] = x)
                            <=> x = s \/ \E i \in 1..Len(q) : q[i] = x
      OBVIOUS
    <3>1. ASSUME NEW i \in 1..(Len(q) + 1), r[i] = x
          PROVE  x = s \/ \E j \in 1..Len(q) : q[j] = x
      <4>1. CASE i = 1
        BY <2>1, <3>1, <4>1
      <4>2. CASE i # 1
        <5>1. i \in 2..(Len(q) + 1)
          BY <2>1, <4>2
        <5>2. i - 1 \in 1..Len(q) /\ q[i - 1] = x
          BY <2>2, <3>1, <5>1
        <5> QED
          BY <5>2
      <4> QED
        BY <4>1, <4>2
    <3>2. ASSUME NEW j \in 1..Len(q) PROVE j + 1 \in 1..(Len(q) + 1)
      BY <2>1
    <3>3. 1 \in 1..(Len(q) + 1)
      BY <2>1
    <3> QED
      BY <2>1, <3>1, <3>2, <3>3
  <2>4. Range(r) = {s} \cup Range(q)
    <3>1. Range(r) = {r[i] : i \in 1..(Len(q) + 1)}
      BY <2>1 DEF Range
    <3>2. Range(q) = {q[i] : i \in 1..Len(q)}
      BY <2>1 DEF Range
    <3> QED
      BY <2>3, <3>1, <3>2
  <2> QED
    BY <2>4 DEF r
<1>3. Range(<<>>) = {}
  BY DEF Range
<1>4. \A s \in 1..n : Range(p(s)) = {s} \cup (IF up[s] = None THEN {}
                                            ELSE Range(p(up[s])))
  BY <1>1, <1>2, <1>3
<1> QED
  BY <1>4 DEF AreLines, p

-----------------------------------------------------------------------------
(***************************************************************************)
(* Elimination, one column after the other, reaches a fill.                *)
(***************************************************************************)
LEMMA IndicesFacts ==
    ASSUME NEW n \in Nat
    PROVE  Len(Indices(n)) = n /\ \A k \in 1..n : Indices(n)[k] = k
BY DEF Indices

\* The entries of a matrix in its ordering, and what the elimination of a
\* column adds.
Entered(m, o) == {<<ToNew(o, e[1]), ToNew(o, e[2])>> : e \in CoordinateGraph(m)}
Joined(n, g, j) ==
    {e \in (1..n) \X (1..n) :
        e[1] > j /\ e[2] > j /\ <<e[1], j>> \in g /\ <<e[2], j>> \in g}
AreFills(fill, n) ==
    \A k \in 1..n : fill[k] = fill[k - 1] \cup Joined(n, fill[k - 1], k)

LEMMA FillIsReached ==
    ASSUME NEW m, NEW o, m.rows \in Nat
    PROVE  \E fill : /\ fill[0] = Entered(m, o) /\ AreFills(fill, m.rows)
                     /\ Filled(m, o) = {e \in fill[m.rows] : e[1] > e[2]}
<1> DEFINE n == m.rows
           start == {<<ToNew(o, e[1]), ToNew(o, e[2])>> :
                        e \in CoordinateGraph(m)}
           added(g, j) == {e \in (1..n) \X (1..n) :
               e[1] > j /\ e[2] > j /\ <<e[1], j>> \in g /\ <<e[2], j>> \in g}
           D == 0..Len(Indices(n))
           V == SUBSET (start \cup ((1..n) \X (1..n)))
           next(g, k) == g \cup added(g, Indices(n)[k])
           Body(f) == [k \in D |-> IF k = 0 THEN start ELSE next(f[k - 1], k)]
           G == [f \in [D -> V] |-> Body(f)]
           rank == [k \in D |-> k]
           K == n + 1
<1>1. D = 0..n /\ \A k \in 1..n : Indices(n)[k] = k
  BY IndicesFacts
<1>2. K \in Nat /\ rank \in [D -> Nat] /\ \A k \in D : rank[k] < K
  <2> HIDE DEF n
  <2> QED
    BY <1>1 DEF n
<1>3. ASSUME NEW k \in D, k # 0 PROVE k - 1 \in D /\ rank[k - 1] < rank[k]
  <2>1. n \in Nat
    OBVIOUS
  <2> HIDE DEF n, D
  <2>2. k \in 1..n /\ k - 1 \in D
    BY <1>1, <1>3, <2>1
  <2> QED
    BY <1>1, <2>1, <2>2
<1>4. ASSUME NEW g \in V, NEW j PROVE g \cup added(g, j) \in V
  OBVIOUS
<1>5. start \in V
  OBVIOUS
<1> HIDE DEF start, added, V, D, n, rank, K
<1>6. G \in [[D -> V] -> [D -> V]]
  <2>1. ASSUME NEW f \in [D -> V], NEW k \in D
        PROVE  (IF k = 0 THEN start ELSE next(f[k - 1], k)) \in V
    BY <1>3, <1>4, <1>5
  <2> QED
    BY <2>1
<1>7. ASSUME NEW f \in [D -> V], NEW g \in [D -> V], NEW i \in D,
             \A j \in D : rank[j] < rank[i] => f[j] = g[j]
      PROVE  G[f][i] = G[g][i]
  <2>1. i # 0 => f[i - 1] = g[i - 1]
    BY <1>3, <1>7
  <2> QED
    BY <2>1
<1>8. \E f : f = Body(f)
  <2> HIDE DEF G
  <2>1. Determined(D, V, rank, K, G)
    BY <1>2, <1>6, <1>7 DEF Determined
  <2>2. \E f \in [D -> V] : f = G[f]
    BY <1>5, <2>1, RecursionExists
  <2> QED
    BY <2>2 DEF G
<1> DEFINE fill == CHOOSE f : f = Body(f)
<1>9. fill = Body(fill)
  <2> HIDE DEF Body
  <2> QED
    BY <1>8
<1>10. Filled(m, o) = {e \in fill[Len(Indices(n))] : e[1] > e[2]}
  BY DEF Filled, Through, start, added, n, D
<1> HIDE DEF fill
<1>11. fill[0] = start /\ \A k \in 1..n : fill[k] = next(fill[k - 1], k)
  <2>1. 0 \in D /\ \A k \in 1..n : k \in D /\ k # 0
    BY <1>1 DEF n
  <2>2. \A k \in D : fill[k] = IF k = 0 THEN start ELSE next(fill[k - 1], k)
    BY <1>9
  <2> HIDE DEF next, Body
  <2> QED
    BY <2>1, <2>2
<1>12. \A k \in 1..n : fill[k] = fill[k - 1] \cup added(fill[k - 1], k)
  BY <1>1, <1>11
<1>13. Len(Indices(n)) = n
  BY IndicesFacts DEF n
<1>14. AreFills(fill, n)
  BY <1>12 DEF AreFills, Joined, added
<1>15. fill[0] = Entered(m, o)
  BY <1>11 DEF start, Entered
<1> QED
  BY <1>10, <1>13, <1>14, <1>15 DEF n

\* Later eliminations leave the rows and columns before them alone.
LEMMA FillGrows ==
    ASSUME NEW n \in Nat, NEW fill, AreFills(fill, n),
           NEW k \in 0..n, NEW l \in 0..n, k <= l
    PROVE  /\ fill[k] \subseteq fill[l]
           /\ \A e \in fill[l] : e \in fill[k] \/ (e[1] > k /\ e[2] > k)
<1> DEFINE Good(x) == /\ fill[k] \subseteq fill[x]
                      /\ \A e \in fill[x] : e \in fill[k] \/ (e[1] > k /\ e[2] > k)
           Wrong == {x \in k..n : ~Good(x)}
<1> SUFFICES ASSUME Wrong # {} PROVE FALSE
  BY DEF Wrong
<1>1. PICK x \in Wrong : \A y \in Wrong : x <= y
  <2> Wrong \subseteq Nat
    OBVIOUS
  <2> HIDE DEF Wrong
  <2> QED
    BY LeastElement
<1>2. x \in k..n /\ x # k /\ x \in 1..n /\ x - 1 \in k..n
  BY <1>1
<1>3. Good(x - 1)
  BY <1>1, <1>2
<1>4. fill[x] = fill[x - 1] \cup Joined(n, fill[x - 1], x)
  BY <1>2 DEF AreFills
<1>5. \A e \in Joined(n, fill[x - 1], x) : e[1] > k /\ e[2] > k
  BY <1>2 DEF Joined
<1> QED
  BY <1>1, <1>3, <1>4, <1>5

\* In all it is a fill.
LEMMA FilledIsFill ==
    ASSUME NEW m, NEW o, m.rows \in Nat,
           Entered(m, o) \subseteq (1..m.rows) \X (1..m.rows), NEW own,
           \A j \in 1..m.rows :
               own[j] = {i \in 1..m.rows : i > j /\ <<i, j>> \in Entered(m, o)}
    PROVE  IsFill([j \in 1..m.rows |-> RowsIn(Filled(m, o), j)], own, m.rows)
<1> DEFINE n == m.rows
           F == [j \in 1..n |-> RowsIn(Filled(m, o), j)]
           box == (1..n) \X (1..n)
<1>1. PICK fill : /\ fill[0] = Entered(m, o) /\ AreFills(fill, n)
                  /\ Filled(m, o) = {e \in fill[n] : e[1] > e[2]}
  BY FillIsReached
<1>2. n \in Nat /\ fill[0] \subseteq box
  BY <1>1
<1>3. fill[n] \subseteq box
  <2> DEFINE Wrong == {x \in 0..n : ~(fill[x] \subseteq box)}
  <2> SUFFICES ASSUME Wrong # {} PROVE FALSE
    BY <1>2 DEF Wrong
  <2>1. PICK x \in Wrong : \A y \in Wrong : x <= y
    <3> Wrong \subseteq Nat
      OBVIOUS
    <3> HIDE DEF Wrong
    <3> QED
      BY LeastElement
  <2>2. x \in 1..n /\ x - 1 \in 0..n /\ x - 1 \notin Wrong
    BY <1>2, <2>1
  <2>3. fill[x] = fill[x - 1] \cup Joined(n, fill[x - 1], x)
    BY <1>1, <2>2 DEF AreFills
  <2> QED
    BY <2>1, <2>2, <2>3 DEF Joined
<1>4. \A j \in 1..n : F[j] = {i \in 1..n : i > j /\ <<i, j>> \in fill[n]}
  <2> SUFFICES ASSUME NEW j \in 1..n
               PROVE  RowsIn(Filled(m, o), j)
                          = {i \in 1..n : i > j /\ <<i, j>> \in fill[n]}
    OBVIOUS
  <2>1. \A e \in fill[n] : e = <<e[1], e[2]>> /\ e[1] \in 1..n
    BY <1>3
  <2> HIDE DEF n
  <2> QED
    BY <1>1, <2>1 DEF RowsIn
<1> HIDE DEF F, n
<1>5. F \in [1..n -> SUBSET (1..n)]
  BY <1>4 DEF F
<1>6. \A j \in 1..n : own[j] \subseteq F[j] /\ \A i \in F[j] : i > j
  <2>1. fill[0] \subseteq fill[n]
    BY <1>1, <1>2, FillGrows
  <2>2. \A j \in 1..n : own[j] = {i \in 1..n : i > j /\ <<i, j>> \in fill[0]}
    BY <1>1 DEF n
  <2> QED
    BY <1>4, <2>1, <2>2
<1>7. ASSUME NEW k \in 1..n, NEW i \in F[k], NEW j \in F[k], i > j
      PROVE  i \in F[j]
  <2>1. /\ k \in 0..n /\ k - 1 \in 0..n /\ k - 1 <= k /\ n \in 0..n /\ k <= n
        /\ i \in 1..n /\ j \in 1..n /\ i > k /\ j > k
        /\ <<i, k>> \in fill[n] /\ <<j, k>> \in fill[n]
    BY <1>2, <1>4, <1>7
  <2>2. <<i, k>> \in fill[k] /\ <<j, k>> \in fill[k]
    BY <1>1, <1>2, <2>1, FillGrows
  <2>3. fill[k] = fill[k - 1] \cup Joined(n, fill[k - 1], k)
    BY <1>1 DEF AreFills
  <2>4. <<i, k>> \in fill[k - 1] /\ <<j, k>> \in fill[k - 1]
    BY <2>1, <2>2, <2>3 DEF Joined
  <2>5. <<i, j>> \in fill[k]
    BY <2>1, <2>3, <2>4 DEF Joined
  <2>6. <<i, j>> \in fill[n]
    BY <1>1, <1>2, <2>1, <2>5, FillGrows
  <2> QED
    BY <1>4, <1>7, <2>1, <2>6
<1>8. ASSUME NEW j \in 1..n, NEW i \in F[j]
      PROVE  \/ i \in own[j]
             \/ \E k \in 1..n : k < j /\ i \in F[k] /\ j \in F[k]
  <2>1. i \in 1..n /\ i > j /\ <<i, j>> \in fill[n]
    BY <1>4, <1>8
  <2> DEFINE S == {l \in 0..n : <<i, j>> \in fill[l]}
  <2>2. PICK l \in S : \A x \in S : l <= x
    <3>1. S \subseteq Nat /\ S # {}
      BY <1>2, <2>1
    <3> HIDE DEF S
    <3> QED
      BY <3>1, LeastElement
  <2>3. CASE l = 0
    BY <1>1, <1>8, <2>1, <2>2, <2>3 DEF n
  <2>4. CASE l # 0
    <3>1. l \in 1..n /\ l - 1 \in 0..n /\ l - 1 \notin S
      BY <1>2, <2>2, <2>4
    <3>2. <<i, j>> \in Joined(n, fill[l - 1], l)
      BY <1>1, <2>2, <3>1 DEF AreFills
    <3>3. i > l /\ j > l /\ <<i, l>> \in fill[l - 1] /\ <<j, l>> \in fill[l - 1]
      BY <3>2 DEF Joined
    <3>4. fill[l - 1] \subseteq fill[n]
      BY <1>1, <1>2, <3>1, FillGrows
    <3>5. i \in F[l] /\ j \in F[l]
      BY <1>4, <2>1, <3>1, <3>3, <3>4
    <3> QED
      BY <1>2, <3>1, <3>3, <3>5
  <2> QED
    BY <2>3, <2>4
<1> QED
  BY <1>5, <1>6, <1>7, <1>8 DEF IsFill, F, n

-----------------------------------------------------------------------------
(***************************************************************************)
(* Lists of children.                                                      *)
(***************************************************************************)
\* L is the list that begins at head: no index twice, and the last points to
\* none.
IsList(head, next, L, n) ==
    /\ L \in Seq(1..n) /\ Len(L) <= n
    /\ \A i, j \in 1..Len(L) : L[i] = L[j] => i = j
    /\ head = (IF L = <<>> THEN None ELSE L[1])
    /\ \A i \in 1..Len(L) :
           next[L[i]] = (IF i = Len(L) THEN None ELSE L[i + 1])

LEMMA ListIsFound ==
    ASSUME NEW n \in Nat, child_next \in Seq(Nat), Len(child_next) = n,
           NEW column, NEW L, IsList(child_heads[column], child_next, L, n)
    PROVE  ChildList(column) = L
<1> DEFINE step(g) == [i \in DOMAIN child_next \cup {None} |->
               IF i = None THEN <<>> ELSE <<i>> \o g[child_next[i]]]
           none == [i \in DOMAIN child_next \cup {None} |-> <<>>]
           Body(f, m) == [k \in 0..m |-> [i \in DOMAIN child_next \cup {None} |->
                IF k = 0 \/ i = None THEN <<>>
                ELSE <<i>> \o f[k - 1][child_next[i]]]]
           Upto(f, m) == /\ DOMAIN f = 0..m /\ f[0] = none
                         /\ \A k \in 1..m : f[k] = step(f[k - 1])
<1>1. ASSUME NEW m \in Nat, NEW f
      PROVE  f = [x \in DOMAIN f |-> f[x]] /\ Upto(f, m) => f = Body(f, m)
  <2> SUFFICES ASSUME Upto(f, m), f = [x \in DOMAIN f |-> f[x]] PROVE f = Body(f, m)
    OBVIOUS
  <2>1. ASSUME NEW k \in 0..m PROVE f[k] = Body(f, m)[k]
    <3>1. CASE k = 0
      BY <3>1
    <3>2. CASE k # 0
      <4>1. k \in 1..m
        BY <3>2
      <4> QED
        BY <3>2, <4>1
    <3> QED
      BY <3>1, <3>2
  <2> HIDE DEF step, none
  <2> QED
    BY <2>1
<1>2. ASSUME NEW m \in Nat, NEW f, f = Body(f, m) PROVE Upto(f, m)
  <2>1. DOMAIN f = 0..m /\ f[0] = none
    BY <1>2
  <2>2. ASSUME NEW k \in 1..m PROVE f[k] = step(f[k - 1])
    <3>1. k \in 0..m /\ k # 0
      BY SMTT(30), <2>2
    <3>2. f[k] = Body(f, m)[k]
      BY <1>2
    <3> QED
      BY <3>1, <3>2
  <2> QED
    BY <2>1, <2>2
<1> HIDE DEF step, none
<1>3. \E f : f = Body(f, n)
  <2> DEFINE Has(m) == \E f : f = [x \in DOMAIN f |-> f[x]] /\ Upto(f, m)
             Wrong == {m \in Nat : ~Has(m)}
  <2>1. Wrong = {}
    <3> SUFFICES ASSUME Wrong # {} PROVE FALSE
      OBVIOUS
    <3>1. PICK m \in Wrong : \A y \in Wrong : m <= y
      <4> Wrong \subseteq Nat
        OBVIOUS
      <4> HIDE DEF Wrong
      <4> QED
        BY LeastElement
    <3>2. CASE m = 0
      <4> DEFINE f == [x \in 0..0 |-> none]
      <4>1. f = [x \in DOMAIN f |-> f[x]] /\ Upto(f, 0)
        OBVIOUS
      <4> QED
        BY <3>1, <3>2, <4>1
    <3>3. CASE m # 0
      <4>1. m - 1 \in Nat /\ m - 1 \notin Wrong
        BY <3>1, <3>3
      <4>2. PICK g : g = [x \in DOMAIN g |-> g[x]] /\ Upto(g, m - 1)
        BY <4>1
      <4> DEFINE f == [x \in 0..m |-> IF x = m THEN step(g[m - 1]) ELSE g[x]]
      <4>3. f = [x \in DOMAIN f |-> f[x]] /\ DOMAIN f = 0..m /\ f[0] = none
        BY <3>3, <4>1, <4>2
      <4>4. ASSUME NEW k \in 1..m PROVE f[k] = step(f[k - 1])
        <5>1. f[k - 1] = g[k - 1]
          BY <4>1
        <5>2. k # m => k \in 1..(m - 1)
          BY <4>1
        <5> QED
          BY <4>1, <4>2, <5>1, <5>2
      <4> HIDE DEF f
      <4>5. Upto(f, m)
        BY <4>3, <4>4
      <4> QED
        BY <3>1, <4>3, <4>5
    <3> QED
      BY <3>2, <3>3
  <2>2. Has(n)
    BY <2>1
  <2> HIDE DEF Body, Upto
  <2> QED
    BY <1>1, <2>2
<1> DEFINE list == CHOOSE f : f = Body(f, n)
<1>4. list = Body(list, n)
  <2> HIDE DEF Body
  <2> QED
    BY <1>3
<1>5. ChildList(column) = list[n][child_heads[column]]
  BY DEF ChildList
<1> HIDE DEF list
<1>6. Upto(list, n)
  <2> HIDE DEF Body, Upto
  <2> QED
    BY <1>2, <1>4
<1>7. /\ \A k \in 0..n : list[k][None] = <<>>
      /\ \A k \in 1..n : \A i \in 1..n :
             list[k][i] = <<i>> \o list[k - 1][child_next[i]]
  <2>1. DOMAIN child_next = 1..n
    OBVIOUS
  <2>2. ASSUME NEW k \in 1..n, NEW i \in 1..n
        PROVE  list[k][i] = <<i>> \o list[k - 1][child_next[i]]
    <3>1. i # None /\ list[k] = step(list[k - 1])
      BY <1>6 DEF None
    <3> QED
      BY <2>1, <3>1 DEF step
  <2>3. ASSUME NEW k \in 0..n PROVE list[k][None] = <<>>
    <3>1. CASE k = 0
      BY <1>6, <3>1 DEF none
    <3>2. CASE k # 0
      <4>1. list[k] = step(list[k - 1])
        BY <1>6, <3>2
      <4> QED
        BY <4>1 DEF step
    <3> QED
      BY <3>1, <3>2
  <2> QED
    BY <2>2, <2>3
<1> HIDE DEF Body, Upto
<1> DEFINE len == Len(L)
<1>8. /\ len \in 0..n /\ \A i \in 1..len : L[i] \in 1..n
      /\ \A i \in 1..len : child_next[L[i]] = IF i = len THEN None ELSE L[i + 1]
      /\ L = <<>> <=> len = 0
  BY DEF IsList
<1>9. \A j \in 1..len : \A k \in 1..n :
          k + j > len => list[k][L[j]] = SubSeq(L, j, len)
  <2> DEFINE Good(j) == \A k \in 1..n :
                            k + j > len => list[k][L[j]] = SubSeq(L, j, len)
             Wrong == {j \in 1..len : ~Good(j)}
  <2>1. ASSUME NEW j \in Wrong PROVE \E i \in Wrong : i > j
    <3>1. PICK k \in 1..n : k + j > len /\ list[k][L[j]] # SubSeq(L, j, len)
      BY <2>1
    <3>2. list[k][L[j]] = <<L[j]>> \o list[k - 1][child_next[L[j]]]
      BY <1>7, <1>8
    <3>3. CASE j = len
      <4>1. list[k - 1][child_next[L[j]]] = <<>>
        <5>1. k - 1 \in 0..n /\ j \in 1..len
          BY <1>8, <2>1
        <5>2. child_next[L[j]] = None
          BY <1>8, <3>3, <5>1
        <5> QED
          BY <1>7, <5>1, <5>2
      <4>2. <<L[j]>> \o <<>> = SubSeq(L, j, len)
        BY <3>3 DEF IsList
      <4> QED
        BY <3>1, <3>2, <4>1, <4>2
    <3>4. CASE j # len
      <4>1. j + 1 \in 1..len /\ k - 1 \in 1..n /\ (k - 1) + (j + 1) > len
        BY <1>8, <3>1, <3>4
      <4>2. child_next[L[j]] = L[j + 1]
        BY <1>8, <3>4
      <4>3. <<L[j]>> \o SubSeq(L, j + 1, len) = SubSeq(L, j, len)
        BY SMTT(30), <4>1 DEF IsList
      <4>4. ~Good(j + 1)
        BY <3>1, <3>2, <4>1, <4>2, <4>3
      <4> QED
        BY <1>8, <4>1, <4>4
    <3> QED
      BY <3>3, <3>4
  <2>2. Wrong = {}
    <3> Wrong \subseteq 1..len /\ len \in Nat
      BY <1>8
    <3> HIDE DEF Wrong
    <3> QED
      BY <2>1, FromAbove
  <2> QED
    BY <2>2
<1>10. CASE L = <<>>
  BY <1>5, <1>7, <1>10 DEF IsList
<1>11. CASE L # <<>>
  <2>1. child_heads[column] = L[1] /\ 1 \in 1..len /\ n \in 1..n /\ n + 1 > len
    BY <1>8, <1>11 DEF IsList
  <2>2. SubSeq(L, 1, len) = L
    BY DEF IsList
  <2> QED
    BY <1>5, <1>9, <2>1, <2>2
<1> QED
  BY <1>10, <1>11

-----------------------------------------------------------------------------
(***************************************************************************)
(* The rows that a column takes from the matrix.                           *)
(***************************************************************************)
\* Every column has a supernode, and the supernodes ascend with the columns.
LEMMA SupernodeFound ==
    ASSUME NEW o, NEW columns, CutsIntoSupernodes(o, columns),
           NEW c \in 1..columns
    PROVE  SupernodeOf(o, c) \in DOMAIN o.sizes
           /\ c \in ColumnsOf(o, SupernodeOf(o, c))
<1>1. PICK n \in Nat :
          /\ DOMAIN o.sizes = 1..n
          /\ \A i \in 1..n : o.sizes[i] \in Nat \ {0}
          /\ \A i \in 1..(n + 1) : o.offsets[i] \in Nat
          /\ \A i \in 1..n : o.offsets[i + 1] = o.offsets[i] + o.sizes[i]
          /\ o.offsets[1] = 0 /\ o.offsets[n + 1] = columns
  BY SupernodeFacts
<1> DEFINE S == {i \in 1..(n + 1) : c <= o.offsets[i]}
<1>2. PICK i \in S : \A j \in S : i <= j
  <2>1. columns \in Nat /\ c \in Nat /\ n + 1 \in 1..(n + 1)
    BY <1>1
  <2>2. n + 1 \in S /\ S \subseteq Nat
    BY <1>1, <2>1
  <2> HIDE DEF S
  <2> QED
    BY <2>2, LeastElement
<1>3. i # 1
  BY <1>1, <1>2
<1>4. i - 1 \in 1..n /\ i - 1 \in 1..(n + 1) /\ i - 1 \notin S /\ (i - 1) + 1 = i
  BY <1>1, <1>2, <1>3
<1>5. o.offsets[(i - 1) + 1] = o.offsets[i - 1] + o.sizes[i - 1]
  BY <1>1, <1>4
<1>6. /\ o.offsets[i - 1] \in Nat /\ o.sizes[i - 1] \in Nat
      /\ ~(c <= o.offsets[i - 1]) /\ c <= o.offsets[i - 1] + o.sizes[i - 1]
  BY <1>1, <1>2, <1>4, <1>5
<1>7. i - 1 \in DOMAIN o.sizes /\ c \in ColumnsOf(o, i - 1)
  BY <1>1, <1>4, <1>6 DEF ColumnsOf
<1> QED
  BY <1>7 DEF SupernodeOf

LEMMA SupernodesAscend ==
    ASSUME NEW o, NEW columns, CutsIntoSupernodes(o, columns),
           NEW s \in DOMAIN o.sizes, NEW t \in DOMAIN o.sizes,
           NEW i \in ColumnsOf(o, s), NEW j \in ColumnsOf(o, t), i <= j
    PROVE  s <= t
<1>1. PICK n \in Nat :
          /\ DOMAIN o.sizes = 1..n
          /\ \A k \in 1..n : o.sizes[k] \in Nat
          /\ \A k \in 1..(n + 1) : o.offsets[k] \in Nat
          /\ \A k \in 1..n : o.offsets[k + 1] = o.offsets[k] + o.sizes[k]
  BY SupernodeFacts
<1>2. s \in 1..n /\ t \in 1..n /\ s \in 1..(n + 1)
  BY <1>1
<1> SUFFICES ASSUME t < s PROVE FALSE
  BY <1>1, <1>2
<1>3. o.offsets[t] + o.sizes[t] <= o.offsets[s]
  BY <1>1, <1>2, OffsetsAscend
<1>4. /\ o.offsets[s] \in Nat /\ o.sizes[s] \in Nat
      /\ o.offsets[t] \in Nat /\ o.sizes[t] \in Nat
  BY <1>1, <1>2
<1> QED
  BY <1>3, <1>4 DEF ColumnsOf

\* The pattern is symmetric, and the two permutations undo each other.
Symmetric(m) == \A p \in CoordinateGraph(m) : <<p[2], p[1]>> \in CoordinateGraph(m)
Permutes(o, n) ==
    \A i \in 1..n :
        /\ o.permutation[i] \in 1..n /\ o.inverse[o.permutation[i]] = i
        /\ o.inverse[i] \in 1..n /\ o.permutation[o.inverse[i]] = i

LEMMA EntriesInside ==
    ASSUME IsCoordinateMatrix(matrix), Symmetric(matrix),
           ordering.permutation # <<>>, Permutes(ordering, matrix.rows)
    PROVE  /\ \A e \in CoordinateGraph(matrix) :
                  /\ e = <<e[1], e[2]>>
                  /\ e[1] \in 1..matrix.rows /\ e[2] \in 1..matrix.rows
           /\ Entered(matrix, ordering)
                  = {<<ordering.permutation[e[1]], ordering.permutation[e[2]]>> :
                        e \in CoordinateGraph(matrix)}
           /\ Entered(matrix, ordering)
                  \subseteq (1..matrix.rows) \X (1..matrix.rows)
<1> DEFINE CG == CoordinateGraph(matrix)
           p == ordering.permutation
<1>1. CG \subseteq (1..matrix.rows) \X (1..matrix.columns)
  <2>1. \A k \in DOMAIN matrix.entries : Place(matrix.entries[k]) \in Places(matrix)
    BY MatrixFacts, EntryFacts
  <2> QED
    BY <2>1 DEF CoordinateGraph, Places
<1>2. \A e \in CG : <<e[2], e[1]>> \in CG
  BY DEF Symmetric
<1> HIDE DEF CG
<1>3. \A e \in CG : e = <<e[1], e[2]>> /\ e[1] \in 1..matrix.rows
  BY <1>1
<1>4. \A e \in CG : e[2] \in 1..matrix.rows
  <2> SUFFICES ASSUME NEW e \in CG PROVE e[2] \in 1..matrix.rows
    OBVIOUS
  <2>1. <<e[2], e[1]>>[1] \in 1..matrix.rows
    BY <1>2, <1>3
  <2> QED
    BY <2>1
<1>5. Entered(matrix, ordering) = {<<p[e[1]], p[e[2]]>> : e \in CG}
  BY DEF Entered, ToNew, CG
<1>6. \A e \in CG : p[e[1]] \in 1..matrix.rows /\ p[e[2]] \in 1..matrix.rows
  BY <1>3, <1>4 DEF Permutes
<1> QED
  BY <1>3, <1>4, <1>5, <1>6 DEF CG

\* The rows that a column of the analysis takes from the matrix.
LEMMA OwnRowsFound ==
    ASSUME IsCoordinateMatrix(matrix), Symmetric(matrix),
           ordering.permutation # <<>>, Permutes(ordering, matrix.rows),
           NEW column \in 1..matrix.rows
    PROVE  OwnRows(column) = {i \in 1..matrix.rows :
               i > column /\ <<i, column>> \in Entered(matrix, ordering)}
<1> DEFINE n == matrix.rows
           p == ordering.permutation
           q == ordering.inverse
           E == matrix.entries
           row == q[column]
           a == matrix.offsets[row]
           b == matrix.offsets[row + 1]
           stored == RowEntries(matrix, ToOld(ordering, column))
           CG == CoordinateGraph(matrix)
<1>1. row \in 1..n /\ p[row] = column /\ \A i \in 1..n : p[i] = column => i = row
  BY DEF Permutes
<1>2. /\ a \in Nat /\ b \in Nat
      /\ \A k : k \in (a + 1)..b <=> k \in DOMAIN E /\ E[k].row = row
  BY <1>1, RowSlices
<1>3. stored = SubSeq(E, a + 1, b)
  BY DEF RowEntries, RowEntryOffset, ToOld
<1>4. /\ CG = {Place(E[k]) : k \in DOMAIN E}
      /\ \A e \in CG : /\ e = <<e[1], e[2]>> /\ e[1] \in 1..n /\ e[2] \in 1..n
                       /\ <<e[2], e[1]>> \in CG
  BY EntriesInside DEF Symmetric, CoordinateGraph
<1>5. Entered(matrix, ordering) = {<<p[e[1]], p[e[2]]>> : e \in CG}
  BY EntriesInside
<1>6. E \in Seq(MatrixEntries(matrix))
  BY MatrixFacts
<1>7. PermutedRow(matrix, ordering, column)
          = <<>> \o [k \in DOMAIN stored |->
                 Entry(column, ToNew(ordering, stored[k].column),
                       stored[k].value)]
  BY DEF PermutedRow
<1>8. \A k : ToNew(ordering, stored[k].column) = p[stored[k].column]
  BY DEF ToNew
<1>9. \A i \in 1..n : p[i] \in 1..n
  BY DEF Permutes
<1>10. OwnRows(column) = {e.column : e \in
           {d \in Range(PermutedRow(matrix, ordering, column)) :
               d.column > column}}
  BY DEF OwnRows
<1> HIDE DEF E, a, b, stored, CG, row, p, q, n
<1>11. /\ DOMAIN stored = 1..(b - a)
       /\ \A k \in 1..(b - a) : k + a \in (a + 1)..b /\ stored[k] = E[k + a]
  <2>1. CASE b < a + 1
    <3>1. stored = <<>>
      BY <1>2, <1>3, <1>6, <2>1
    <3> QED
      BY <1>2, <2>1, <3>1
  <2>2. CASE b >= a + 1
    <3>1. a + 1 \in DOMAIN E /\ b \in DOMAIN E
      BY <1>2, <2>2
    <3>2. DOMAIN E = 1..Len(E) /\ Len(E) \in Nat
      BY <1>6
    <3>3. a + 1 \in 1..Len(E) /\ b \in 1..Len(E)
      BY <3>1, <3>2
    <3> QED
      BY <1>2, <1>3, <1>6, <2>2, <3>3
  <2> QED
    BY <1>2, <2>1, <2>2
<1> DEFINE made == [k \in DOMAIN stored |->
               Entry(column, p[stored[k].column], stored[k].value)]
<1>12. PermutedRow(matrix, ordering, column) = made
  <2>1. made \in Seq({made[k] : k \in 1..(b - a)})
    BY <1>2, <1>11
  <2>2. <<>> \o made = made
    BY <2>1
  <2> QED
    BY <1>7, <1>8, <2>2
<1>13. OwnRows(column) = {c \in {p[E[k].column] : k \in (a + 1)..b} : c > column}
  <2>1. {p[stored[k].column] : k \in DOMAIN stored}
            = {p[E[k].column] : k \in (a + 1)..b}
    <3>1. \A k \in (a + 1)..b : k - a \in 1..(b - a) /\ (k - a) + a = k
      BY <1>2
    <3>2. \A k \in (a + 1)..b : k - a \in DOMAIN stored /\ stored[k - a] = E[k]
      BY <1>11, <3>1
    <3> QED
      BY <1>11, <3>2
  <2>2. Range(made) = {Entry(column, p[stored[k].column], stored[k].value) :
                          k \in DOMAIN stored}
    BY DEF Range
  <2>3. \A c, v : Entry(column, c, v).column = c
    BY DEF Entry
  <2> HIDE DEF made
  <2>4. {e.column : e \in {d \in Range(made) : d.column > column}}
            = {c \in {p[stored[k].column] : k \in DOMAIN stored} : c > column}
    BY <2>2, <2>3
  <2> QED
    BY <1>10, <1>12, <2>1, <2>4
<1>14. ASSUME NEW k \in (a + 1)..b
       PROVE  /\ p[E[k].column] \in 1..n
              /\ <<p[E[k].column], column>> \in Entered(matrix, ordering)
  <2>1. <<row, E[k].column>> \in CG
    BY <1>2, <1>4 DEF Place
  <2>2. E[k].column \in 1..n /\ <<E[k].column, row>> \in CG
    BY <1>4, <2>1
  <2> QED
    BY <1>1, <1>5, <1>9, <2>2
<1>15. ASSUME NEW i \in 1..n, <<i, column>> \in Entered(matrix, ordering)
       PROVE  \E k \in (a + 1)..b : i = p[E[k].column]
  <2>1. PICK e \in CG : i = p[e[1]] /\ column = p[e[2]]
    BY <1>5, <1>15
  <2>2. e[2] = row /\ <<e[2], e[1]>> \in CG
    BY <1>1, <1>4, <2>1
  <2>3. PICK k \in DOMAIN E : <<E[k].row, E[k].column>> = <<e[2], e[1]>>
    BY <1>4, <2>2 DEF Place
  <2> QED
    BY <1>2, <2>1, <2>2, <2>3
<1> QED
  BY <1>13, <1>14, <1>15 DEF n

-----------------------------------------------------------------------------
(***************************************************************************)
(* What the analysis works with, which its steps do not change.            *)
(***************************************************************************)
Rows == [j \in 1..matrix.rows |-> RowsIn(Filled(matrix, ordering), j)]
Own == [j \in 1..matrix.rows |-> OwnRows(j)]
Up == ordering.forest.parents
Lines == [s \in 1..Len(ordering.sizes) |-> Line(ordering, s)]

\* The rows below a column are in supernodes above its own.
RowsAbove ==
    \A s, t \in DOMAIN ordering.sizes :
        \A j \in ColumnsOf(ordering, s), i \in ColumnsOf(ordering, t) :
            i \in Rows[j] => t \in Lines[s]

Grounds ==
    /\ IsFill(Rows, Own, matrix.rows) /\ RowsAbove
    /\ AreLines(Lines, Up, Len(ordering.sizes))
    /\ \A s \in DOMAIN ordering.sizes : IsForest(ordering.forest, s)
    /\ DOMAIN Up = DOMAIN ordering.sizes

LEMMA GroundsHold ==
    ASSUME IsCoordinateMatrix(matrix), Separates(matrix, ordering),
           Symmetric(matrix),
           ordering.permutation # <<>>, matrix.rows \in Nat,
           CutsIntoSupernodes(ordering, matrix.rows)
    PROVE  Grounds
<1> DEFINE n == matrix.rows
           m == Len(ordering.sizes)
           at == [c \in 1..n |-> SupernodeOf(ordering, c)]
<1>1. m \in Nat /\ DOMAIN ordering.sizes = 1..m
  BY SupernodeFacts
<1>2. /\ Permutes(ordering, n) /\ DOMAIN Up = 1..m
      /\ \A s \in 1..m : IsForest(ordering.forest, s)
      /\ \A e \in CoordinateGraph(matrix) :
             Related(ordering, SupernodeOf(ordering, ordering.permutation[e[1]]),
                     SupernodeOf(ordering, ordering.permutation[e[2]]))
  BY <1>1 DEF Separates, Permutes, Up
<1>3. \A s \in 1..m : Up[s] = None \/ (Up[s] \in 1..m /\ Up[s] > s)
  <2> SUFFICES ASSUME NEW s \in 1..m
               PROVE  Up[s] = None \/ (Up[s] \in 1..m /\ Up[s] > s)
    OBVIOUS
  <2>1. IsForest(ordering.forest, s) /\ DOMAIN Up = 1..m
    BY <1>2
  <2> HIDE DEF m
  <2> DEFINE up == ordering.forest.parents
  <2>2. up[s] = None \/ (up[s] \in DOMAIN up /\ up[s] > s)
    BY <2>1 DEF IsForest
  <2>3. Up = up
    BY DEF Up
  <2> HIDE DEF up
  <2> QED
    BY <2>1, <2>2, <2>3
<1>4. Lines = [s \in 1..m |-> Range(Path(Up, s, {None}))]
  BY DEF Lines, Line, Up
<1>5. AreLines(Lines, Up, m)
  <2> HIDE DEF m
  <2> QED
    BY <1>1, <1>2, <1>3, <1>4, PathsAreLines
<1>6. \A j \in 1..n : Own[j] = {i \in 1..n :
          i > j /\ <<i, j>> \in Entered(matrix, ordering)}
  BY <1>2, OwnRowsFound DEF Own
<1>7. IsFill(Rows, Own, n)
  <2>1. Entered(matrix, ordering) \subseteq (1..n) \X (1..n)
    BY <1>2, EntriesInside
  <2> QED
    BY <1>6, <2>1, FilledIsFill DEF Rows
<1>8. \A c \in 1..n : at[c] \in 1..m /\ c \in ColumnsOf(ordering, at[c])
  BY <1>1, SupernodeFound
<1>9. \A i, j \in 1..n : i <= j => at[i] <= at[j]
  BY <1>1, <1>8, SupernodesAscend
<1>10. ASSUME NEW j \in 1..n, NEW i \in Own[j] PROVE at[i] \in Lines[at[j]]
  <2>1. i \in 1..n /\ i > j /\ <<i, j>> \in Entered(matrix, ordering)
    BY <1>6, <1>10
  <2>2. PICK e \in CoordinateGraph(matrix) :
            i = ordering.permutation[e[1]] /\ j = ordering.permutation[e[2]]
    BY <1>2, <2>1, EntriesInside
  <2>3. Related(ordering, at[i], at[j])
    BY <1>2, <2>1, <2>2
  <2>4. at[i] \in Lines[at[j]] \/ at[j] \in Lines[at[i]]
    <3>1. /\ Lines[at[i]] = Line(ordering, at[i])
          /\ Lines[at[j]] = Line(ordering, at[j])
      BY <1>8, <2>1 DEF Lines
    <3> QED
      BY <2>3, <3>1 DEF Related
  <2> HIDE DEF at, m
  <2>5. at[i] \in 1..m /\ at[j] \in 1..m /\ at[j] <= at[i]
    BY <1>8, <1>9, <2>1
  <2>6. at[j] \in Lines[at[i]] => at[j] = at[i]
    <3>1. Lines[at[i]] \subseteq at[i]..m
      BY <1>1, <1>5, <2>5, LinesClimb
    <3> QED
      BY <1>1, <2>5, <3>1
  <2> QED
    BY <1>1, <1>5, <2>4, <2>5, <2>6, LinesClimb
<1>11. \A j \in 1..n : \A i \in Rows[j] : at[i] \in Lines[at[j]]
  <2> HIDE DEF at, m
  <2> QED
    BY <1>1, <1>5, <1>7, <1>8, <1>9, <1>10, FillOnLines
<1>12. RowsAbove
  <2> SUFFICES ASSUME NEW s \in 1..m, NEW t \in 1..m,
                      NEW j \in ColumnsOf(ordering, s),
                      NEW i \in ColumnsOf(ordering, t), i \in Rows[j]
               PROVE  t \in Lines[s]
    BY <1>1 DEF RowsAbove
  <2>1. j \in 1..n /\ i \in 1..n
    BY <1>1, ColumnsInside
  <2>2. at[j] = s /\ at[i] = t
    <3>1. /\ at[j] \in 1..m /\ j \in ColumnsOf(ordering, at[j])
          /\ at[i] \in 1..m /\ i \in ColumnsOf(ordering, at[i])
      BY <1>8, <2>1
    <3> QED
      BY <1>1, <3>1, ColumnsApart
  <2> QED
    BY <1>11, <2>1, <2>2
<1> QED
  BY <1>1, <1>2, <1>5, <1>7, <1>12 DEF Grounds

-----------------------------------------------------------------------------
(***************************************************************************)
(* The invariant of the parallel analysis.                                 *)
(***************************************************************************)
\* The forest that the tasks are to find.
Tree == [j \in 1..matrix.rows |-> IF Rows[j] = {} THEN None ELSE Min(Rows[j])]

\* A supernode has begun when its first column is computed.
Begun(s) == tasks[s].column > ordering.offsets[s] + 1
            \/ tasks[s].next # "compute"

\* The children of a supernode that has begun are done, with their last column.
OrderInv ==
    /\ \A s, t \in DOMAIN tasks : Up[t] = s /\ Begun(s) => IsDone(t)
    /\ \A s \in DOMAIN tasks :
           /\ IsDone(s) =>
                  tasks[s].column = ordering.offsets[s] + ordering.sizes[s]
           /\ tasks[s].next \in {"link", "publish"} =>
                  Tree[tasks[s].column] # None

ShapeInv ==
    /\ Len(child_next) = matrix.rows
    /\ DOMAIN child_heads = 1..matrix.rows
    /\ DOMAIN child_locks = 1..matrix.rows
    /\ DOMAIN structures = 1..matrix.rows
    /\ DOMAIN parents = 1..matrix.rows
    /\ DOMAIN degrees = 1..matrix.rows

\* A computed column has its parent and its degree, and its rows until the
\* parent has taken them.
ResultInv ==
    /\ \A c \in Computed : /\ parents[c] = Tree[c]
                           /\ degrees[c] = Cardinality(Rows[c])
                           /\ Tree[c] \notin Finished => structures[c] = Rows[c]
    /\ \A row, column : <<row, column>> \in stamps => column \in Computed

\* The list of a column is a list, and has the columns that are finished.
Lists(column, L) ==
    /\ IsList(child_heads[column], child_next, L, matrix.rows)
    /\ Range(L) = {c \in Finished : Tree[c] = column}
ListsInv ==
    /\ \A column \in 1..matrix.rows : \E L : Lists(column, L)
    /\ \A s \in DOMAIN tasks :
           tasks[s].next = "publish" =>
               child_next[tasks[s].column] = child_heads[parents[tasks[s].column]]

ForestInv ==
    /\ child_next \in Seq(Nat)
    /\ phase = "analyzing" =>
           Grounds /\ OrderInv /\ ShapeInv /\ ResultInv /\ ListsInv

-----------------------------------------------------------------------------
(***************************************************************************)
(* How far the tasks are.                                                  *)
(***************************************************************************)
LEMMA HowFar ==
    ASSUME TasksInv, phase = "analyzing", NEW s \in DOMAIN tasks,
           NEW c \in ColumnsOf(ordering, s)
    PROVE  /\ c \in 1..matrix.rows
           /\ c \in Computed <=>
                  \/ c < tasks[s].column
                  \/ c = tasks[s].column /\ tasks[s].next # "compute"
           /\ c \in Finished <=>
                  \/ c < tasks[s].column
                  \/ c = tasks[s].column /\ tasks[s].next = "done"
<1>1. CutsIntoSupernodes(ordering, matrix.rows)
      /\ DOMAIN tasks = DOMAIN ordering.sizes
  BY DEF TasksInv
<1>2. c \in 1..matrix.rows
  BY <1>1, ColumnsInside
<1>3. \A t \in DOMAIN tasks : c \in ColumnsOf(ordering, t) => t = s
  BY <1>1, ColumnsApart
<1> QED
  BY <1>2, <1>3 DEF Computed, Finished

LEMMA EveryColumn ==
    ASSUME TasksInv, phase = "analyzing", NEW c \in 1..matrix.rows
    PROVE  \E s \in DOMAIN tasks : c \in ColumnsOf(ordering, s)
BY SupernodeFound DEF TasksInv

LEMMA FinishedIsComputed == Finished \subseteq Computed
BY DEF Computed, Finished

\* What the step of a task adds to what is computed and finished.
LEMMA TaskProgress ==
    ASSUME TasksInv, TasksInv', phase = "analyzing", NEW s \in DOMAIN tasks,
           NEW column, NEW next,
           tasks' = [tasks EXCEPT ![s] = [column |-> column, next |-> next]],
           UNCHANGED <<phase, matrix, ordering>>
    PROVE  \A c \in 1..matrix.rows :
               IF c \in ColumnsOf(ordering, s)
               THEN /\ c \in Computed' <=> \/ c < column
                                           \/ c = column /\ next # "compute"
                    /\ c \in Finished' <=> \/ c < column
                                           \/ c = column /\ next = "done"
               ELSE /\ c \in Computed' <=> c \in Computed
                    /\ c \in Finished' <=> c \in Finished
<1>1. CutsIntoSupernodes(ordering, matrix.rows)
      /\ DOMAIN tasks = DOMAIN ordering.sizes
  BY DEF TasksInv
<1>2. /\ DOMAIN tasks' = DOMAIN tasks
      /\ tasks'[s].column = column /\ tasks'[s].next = next
      /\ \A t \in DOMAIN tasks : t # s => tasks'[t] = tasks[t]
  OBVIOUS
<1>3. SUFFICES ASSUME NEW c \in 1..matrix.rows, NEW t \in DOMAIN tasks,
                      c \in ColumnsOf(ordering, t)
               PROVE  /\ c \in Computed' <=>
                             \/ c < tasks'[t].column
                             \/ c = tasks'[t].column /\ tasks'[t].next # "compute"
                      /\ c \in Finished' <=>
                             \/ c < tasks'[t].column
                             \/ c = tasks'[t].column /\ tasks'[t].next = "done"
  <2>1. ASSUME NEW c \in 1..matrix.rows
        PROVE  \E t \in DOMAIN tasks : c \in ColumnsOf(ordering, t)
    BY <2>1, EveryColumn
  <2>2. ASSUME NEW c \in 1..matrix.rows, NEW t \in DOMAIN tasks, t # s,
               c \in ColumnsOf(ordering, t)
        PROVE  c \notin ColumnsOf(ordering, s)
    BY <1>1, <2>2, ColumnsApart
  <2> QED
    BY <1>2, <2>1, <2>2, HowFar
<1>4. \A u \in DOMAIN tasks : c \in ColumnsOf(ordering, u) => u = t
  BY <1>1, <1>3, ColumnsApart
<1>5. /\ ColumnsOf(ordering', t) = ColumnsOf(ordering, t)
      /\ matrix' = matrix /\ ordering' = ordering
  OBVIOUS
<1> QED
  BY <1>2, <1>3, <1>4, <1>5 DEF Computed, Finished

\* A task goes on from a column: the column is finished.
LEMMA GoingOn ==
    ASSUME TasksInv, TasksInv', phase = "analyzing", NEW s \in DOMAIN tasks,
           tasks[s].next # "done",
           tasks' = [tasks EXCEPT ![s] = NextColumn(s)],
           UNCHANGED <<phase, matrix, ordering>>
    PROVE  /\ Computed' = Computed \cup {tasks[s].column}
           /\ Finished' = Finished \cup {tasks[s].column}
<1> DEFINE o == ordering
           column == tasks[s].column
           new == NextColumn(s)
<1>1. /\ CutsIntoSupernodes(o, matrix.rows) /\ DOMAIN tasks = DOMAIN o.sizes
      /\ column \in ColumnsOf(o, s)
      /\ tasks[s] = [column |-> column, next |-> tasks[s].next]
  BY DEF TasksInv
<1>2. o.offsets[s] \in Nat /\ o.sizes[s] \in Nat \ {0}
  BY <1>1, ColumnsInside
<1>3. /\ new = [column |-> new.column, next |-> new.next]
      /\ IF column = o.offsets[s] + o.sizes[s]
         THEN new.column = column /\ new.next = "done"
         ELSE new.column = column + 1 /\ new.next = "compute"
  <2>1. CASE column = o.offsets[s] + o.sizes[s]
    <3>1. new = [tasks[s] EXCEPT !.next = "done"]
      BY <2>1 DEF NextColumn
    <3>2. new = [column |-> column, next |-> "done"]
      BY <1>1, <3>1
    <3> QED
      BY <2>1, <3>2
  <2>2. CASE column # o.offsets[s] + o.sizes[s]
    <3>1. new = [column |-> column + 1, next |-> "compute"]
      BY <2>2 DEF NextColumn
    <3> QED
      BY <2>2, <3>1
  <2> QED
    BY <2>1, <2>2
<1> HIDE DEF new
<1>4. tasks' = [tasks EXCEPT ![s] = [column |-> new.column, next |-> new.next]]
  BY <1>3 DEF new
<1>5. \A c \in 1..matrix.rows :
          IF c \in ColumnsOf(o, s)
          THEN /\ c \in Computed' <=> \/ c < new.column
                                      \/ c = new.column /\ new.next # "compute"
               /\ c \in Finished' <=> \/ c < new.column
                                      \/ c = new.column /\ new.next = "done"
          ELSE /\ c \in Computed' <=> c \in Computed
               /\ c \in Finished' <=> c \in Finished
  BY <1>4, TaskProgress
<1>6. /\ Computed \subseteq 1..matrix.rows /\ Finished \subseteq 1..matrix.rows
      /\ Computed' \subseteq 1..matrix.rows /\ Finished' \subseteq 1..matrix.rows
  BY DEF Computed, Finished
<1>7. column \in 1..matrix.rows
  BY <1>1, HowFar
<1>8. ASSUME NEW c \in ColumnsOf(o, s)
      PROVE  /\ c \in 1..matrix.rows
             /\ c \in Computed' <=> c \in Computed \/ c = column
             /\ c \in Finished' <=> c \in Finished \/ c = column
  <2>1. /\ c \in 1..matrix.rows
        /\ c \in Computed <=> \/ c < column
                              \/ c = column /\ tasks[s].next # "compute"
        /\ c \in Finished <=> \/ c < column
                              \/ c = column /\ tasks[s].next = "done"
    BY HowFar
  <2>2. /\ c \in (o.offsets[s] + 1)..(o.offsets[s] + o.sizes[s])
        /\ column \in (o.offsets[s] + 1)..(o.offsets[s] + o.sizes[s])
    BY <1>1 DEF ColumnsOf
  <2>3. /\ c < new.column \/ (c = new.column /\ new.next # "compute")
               <=> c <= column
        /\ c < new.column \/ (c = new.column /\ new.next = "done")
               <=> c <= column
    BY <1>2, <1>3, <2>2
  <2>4. c <= column <=> c < column \/ c = column
    BY <1>2, <2>2
  <2> HIDE DEF column
  <2> QED
    BY <1>5, <2>1, <2>3, <2>4
<1>9. ASSUME NEW c \in 1..matrix.rows, c \notin ColumnsOf(o, s)
      PROVE  /\ c \in Computed' <=> c \in Computed \/ c = column
             /\ c \in Finished' <=> c \in Finished \/ c = column
  BY <1>1, <1>5, <1>9
<1> QED
  BY <1>6, <1>7, <1>8, <1>9

\* A column that is to be linked is computed, one that is linked is still not
\* finished.
LEMMA Staying ==
    ASSUME TasksInv, TasksInv', phase = "analyzing", NEW s \in DOMAIN tasks,
           NEW next \in {"link", "publish"},
           tasks' = [tasks EXCEPT ![s] = [column |-> tasks[s].column,
                                          next |-> next]],
           tasks[s].next # "done",
           UNCHANGED <<phase, matrix, ordering>>
    PROVE  /\ Computed' = Computed \cup {tasks[s].column}
           /\ Finished' = Finished
<1> DEFINE column == tasks[s].column
<1>1. /\ column \in ColumnsOf(ordering, s) /\ column \in 1..matrix.rows
  BY HowFar DEF TasksInv
<1>2. \A c \in 1..matrix.rows :
          IF c \in ColumnsOf(ordering, s)
          THEN /\ c \in Computed' <=> \/ c < column
                                      \/ c = column /\ next # "compute"
               /\ c \in Finished' <=> \/ c < column
                                      \/ c = column /\ next = "done"
          ELSE /\ c \in Computed' <=> c \in Computed
               /\ c \in Finished' <=> c \in Finished
  BY TaskProgress
<1>3. /\ Computed \subseteq 1..matrix.rows /\ Finished \subseteq 1..matrix.rows
      /\ Computed' \subseteq 1..matrix.rows /\ Finished' \subseteq 1..matrix.rows
  BY DEF Computed, Finished
<1>4. ASSUME NEW c \in ColumnsOf(ordering, s)
      PROVE  /\ c \in 1..matrix.rows
             /\ c \in Computed <=> \/ c < column
                                   \/ c = column /\ tasks[s].next # "compute"
             /\ c \in Finished <=> \/ c < column
                                   \/ c = column /\ tasks[s].next = "done"
  BY HowFar
<1> HIDE DEF column
<1>5. \A c \in 1..matrix.rows :
          /\ c \in Computed' <=> c \in Computed \/ c = column
          /\ c \in Finished' <=> c \in Finished
  <2>1. ASSUME NEW c \in ColumnsOf(ordering, s), c \in 1..matrix.rows
        PROVE  /\ c \in Computed' <=> c \in Computed \/ c = column
               /\ c \in Finished' <=> c \in Finished
    BY <1>2, <1>4, <2>1 DEF column
  <2>2. ASSUME NEW c \in 1..matrix.rows, c \notin ColumnsOf(ordering, s)
        PROVE  /\ c \in Computed' <=> c \in Computed \/ c = column
               /\ c \in Finished' <=> c \in Finished
    BY <1>1, <1>2, <2>2
  <2> QED
    BY <2>1, <2>2
<1>6. Computed' = Computed \cup {column} /\ Finished' = Finished
  BY <1>1, <1>3, <1>5
<1> QED
  BY <1>6 DEF column

LEMMA UpToIsCounted ==
    ASSUME NEW l \in Nat
    PROVE  IsFiniteSet(1..l) /\ Cardinality(1..l) = l
BY FS_Interval

LEMMA TreeFacts ==
    ASSUME Grounds, matrix.rows \in Nat
    PROVE  /\ \A j \in 1..matrix.rows :
                  /\ Tree[j] = None \/ (Tree[j] \in 1..matrix.rows /\ Tree[j] > j)
                  /\ Tree[j] = None <=> Rows[j] = {}
                  /\ Tree[j] # None => Tree[j] \in Rows[j]
           /\ \A j \in 1..matrix.rows :
                  Kids(Rows, matrix.rows, j)
                      = {k \in 1..matrix.rows : Tree[k] = j}
<1> DEFINE n == matrix.rows
<1>1. \A j \in 1..n : Rows[j] \subseteq 1..n /\ \A i \in Rows[j] : i > j
  BY DEF Grounds, IsFill
<1>2. ASSUME NEW j \in 1..n, Rows[j] # {}
      PROVE  /\ Min(Rows[j]) \in Rows[j] /\ Min(Rows[j]) \in 1..n
             /\ Min(Rows[j]) > j
  BY <1>1, <1>2, MinFacts
<1>3. \A j \in 1..n : Tree[j] = IF Rows[j] = {} THEN None ELSE Min(Rows[j])
  BY DEF Tree
<1>4. ASSUME NEW j \in 1..n
      PROVE  /\ Tree[j] = None \/ (Tree[j] \in 1..n /\ Tree[j] > j)
             /\ Tree[j] = None <=> Rows[j] = {}
             /\ Tree[j] # None => Tree[j] \in Rows[j]
  BY <1>2, <1>3 DEF None
<1>5. ASSUME NEW j \in 1..n
      PROVE  Kids(Rows, n, j) = {k \in 1..n : Tree[k] = j}
  BY <1>3 DEF Kids, None
<1> QED
  BY <1>4, <1>5

\* Below a supernode that is done all are.
LEMMA DoneBelow ==
    ASSUME TasksInv, phase = "analyzing", Grounds, OrderInv,
           NEW s \in DOMAIN tasks, NEW c \in DOMAIN tasks, c \in Lines[s],
           IsDone(c)
    PROVE  IsDone(s)
<1> DEFINE m == Len(ordering.sizes)
           Wrong == {t \in 1..m : ~IsDone(t) /\ \E u \in Lines[t] : IsDone(u)}
<1>1. /\ m \in Nat /\ DOMAIN tasks = 1..m /\ DOMAIN Up = 1..m
      /\ AreLines(Lines, Up, m)
  BY SupernodeFacts DEF TasksInv, Grounds
<1>2. ASSUME NEW t \in Wrong PROVE \E v \in Wrong : v > t
  <2>1. PICK u \in Lines[t] : IsDone(u)
    BY <1>2
  <2>2. t \in 1..m /\ ~IsDone(t) /\ u # t
    BY <1>2, <2>1
  <2>3. Up[t] \in 1..m /\ Up[t] > t /\ u \in Lines[Up[t]]
    BY <1>1, <2>1, <2>2 DEF AreLines
  <2>4. ~Begun(Up[t])
    BY <1>1, <2>2, <2>3 DEF OrderInv
  <2>5. ~IsDone(Up[t])
    BY <2>4 DEF Begun, IsDone
  <2> QED
    BY <2>1, <2>3, <2>5
<1>3. Wrong = {}
  <2> Wrong \subseteq 1..m
    OBVIOUS
  <2> HIDE DEF Wrong
  <2> HIDE DEF m
  <2> QED
    BY <1>1, <1>2, FromAbove
<1> QED
  BY <1>1, <1>3

\* So a column finds its children finished, once those of its supernode are.
LEMMA KidsFinished ==
    ASSUME TasksInv, phase = "analyzing", Grounds, OrderInv, matrix.rows \in Nat,
           NEW s \in DOMAIN tasks, NEW column \in ColumnsOf(ordering, s),
           column <= tasks[s].column,
           \A c \in DOMAIN tasks : Up[c] = s => IsDone(c),
           NEW k \in 1..matrix.rows, Tree[k] = column
    PROVE  k \in Finished
<1> DEFINE m == Len(ordering.sizes)
<1>1. /\ m \in Nat /\ DOMAIN tasks = 1..m /\ DOMAIN ordering.sizes = 1..m
      /\ DOMAIN Up = 1..m /\ AreLines(Lines, Up, m)
      /\ CutsIntoSupernodes(ordering, matrix.rows)
  BY SupernodeFacts DEF TasksInv, Grounds
<1>2. PICK t \in DOMAIN tasks : k \in ColumnsOf(ordering, t)
  BY EveryColumn
<1>3. column \in 1..matrix.rows
  BY HowFar
<1>4. k < column /\ column \in Rows[k]
  BY <1>3, TreeFacts DEF None
<1>5. s \in Lines[t]
  BY <1>1, <1>2, <1>4 DEF Grounds, RowsAbove
<1>6. CASE t = s
  <2>1. k < tasks[s].column
    <3>1. tasks[s].column \in 1..matrix.rows
      BY <1>1, ColumnsInside DEF TasksInv
    <3> QED
      BY <1>3, <1>4, <3>1
  <2> QED
    BY <1>2, <1>6, <2>1, HowFar
<1>7. CASE t # s
  <2>1. PICK c \in 1..m : Up[c] = s /\ c \in Lines[t]
    <3>1. t \in 1..m
      BY <1>1
    <3> HIDE DEF m
    <3> QED
      BY <1>1, <1>5, <1>7, <3>1, LinesArrive
  <2>2. IsDone(t)
    BY <1>1, <2>1, DoneBelow
  <2>3. tasks[t].column = ordering.offsets[t] + ordering.sizes[t]
        /\ tasks[t].next = "done"
    BY <2>2 DEF OrderInv, IsDone
  <2>4. k <= tasks[t].column
    BY <1>1, <1>2, <2>3, ColumnsInside DEF ColumnsOf
  <2>5. k < tasks[t].column \/ k = tasks[t].column
    <3>1. tasks[t].column \in Nat
      BY <1>1, <2>3, ColumnsInside
    <3> QED
      BY <2>4, <3>1
  <2> QED
    BY <1>2, <2>3, <2>5, HowFar
<1> QED
  BY <1>6, <1>7

LEMMA ComputedKidsFinished ==
    ASSUME TasksInv, phase = "analyzing", Grounds, OrderInv, matrix.rows \in Nat,
           NEW column \in Computed, NEW k \in 1..matrix.rows, Tree[k] = column
    PROVE  k \in Finished
<1>1. column \in 1..matrix.rows
  BY DEF Computed
<1>2. PICK s \in DOMAIN tasks : column \in ColumnsOf(ordering, s)
  BY <1>1, EveryColumn
<1>3. \/ column < tasks[s].column
      \/ column = tasks[s].column /\ tasks[s].next # "compute"
  BY <1>2, HowFar
<1>4. CutsIntoSupernodes(ordering, matrix.rows) /\ s \in DOMAIN ordering.sizes
      /\ tasks[s].column \in ColumnsOf(ordering, s)
  BY DEF TasksInv
<1>5. tasks[s].column \in 1..matrix.rows /\ ordering.offsets[s] \in Nat
  BY <1>4, ColumnsInside
<1>6. column <= tasks[s].column
  BY <1>1, <1>3, <1>5
<1>7. column >= ordering.offsets[s] + 1
  BY <1>2, <1>4, ColumnsInside DEF ColumnsOf
<1>8. Begun(s)
  BY <1>1, <1>3, <1>5, <1>7 DEF Begun
<1>9. \A c \in DOMAIN tasks : Up[c] = s => IsDone(c)
  BY <1>8 DEF OrderInv
<1> QED
  BY <1>2, <1>6, <1>9, KidsFinished

\* The list that the code walks is the list that the invariant speaks of.
LEMMA ListHasKids ==
    ASSUME ForestInv, phase = "analyzing", NEW column \in 1..matrix.rows,
           matrix.rows \in Nat
    PROVE  \E L : /\ Lists(column, L) /\ ChildList(column) = L
                  /\ L \in Seq(1..matrix.rows)
                  /\ Range(L) = {c \in Finished : Tree[c] = column}
                  /\ Len(L) = Cardinality(Range(L))
<1>1. child_next \in Seq(Nat) /\ Len(child_next) = matrix.rows
  BY DEF ForestInv, ShapeInv
<1>2. PICK L : Lists(column, L)
  BY DEF ForestInv, ListsInv
<1>3. IsList(child_heads[column], child_next, L, matrix.rows)
      /\ Range(L) = {c \in Finished : Tree[c] = column}
  BY <1>2 DEF Lists
<1>4. ChildList(column) = L
  BY <1>1, <1>3, ListIsFound
<1>5. Len(L) = Cardinality(Range(L))
  <2>1. /\ L \in Seq(1..matrix.rows) /\ \A i, j \in 1..Len(L) : L[i] = L[j] => i = j
    BY <1>3 DEF IsList
  <2>2. L \in Bijection(1..Len(L), Range(L))
    <3>1. L \in [1..Len(L) -> Range(L)] /\ Range(L) = {L[i] : i \in 1..Len(L)}
      BY <2>1 DEF Range
    <3>2. L \in Injection(1..Len(L), Range(L))
      BY <2>1, <3>1 DEF Injection, IsInjective
    <3>3. L \in Surjection(1..Len(L), Range(L))
      BY <3>1 DEF Surjection
    <3> QED
      BY <3>2, <3>3 DEF Bijection
  <2>3. IsFiniteSet(1..Len(L)) /\ Cardinality(1..Len(L)) = Len(L)
    <3>1. Len(L) \in Nat
      BY <2>1
    <3> QED
      BY <3>1, UpToIsCounted
  <2> QED
    BY <2>2, <2>3, FS_Bijection DEF ExistsBijection
<1> QED
  BY <1>2, <1>3, <1>4, <1>5 DEF IsList

-----------------------------------------------------------------------------
(***************************************************************************)
(* Steps of the tasks.                                                     *)
(***************************************************************************)
\* What the analysis works with stays.
LEMMA GroundsStay ==
    ASSUME UNCHANGED <<matrix, ordering>>
    PROVE  /\ Rows' = Rows /\ Tree' = Tree /\ Up' = Up /\ Grounds' = Grounds
<1>1. matrix' = matrix /\ ordering' = ordering
  OBVIOUS
<1>2. Rows' = Rows
  BY <1>1 DEF Rows
<1>3. Tree' = Tree
  BY <1>1, <1>2 DEF Tree
<1>4. Own' = Own
  BY <1>1 DEF Own, OwnRows
<1>5. Up' = Up /\ Lines' = Lines
  BY <1>1 DEF Up, Lines
<1>6. RowsAbove' = RowsAbove
  BY <1>1, <1>2, <1>5 DEF RowsAbove
<1>7. Grounds' = Grounds
  BY <1>1, <1>2, <1>4, <1>5, <1>6 DEF Grounds
<1> QED
  BY <1>2, <1>3, <1>5, <1>7

\* A task moves only when the children of its supernode are done.
LEMMA OrderStays ==
    ASSUME TasksInv, phase = "analyzing", OrderInv,
           NEW s \in DOMAIN tasks, tasks[s].next # "done",
           NEW column, NEW next,
           tasks' = [tasks EXCEPT ![s] = [column |-> column, next |-> next]],
           \A t \in DOMAIN tasks : Up[t] = s => IsDone(t),
           next = "done" => column = ordering.offsets[s] + ordering.sizes[s],
           next \in {"link", "publish"} => Tree[column] # None,
           UNCHANGED <<phase, matrix, ordering>>
    PROVE  OrderInv'
<1>1. /\ DOMAIN tasks' = DOMAIN tasks
      /\ tasks'[s].column = column /\ tasks'[s].next = next
      /\ \A t \in DOMAIN tasks : t # s => tasks'[t] = tasks[t]
  OBVIOUS
<1>2. Tree' = Tree /\ Up' = Up /\ ordering' = ordering
  BY GroundsStay
<1>3. \A t \in DOMAIN tasks : t # s => /\ Begun(t)' = Begun(t)
                                       /\ IsDone(t)' = IsDone(t)
  BY <1>1, <1>2 DEF Begun, IsDone
<1>4. \A t \in DOMAIN tasks : IsDone(t) => IsDone(t)'
  <2>1. ~IsDone(s)
    BY DEF IsDone
  <2> QED
    BY <1>3, <2>1
<1>5. ASSUME NEW t \in DOMAIN tasks, NEW u \in DOMAIN tasks,
             Up[u] = t, Begun(t)'
      PROVE  IsDone(u)'
  <2>1. CASE t = s
    BY <1>4, <1>5, <2>1
  <2>2. CASE t # s
    <3>1. Begun(t)
      BY <1>3, <1>5, <2>2
    <3>2. IsDone(u)
      BY <1>5, <3>1 DEF OrderInv
    <3> QED
      BY <1>4, <3>2
  <2> QED
    BY <2>1, <2>2
<1>6. ASSUME NEW t \in DOMAIN tasks
      PROVE  /\ IsDone(t)' => tasks'[t].column
                                  = ordering.offsets[t] + ordering.sizes[t]
             /\ tasks'[t].next \in {"link", "publish"}
                    => Tree[tasks'[t].column] # None
  <2>1. CASE t = s
    BY <1>1, <2>1 DEF IsDone
  <2>2. CASE t # s
    BY <1>1, <2>2 DEF OrderInv, IsDone
  <2> QED
    BY <2>1, <2>2
<1> QED
  BY <1>1, <1>2, <1>5, <1>6 DEF OrderInv

\* What comes next is as good as what the task had.
LEMMA NextColumnFits ==
    ASSUME TasksInv, phase = "analyzing", NEW s \in DOMAIN tasks
    PROVE  /\ NextColumn(s) = [column |-> NextColumn(s).column,
                               next |-> NextColumn(s).next]
           /\ NextColumn(s).next \in {"compute", "done"}
           /\ NextColumn(s).next = "done" =>
                  NextColumn(s).column
                      = ordering.offsets[s] + ordering.sizes[s]
<1>1. tasks[s] = [column |-> tasks[s].column, next |-> tasks[s].next]
  BY DEF TasksInv
<1>2. CASE tasks[s].column = ordering.offsets[s] + ordering.sizes[s]
  <2>1. [tasks[s] EXCEPT !.next = "done"]
            = [column |-> tasks[s].column, next |-> "done"]
    BY <1>1
  <2> QED
    BY <1>2, <2>1, TaskFacts DEF NextColumn
<1>3. CASE tasks[s].column # ordering.offsets[s] + ordering.sizes[s]
  BY <1>3 DEF NextColumn
<1> QED
  BY <1>2, <1>3

-----------------------------------------------------------------------------
(***************************************************************************)
(* A column is computed.                                                   *)
(***************************************************************************)
LEMMA FreedFacts ==
    ASSUME NEW n \in Nat, NEW st, DOMAIN st = 1..n, NEW column
    PROVE  /\ DOMAIN Freed(st, column) = 1..n
           /\ \A c \in 1..n : c \notin Range(ChildList(column)) =>
                  Freed(st, column)[c] = st[c]
<1> DEFINE kept == [c \in 1..n |-> IF c \in Range(ChildList(column)) THEN {}
                                   ELSE st[c]]
<1>1. Freed(st, column) = <<>> \o kept
  BY DEF Freed
<1>2. kept \in Seq({kept[c] : c \in 1..n})
  OBVIOUS
<1>3. <<>> \o kept = kept
  BY <1>2
<1> QED
  BY <1>1, <1>3

LEMMA TailRange ==
    ASSUME NEW S, NEW L \in Seq(S), L # <<>>
    PROVE  Range(L) = {L[1]} \cup Range(Tail(L))
<1>1. /\ Len(L) \in Nat /\ Len(L) > 0 /\ DOMAIN L = 1..Len(L)
      /\ DOMAIN Tail(L) = 1..(Len(L) - 1)
      /\ \A i \in 1..(Len(L) - 1) : Tail(L)[i] = L[i + 1]
  OBVIOUS
<1>2. \A i \in 1..Len(L) : i = 1 \/ (i - 1 \in 1..(Len(L) - 1) /\ (i - 1) + 1 = i)
  BY <1>1
<1>3. \A i \in 1..(Len(L) - 1) : i + 1 \in 1..Len(L)
  BY <1>1
<1>4. Range(L) = {L[i] : i \in 1..Len(L)}
      /\ Range(Tail(L)) = {Tail(L)[i] : i \in 1..(Len(L) - 1)}
  BY <1>1 DEF Range
<1>5. ASSUME NEW i \in 1..Len(L)
      PROVE  L[i] = L[1] \/ \E k \in 1..(Len(L) - 1) : L[i] = Tail(L)[k]
  BY <1>1, <1>2
<1>6. ASSUME NEW k \in 1..(Len(L) - 1) PROVE \E i \in 1..Len(L) : L[i] = Tail(L)[k]
  BY <1>1, <1>3
<1>7. 1 \in 1..Len(L)
  BY <1>1
<1>8. \A x : x \in Range(L) <=> x = L[1] \/ x \in Range(Tail(L))
  <2>1. ASSUME NEW x, x \in Range(L) PROVE x = L[1] \/ x \in Range(Tail(L))
    BY <1>4, <1>5, <2>1
  <2>2. ASSUME NEW x, x = L[1] \/ x \in Range(Tail(L)) PROVE x \in Range(L)
    BY <1>4, <1>6, <1>7, <2>2
  <2> QED
    BY <2>1, <2>2
<1> QED
  BY <1>8

\* What the task writes.
LEMMA ColumnIsExact ==
    ASSUME TasksInv, ForestInv, phase = "analyzing", matrix.rows \in Nat,
           NEW s \in DOMAIN tasks, tasks[s].next = "compute", MayCompute(s)
    PROVE  LET column == tasks[s].column
           IN  /\ column \in 1..matrix.rows /\ column \notin Computed
               /\ FlagsFound(column) = {{}}
               /\ ColumnStructure(column, {}) = Rows[column]
               /\ Range(ChildList(column))
                      = {c \in Finished : Tree[c] = column}
               /\ \A t \in DOMAIN tasks : Up[t] = s => IsDone(t)
<1> DEFINE n == matrix.rows
           column == tasks[s].column
<1>1. /\ column \in ColumnsOf(ordering, s) /\ column \in 1..n
      /\ column \notin Computed
  <2>1. column \in ColumnsOf(ordering, s)
    BY DEF TasksInv
  <2>2. column \in 1..n /\ (column \in Computed <=>
            column < tasks[s].column \/ (column = tasks[s].column
                                         /\ tasks[s].next # "compute"))
    BY <2>1, HowFar
  <2> QED
    BY <2>1, <2>2
<1>2. Grounds /\ OrderInv /\ ResultInv
  BY DEF ForestInv
<1>3. \A t \in DOMAIN tasks : Up[t] = s => IsDone(t)
  <2>1. /\ \A c \in Range(Children(s)) : IsDone(c)
        /\ IsForest(ordering.forest, s)
        /\ DOMAIN tasks = DOMAIN Up
    BY <1>2 DEF MayCompute, Grounds, TasksInv
  <2> QED
    BY <2>1 DEF IsForest, Children, Up
<1>4. FlagsFound(column) = {{}}
  <2>1. \A row : <<row, column>> \notin stamps
    BY <1>1, <1>2 DEF ResultInv
  <2> QED
    BY <2>1 DEF FlagsFound
<1>5. PICK L : /\ ChildList(column) = L /\ L \in Seq(1..n)
               /\ Range(L) = {c \in Finished : Tree[c] = column}
  BY <1>1, ListHasKids
<1>6. Range(L) = Kids(Rows, n, column)
  <2>1. Kids(Rows, n, column) = {k \in 1..n : Tree[k] = column}
    BY <1>1, <1>2, TreeFacts
  <2>2. \A k \in 1..n : Tree[k] = column => k \in Finished
    <3>1. column <= tasks[s].column
      BY <1>1
    <3> QED
      BY <1>1, <1>2, <1>3, <3>1, KidsFinished
  <2>3. Finished \subseteq 1..n
    BY DEF Finished
  <2> QED
    BY <1>5, <2>1, <2>2, <2>3
<1>7. ASSUME NEW c \in Range(L) PROVE structures[c] = Rows[c]
  <2>1. c \in Finished /\ Tree[c] = column
    BY <1>5, <1>7
  <2>2. c \in Computed /\ Tree[c] \notin Finished
    BY <1>1, <2>1, FinishedIsComputed
  <2> QED
    BY <1>2, <2>2 DEF ResultInv
<1>8. /\ Rows[column] = (Own[column] \cup UNION {Rows[k] : k \in Range(L)})
                            \ {column}
      /\ OwnRows(column) = Own[column]
  BY <1>1, <1>2, <1>6, ChildrenBringFill DEF Grounds, Own
<1>9. ColumnStructure(column, {}) = Rows[column]
  <2> DEFINE others == UNION {structures[c] : c \in Range(Tail(L))}
  <2>1. ColumnStructure(column, {})
            = IF L = <<>> THEN OwnRows(column)
              ELSE (structures[L[1]] \cup ((others \cup OwnRows(column)) \ {}))
                       \ {column}
    BY <1>5 DEF ColumnStructure
  <2>2. CASE L = <<>>
    <3>1. Range(L) = {}
      BY <2>2 DEF Range
    <3>2. column \notin Own[column]
      BY <1>1, <1>2 DEF Grounds, IsFill
    <3> QED
      BY <1>8, <2>1, <2>2, <3>1, <3>2
  <2>3. CASE L # <<>>
    <3>1. Range(L) = {L[1]} \cup Range(Tail(L))
      BY <1>5, <2>3, TailRange
    <3>2. UNION {Rows[k] : k \in Range(L)} = structures[L[1]] \cup others
      BY <1>7, <3>1
    <3> HIDE DEF others
    <3> QED
      BY <1>8, <2>1, <2>3, <3>2
  <2> QED
    BY <2>2, <2>3
<1> QED
  BY <1>1, <1>3, <1>4, <1>5, <1>9

LEMMA ComputeKeepsForest ==
    ASSUME TasksInv, LocksInv, ForestInv, phase = "analyzing",
           matrix.rows \in Nat, NEW s \in DOMAIN tasks,
           ComputeColumn(s), UNCHANGED <<phase, matrix, ordering>>
    PROVE  ForestInv'
<1> DEFINE n == matrix.rows
           column == tasks[s].column
           parent == Tree[column]
           computed == [structures EXCEPT ![column] = Rows[column]]
<1>1. TasksInv'
  BY ComputeStep
<1>2. /\ tasks[s].next = "compute" /\ MayCompute(s)
      /\ UNCHANGED <<child_heads, child_next, child_locks>>
      /\ stamps' = stamps \cup {<<row, column>> : row \in
             UNION {structures[c] : c \in Range(ChildList(column))}}
  BY DEF ComputeColumn
<1>3. /\ column \in 1..n /\ column \notin Computed
      /\ FlagsFound(column) = {{}}
      /\ ColumnStructure(column, {}) = Rows[column]
      /\ Range(ChildList(column)) = {c \in Finished : Tree[c] = column}
      /\ \A t \in DOMAIN tasks : Up[t] = s => IsDone(t)
  BY <1>2, ColumnIsExact
<1>4. parent = IF Rows[column] = {} THEN None ELSE Min(Rows[column])
  BY <1>3 DEF Tree
<1>5. /\ parents' = [parents EXCEPT ![column] = parent]
      /\ degrees' = [degrees EXCEPT ![column] = Cardinality(Rows[column])]
      /\ structures' = IF parent = None THEN Freed(computed, column)
                       ELSE computed
      /\ tasks' = [tasks EXCEPT ![s] =
             IF parent = None THEN NextColumn(s)
             ELSE [@ EXCEPT !.next = "link"]]
  <2> HIDE DEF n
  <2>1. PICK flagged \in FlagsFound(column) :
            LET rows == ColumnStructure(column, flagged)
                p == IF rows = {} THEN None ELSE Min(rows)
                cs == [structures EXCEPT ![column] = rows]
            IN  /\ parents' = [parents EXCEPT ![column] = p]
                /\ degrees' = [degrees EXCEPT ![column] = Cardinality(rows)]
                /\ structures' = IF p = None THEN Freed(cs, column) ELSE cs
                /\ tasks' = [tasks EXCEPT ![s] =
                       IF p = None THEN NextColumn(s)
                       ELSE [@ EXCEPT !.next = "link"]]
    BY DEF ComputeColumn
  <2>2. flagged = {}
    BY <1>3
  <2>3. ColumnStructure(column, flagged) = Rows[column]
    BY <1>3, <2>2
  <2> QED
    BY <1>4, <2>1, <2>3
<1>6. /\ Grounds /\ OrderInv /\ ShapeInv /\ ResultInv /\ ListsInv
      /\ child_next \in Seq(Nat)
  BY DEF ForestInv
<1>7. tasks[s] = [column |-> column, next |-> "compute"]
  BY <1>2 DEF TasksInv
<1>8. /\ Computed' = Computed \cup {column}
      /\ Finished' = IF parent = None THEN Finished \cup {column} ELSE Finished
      /\ OrderInv'
  <2>1. CASE parent = None
    <3>1. tasks' = [tasks EXCEPT ![s] = NextColumn(s)]
      BY <1>5, <2>1
    <3>2. /\ Computed' = Computed \cup {column}
          /\ Finished' = Finished \cup {column}
      BY <1>1, <1>2, <3>1, GoingOn
    <3>3. OrderInv'
      <4>1. tasks' = [tasks EXCEPT ![s] =
                [column |-> NextColumn(s).column, next |-> NextColumn(s).next]]
        BY <3>1, NextColumnFits
      <4> QED
        BY <1>2, <1>3, <1>6, <4>1, NextColumnFits, OrderStays
    <3> QED
      BY <2>1, <3>2, <3>3
  <2>2. CASE parent # None
    <3>1. tasks' = [tasks EXCEPT ![s] = [column |-> column, next |-> "link"]]
      <4>1. [tasks[s] EXCEPT !.next = "link"]
                = [column |-> column, next |-> "link"]
        BY <1>7
      <4> QED
        BY <1>5, <2>2, <4>1
    <3>2. Computed' = Computed \cup {column} /\ Finished' = Finished
      BY <1>1, <1>2, <3>1, Staying
    <3>3. OrderInv'
      BY <1>2, <1>3, <1>6, <2>2, <3>1, OrderStays
    <3> QED
      BY <2>2, <3>2, <3>3
  <2> QED
    BY <2>1, <2>2
<1>9. Tree' = Tree /\ Rows' = Rows /\ Grounds' = Grounds /\ matrix' = matrix
  BY GroundsStay
<1>10. DOMAIN structures = 1..n /\ DOMAIN parents = 1..n /\ DOMAIN degrees = 1..n
  BY <1>6 DEF ShapeInv
<1>11. /\ DOMAIN structures' = 1..n
       /\ structures'[column] = Rows[column]
       /\ \A c \in 1..n : c # column /\ (parent = None => Tree[c] # column
                                                          \/ c \notin Finished)
              => structures'[c] = structures[c]
  <2>1. /\ DOMAIN computed = 1..n
        /\ \A c \in 1..n : computed[c] = IF c = column THEN Rows[column]
                                         ELSE structures[c]
    BY <1>10
  <2> HIDE DEF computed
  <2>2. CASE parent # None
    BY <1>3, <1>5, <2>1, <2>2
  <2>3. CASE parent = None
    <3>1. /\ DOMAIN Freed(computed, column) = 1..n
          /\ \A c \in 1..n : c \notin Range(ChildList(column)) =>
                 Freed(computed, column)[c] = computed[c]
      BY <2>1, FreedFacts
    <3>2. column \notin Range(ChildList(column))
      BY <1>3, FinishedIsComputed
    <3> QED
      BY <1>3, <1>5, <2>1, <2>3, <3>1, <3>2
  <2> QED
    BY <2>2, <2>3
<1>12. ShapeInv'
  BY <1>2, <1>5, <1>6, <1>9, <1>11 DEF ShapeInv
<1>13. ResultInv'
  <2>1. ASSUME NEW c \in Computed, c # column
        PROVE  /\ parents'[c] = Tree[c] /\ degrees'[c] = Cardinality(Rows[c])
               /\ Tree[c] \notin Finished' => structures'[c] = Rows[c]
    <3>1. /\ c \in 1..n /\ parents[c] = Tree[c]
          /\ degrees[c] = Cardinality(Rows[c])
          /\ Tree[c] \notin Finished => structures[c] = Rows[c]
      BY <1>6 DEF ResultInv, Computed
    <3>2. parents'[c] = parents[c] /\ degrees'[c] = degrees[c]
      BY <1>5, <1>10, <2>1, <3>1
    <3>3. ASSUME Tree[c] \notin Finished' PROVE structures'[c] = Rows[c]
      <4>1. Tree[c] \notin Finished /\ (parent = None => Tree[c] # column)
        BY <1>8, <3>3
      <4> QED
        BY <1>11, <2>1, <3>1, <4>1
    <3> QED
      BY <3>1, <3>2, <3>3
  <2>2. parents'[column] = Tree[column]
        /\ degrees'[column] = Cardinality(Rows[column])
    BY <1>3, <1>5, <1>10
  <2>3. \A row, c : <<row, c>> \in stamps' => c \in Computed'
    <3>1. \A row, c : <<row, c>> \in stamps => c \in Computed
      BY <1>6 DEF ResultInv
    <3>2. ASSUME NEW row, NEW c, <<row, c>> \in stamps'
          PROVE  <<row, c>> \in stamps \/ c = column
      BY <1>2, <3>2
    <3> QED
      BY <1>8, <3>1, <3>2
  <2>4. \A c \in Computed' :
            /\ parents'[c] = Tree[c] /\ degrees'[c] = Cardinality(Rows[c])
            /\ Tree[c] \notin Finished' => structures'[c] = Rows[c]
    <3> HIDE DEF column
    <3> QED
      BY <1>8, <1>11, <2>1, <2>2
  <2> QED
    BY <1>9, <2>3, <2>4 DEF ResultInv
<1>14. ListsInv'
  <2>1. ASSUME NEW list \in 1..n PROVE \E L : Lists(list, L)'
    <3>1. PICK L : Lists(list, L)
      BY <1>6 DEF ListsInv
    <3>2. {c \in Finished' : Tree[c] = list} = {c \in Finished : Tree[c] = list}
      <4>1. list # None
        BY DEF None
      <4> QED
        BY <1>8, <4>1
    <3> QED
      BY <1>2, <1>9, <3>1, <3>2 DEF Lists
  <2>2. ASSUME NEW t \in DOMAIN tasks', tasks'[t].next = "publish"
        PROVE  child_next'[tasks'[t].column]
                   = child_heads'[parents'[tasks'[t].column]]
    <3>1. tasks'[s].next # "publish"
      <4>1. CASE parent = None
        BY <1>5, <4>1, NextColumnFits
      <4>2. CASE parent # None
        BY <1>5, <1>7, <4>2
      <4> QED
        BY <4>1, <4>2
    <3>2. t \in DOMAIN tasks /\ t # s /\ tasks'[t] = tasks[t]
      BY <1>5, <2>2, <3>1
    <3>3. tasks[t].column # column
      BY <3>2, TaskFacts
    <3>4. parents'[tasks[t].column] = parents[tasks[t].column]
      <4>1. tasks[t].column \in 1..n
        BY <3>2, <1>10, TaskFacts
      <4> QED
        BY <1>5, <1>10, <3>3, <4>1
    <3>5. child_next[tasks[t].column] = child_heads[parents[tasks[t].column]]
      BY <1>6, <2>2, <3>2 DEF ListsInv
    <3> QED
      BY <1>2, <3>2, <3>4, <3>5
  <2> QED
    BY <1>9, <2>1, <2>2 DEF ListsInv
<1> QED
  BY <1>2, <1>6, <1>8, <1>9, <1>12, <1>13, <1>14 DEF ForestInv

LEMMA FirstMember ==
    ASSUME NEW S, NEW L \in Seq(S), L # <<>>
    PROVE  L[1] \in S
OBVIOUS

\* Of a task that links or publishes.
LEMMA LinkingFacts ==
    ASSUME TasksInv, ForestInv, phase = "analyzing", matrix.rows \in Nat,
           NEW s \in DOMAIN tasks, tasks[s].next \in {"link", "publish"}
    PROVE  LET column == tasks[s].column
               parent == parents[column]
           IN  /\ column \in 1..matrix.rows /\ parent \in 1..matrix.rows
               /\ column \in ColumnsOf(ordering, s)
               /\ column \in Computed /\ column \notin Finished
               /\ parent = Tree[column] /\ parent # column
               /\ \A t \in DOMAIN tasks : Up[t] = s => IsDone(t)
<1> DEFINE column == tasks[s].column
<1>1. column \in ColumnsOf(ordering, s)
  BY DEF TasksInv
<1>2. column \in 1..matrix.rows /\ column \in Computed
  BY <1>1, HowFar
<1>3. column \notin Finished
  <2>1. column \in Finished <=> column < tasks[s].column
                                    \/ (column = tasks[s].column
                                        /\ tasks[s].next = "done")
    BY <1>1, HowFar
  <2>2. ~(column < tasks[s].column)
    BY <1>2
  <2> QED
    BY <2>1, <2>2
<1>4. Grounds /\ OrderInv /\ ResultInv
  BY DEF ForestInv
<1>5. parents[column] = Tree[column] /\ Tree[column] # None
  BY <1>2, <1>4 DEF ResultInv, OrderInv
<1>6. Tree[column] \in 1..matrix.rows /\ Tree[column] > column
  BY <1>2, <1>4, <1>5, TreeFacts
<1>7. \A t \in DOMAIN tasks : Up[t] = s => IsDone(t)
  BY <1>4 DEF OrderInv, Begun
<1> QED
  BY <1>1, <1>2, <1>3, <1>5, <1>6, <1>7

LEMMA LinkKeepsForest ==
    ASSUME TasksInv, LocksInv, ForestInv, phase = "analyzing",
           matrix.rows \in Nat, NEW s \in DOMAIN tasks,
           LinkColumn(s), UNCHANGED <<phase, matrix, ordering>>
    PROVE  ForestInv'
<1> DEFINE n == matrix.rows
           column == tasks[s].column
           parent == parents[column]
<1>1. TasksInv'
  BY LinkStep
<1>2. /\ tasks[s].next = "link" /\ ~child_locks[parent]
      /\ child_locks' = [child_locks EXCEPT ![parent] = TRUE]
      /\ child_next' = [child_next EXCEPT ![column] = child_heads[parent]]
      /\ tasks' = [tasks EXCEPT ![s].next = "publish"]
      /\ UNCHANGED <<child_heads, structures, stamps, parents, degrees>>
  BY DEF LinkColumn
<1>3. /\ column \in 1..n /\ parent \in 1..n
      /\ column \in Computed /\ column \notin Finished
      /\ parent = Tree[column]
      /\ \A t \in DOMAIN tasks : Up[t] = s => IsDone(t)
  BY <1>2, LinkingFacts
<1>4. tasks' = [tasks EXCEPT ![s] = [column |-> column, next |-> "publish"]]
  <2>1. tasks[s] = [column |-> column, next |-> "link"]
    BY <1>2 DEF TasksInv
  <2>2. [tasks[s] EXCEPT !.next = "publish"]
            = [column |-> column, next |-> "publish"]
    BY <2>1
  <2> QED
    BY <1>2, <2>2
<1>5. Computed' = Computed /\ Finished' = Finished
  <2>1. Computed' = Computed \cup {column} /\ Finished' = Finished
    BY <1>1, <1>2, <1>4, Staying
  <2> QED
    BY <1>3, <2>1
<1>6. Tree' = Tree /\ Rows' = Rows /\ Grounds' = Grounds /\ matrix' = matrix
  BY GroundsStay
<1>7. /\ Grounds /\ OrderInv /\ ShapeInv /\ ResultInv /\ ListsInv
      /\ child_next \in Seq(Nat)
  BY DEF ForestInv
<1>8. OrderInv'
  <2>1. Tree[column] # None /\ tasks[s].next # "done" /\ OrderInv
    BY <1>2, <1>3, <1>7 DEF None
  <2>2. \A t \in DOMAIN tasks : Up[t] = s => IsDone(t)
    BY <1>3
  <2> HIDE DEF column
  <2> QED
    BY <1>4, <2>1, <2>2, OrderStays
<1>9. ResultInv'
  BY <1>2, <1>5, <1>6, <1>7 DEF ResultInv
<1>10. child_heads[parent] \in Nat
  <2>1. PICK L : Lists(parent, L)
    BY <1>3, <1>7 DEF ListsInv
  <2>2. L \in Seq(1..n) /\ child_heads[parent] = (IF L = <<>> THEN None ELSE L[1])
    BY <2>1 DEF Lists, IsList
  <2>3. ASSUME L # <<>> PROVE L[1] \in 1..n
    <3>1. L \in Seq(1..n)
      BY <2>2
    <3> QED
      BY <2>3, <3>1, FirstMember
  <2> HIDE DEF parent
  <2> QED
    BY <2>2, <2>3 DEF None
<1>11. /\ child_next' \in Seq(Nat) /\ Len(child_next') = n
       /\ child_next'[column] = child_heads[parent]
       /\ \A c \in 1..n : c # column => child_next'[c] = child_next[c]
  <2>1. Len(child_next) = n /\ DOMAIN child_next = 1..n
    BY <1>7 DEF ShapeInv
  <2> HIDE DEF parent, column, n
  <2> QED
    BY <1>2, <1>3, <1>7, <1>10, <2>1
<1>12. ShapeInv'
  BY <1>2, <1>6, <1>7, <1>11 DEF ShapeInv
<1>13. ListsInv'
  <2>1. ASSUME NEW list \in 1..n PROVE \E L : Lists(list, L)'
    <3>1. PICK L : Lists(list, L)
      BY <1>7 DEF ListsInv
    <3>2. /\ L \in Seq(1..n) /\ column \notin Range(L)
          /\ IsList(child_heads[list], child_next, L, n)
      BY <1>3, <3>1 DEF Lists, IsList
    <3>3. ASSUME NEW i \in 1..Len(L)
          PROVE  child_next'[L[i]] = child_next[L[i]]
      <4>1. L[i] \in 1..n /\ L[i] \in Range(L)
        BY <3>2 DEF Range
      <4> QED
        BY <1>11, <3>2, <4>1
    <3>4. IsList(child_heads[list], child_next', L, n)
      BY <3>2, <3>3 DEF IsList
    <3> QED
      BY <1>2, <1>5, <1>6, <3>1, <3>4 DEF Lists
  <2>2. ASSUME NEW t \in DOMAIN tasks', tasks'[t].next = "publish"
        PROVE  child_next'[tasks'[t].column]
                   = child_heads'[parents'[tasks'[t].column]]
    <3>1. CASE t = s
      BY <1>2, <1>4, <1>11, <3>1
    <3>2. CASE t # s
      <4>1. t \in DOMAIN tasks /\ tasks'[t] = tasks[t]
        BY <1>4, <3>2
      <4>2. tasks[t].column # column /\ tasks[t].column \in 1..n
        BY <3>2, <4>1, <1>7, TaskFacts DEF ShapeInv
      <4>3. child_next[tasks[t].column] = child_heads[parents[tasks[t].column]]
        BY <1>7, <2>2, <4>1 DEF ListsInv
      <4> QED
        BY <1>2, <1>11, <4>1, <4>2, <4>3
    <3> QED
      BY <3>1, <3>2
  <2> QED
    BY <1>6, <2>1, <2>2 DEF ListsInv
<1> QED
  BY <1>6, <1>7, <1>8, <1>9, <1>11, <1>12, <1>13 DEF ForestInv

-----------------------------------------------------------------------------
\* A list grows at its head.
LEMMA ListGrows ==
    ASSUME NEW n \in Nat, NEW head, NEW next, NEW L, IsList(head, next, L, n),
           NEW c \in 1..n, c \notin Range(L), next[c] = head
    PROVE  /\ IsList(c, next, <<c>> \o L, n)
           /\ Range(<<c>> \o L) = {c} \cup Range(L)
<1> DEFINE M == <<c>> \o L
<1>1. /\ L \in Seq(1..n) /\ \A i, j \in 1..Len(L) : L[i] = L[j] => i = j
      /\ head = (IF L = <<>> THEN None ELSE L[1])
      /\ \A i \in 1..Len(L) :
             next[L[i]] = (IF i = Len(L) THEN None ELSE L[i + 1])
  BY DEF IsList
<1>2. /\ M \in Seq(1..n) /\ Len(M) = Len(L) + 1 /\ Len(L) \in Nat
      /\ M[1] = c /\ \A i \in 2..Len(M) : M[i] = L[i - 1] /\ i - 1 \in 1..Len(L)
  BY <1>1
<1>3. \A i \in 1..Len(L) : L[i] # c /\ L[i] \in 1..n
  BY <1>1 DEF Range
<1>4. Range(M) = {c} \cup Range(L)
  <2>1. Tail(M) = L /\ M # <<>>
    BY <1>1, <1>2
  <2> HIDE DEF M
  <2> QED
    BY <1>2, <2>1, TailRange
<1>5. ASSUME NEW i \in 1..Len(M), NEW j \in 1..Len(M), M[i] = M[j]
      PROVE  i = j
  <2>1. i = 1 \/ i \in 2..Len(M)
    BY <1>2
  <2>2. j = 1 \/ j \in 2..Len(M)
    BY <1>2
  <2> HIDE DEF M
  <2>3. CASE i = 1 /\ j = 1
    BY <2>3
  <2>4. CASE i = 1 /\ j \in 2..Len(M)
    BY <1>2, <1>3, <1>5, <2>4
  <2>5. CASE i \in 2..Len(M) /\ j = 1
    BY <1>2, <1>3, <1>5, <2>5
  <2>6. CASE i \in 2..Len(M) /\ j \in 2..Len(M)
    <3>1. i - 1 \in 1..Len(L) /\ j - 1 \in 1..Len(L) /\ L[i - 1] = L[j - 1]
      BY <1>2, <1>5, <2>6
    <3>2. i - 1 = j - 1
      BY <1>1, <3>1
    <3> QED
      BY <2>6, <3>2
  <2> QED
    BY <2>1, <2>2, <2>3, <2>4, <2>5, <2>6
<1>6. Len(M) <= n
  <2>1. M \in Injection(1..Len(M), 1..n)
    <3>1. M \in [1..Len(M) -> 1..n]
      <4>1. M \in Seq(1..n)
        BY <1>2
      <4> HIDE DEF M
      <4> QED
        BY <4>1
    <3> HIDE DEF M
    <3> QED
      BY <1>5, <3>1 DEF Injection, IsInjective
  <2> HIDE DEF M
  <2>2. /\ IsFiniteSet(1..n) /\ Cardinality(1..n) = n
        /\ Cardinality(1..Len(M)) = Len(M)
    BY <1>2, UpToIsCounted
  <2> QED
    BY <2>1, <2>2, FS_Injection DEF ExistsInjection
<1>7. c = (IF M = <<>> THEN None ELSE M[1])
  <2>1. Len(M) # 0
    BY <1>2
  <2>2. M # <<>>
    BY <2>1
  <2>3. M[1] = c
    BY <1>2
  <2> HIDE DEF M
  <2> QED
    BY <2>2, <2>3
<1>8. ASSUME NEW i \in 1..Len(M)
      PROVE  next[M[i]] = (IF i = Len(M) THEN None ELSE M[i + 1])
  <2> HIDE DEF M
  <2>1. CASE i = 1
    <3>1. CASE L = <<>>
      <4>1. Len(M) = 1
        BY <1>2, <3>1
      <4> QED
        BY <1>1, <1>2, <2>1, <3>1, <4>1
    <3>2. CASE L # <<>>
      <4>1. Len(L) > 0
        BY <1>1, <3>2
      <4>2. i # Len(M) /\ 2 \in 2..Len(M)
        BY <1>2, <2>1, <4>1
      <4>3. M[2] = L[1]
        <5>1. M[2] = L[2 - 1]
          BY <1>2, <4>2
        <5> QED
          BY <5>1
      <4> QED
        BY <1>1, <1>2, <2>1, <3>2, <4>2, <4>3
    <3> QED
      BY <3>1, <3>2
  <2>2. CASE i # 1
    <3>1. i \in 2..Len(M)
      BY <1>2, <2>2
    <3>2. M[i] = L[i - 1] /\ i - 1 \in 1..Len(L)
      BY <1>2, <3>1
    <3>3. next[M[i]] = (IF i - 1 = Len(L) THEN None ELSE L[(i - 1) + 1])
      BY <1>1, <3>2
    <3>4. CASE i = Len(M)
      <4>1. i - 1 = Len(L)
        BY <1>2, <3>4
      <4> QED
        BY <3>3, <3>4, <4>1
    <3>5. CASE i # Len(M)
      <4>1. i + 1 \in 2..Len(M) /\ (i + 1) - 1 = i /\ (i - 1) + 1 = i
            /\ i - 1 # Len(L)
        BY <1>2, <3>1, <3>5
      <4>2. M[i + 1] = L[i]
        <5>1. M[i + 1] = L[(i + 1) - 1]
          BY <1>2, <4>1
        <5> QED
          BY <4>1, <5>1
      <4> QED
        BY <3>3, <3>5, <4>1, <4>2
    <3> QED
      BY <3>4, <3>5
  <2> QED
    BY <2>1, <2>2
<1> HIDE DEF M
<1>9. IsList(c, next, M, n)
  BY <1>2, <1>5, <1>6, <1>7, <1>8 DEF IsList
<1> QED
  BY <1>4, <1>9 DEF M

LEMMA PublishKeepsForest ==
    ASSUME TasksInv, LocksInv, ForestInv, phase = "analyzing",
           matrix.rows \in Nat, NEW s \in DOMAIN tasks,
           PublishColumn(s), UNCHANGED <<phase, matrix, ordering>>
    PROVE  ForestInv'
<1> DEFINE n == matrix.rows
           column == tasks[s].column
           parent == parents[column]
<1>1. TasksInv'
  BY PublishStep
<1>2. /\ tasks[s].next = "publish"
      /\ child_heads' = [child_heads EXCEPT ![parent] = column]
      /\ child_locks' = [child_locks EXCEPT ![parent] = FALSE]
      /\ structures' = Freed(structures, column)
      /\ tasks' = [tasks EXCEPT ![s] = NextColumn(s)]
      /\ UNCHANGED <<child_next, stamps, parents, degrees>>
  BY DEF PublishColumn
<1>3. /\ column \in 1..n /\ parent \in 1..n
      /\ column \in Computed /\ column \notin Finished
      /\ parent = Tree[column]
      /\ \A t \in DOMAIN tasks : Up[t] = s => IsDone(t)
  BY <1>2, LinkingFacts
<1>4. Computed' = Computed /\ Finished' = Finished \cup {column}
  <2>1. /\ Computed' = Computed \cup {column}
        /\ Finished' = Finished \cup {column}
    BY <1>1, <1>2, GoingOn
  <2> QED
    BY <1>3, <2>1
<1>5. Tree' = Tree /\ Rows' = Rows /\ Grounds' = Grounds /\ matrix' = matrix
  BY GroundsStay
<1>6. /\ Grounds /\ OrderInv /\ ShapeInv /\ ResultInv /\ ListsInv
      /\ child_next \in Seq(Nat)
  BY DEF ForestInv
<1>7. OrderInv'
  <2>1. tasks' = [tasks EXCEPT ![s] =
            [column |-> NextColumn(s).column, next |-> NextColumn(s).next]]
    BY <1>2, NextColumnFits
  <2>2. tasks[s].next # "done" /\ OrderInv
    BY <1>2, <1>6
  <2>3. \A t \in DOMAIN tasks : Up[t] = s => IsDone(t)
    BY <1>3
  <2> QED
    BY <2>1, <2>2, <2>3, NextColumnFits, OrderStays
<1>8. Range(ChildList(column)) = {c \in Finished : Tree[c] = column}
  BY <1>3, ListHasKids
<1>9. /\ DOMAIN structures' = 1..n
      /\ \A c \in 1..n : Tree[c] # column => structures'[c] = structures[c]
  <2>1. DOMAIN structures = 1..n
    BY <1>6 DEF ShapeInv
  <2>2. /\ DOMAIN structures' = 1..n
        /\ \A c \in 1..n : c \notin Range(ChildList(column)) =>
               structures'[c] = structures[c]
    BY <1>2, <2>1, FreedFacts
  <2> QED
    BY <1>8, <2>2
<1>10. ShapeInv'
  BY <1>2, <1>5, <1>6, <1>9 DEF ShapeInv
<1>11. ResultInv'
  <2>1. ASSUME NEW c \in Computed, Tree[c] \notin Finished'
        PROVE  structures'[c] = Rows[c]
    <3>1. c \in 1..n /\ Tree[c] # column /\ Tree[c] \notin Finished
      BY <1>4, <2>1 DEF Computed
    <3>2. structures[c] = Rows[c]
      BY <1>6, <3>1 DEF ResultInv
    <3> QED
      BY <1>9, <3>1, <3>2
  <2> HIDE DEF column, parent
  <2> QED
    BY <1>2, <1>4, <1>5, <1>6, <2>1 DEF ResultInv
<1>12. ASSUME NEW t \in DOMAIN tasks, t # s, tasks[t].next = "publish"
       PROVE  parents[tasks[t].column] # parent
  <2>1. s \in Holders(parent)
    BY <1>2 DEF Holders
  <2>2. parent \in DOMAIN child_locks
    BY <1>3, <1>6 DEF ShapeInv
  <2>3. \E u : Holders(parent) = {u}
    BY <2>1, <2>2 DEF LocksInv
  <2>4. t \notin Holders(parent)
    BY <1>12, <2>1, <2>3
  <2> QED
    BY <1>12, <2>4 DEF Holders
<1>13. DOMAIN child_heads = 1..n
  BY <1>6 DEF ShapeInv
<1>14. ListsInv'
  <2>1. ASSUME NEW list \in 1..n, list # parent PROVE \E L : Lists(list, L)'
    <3>1. PICK L : Lists(list, L)
      BY <1>6 DEF ListsInv
    <3>2. {c \in Finished' : Tree[c] = list} = {c \in Finished : Tree[c] = list}
      BY <1>3, <1>4, <2>1
    <3>3. child_heads'[list] = child_heads[list]
      BY <1>2, <1>13, <2>1
    <3> QED
      BY <1>2, <1>5, <3>1, <3>2, <3>3 DEF Lists
  <2>2. ASSUME NEW list \in 1..n, list = parent PROVE \E L : Lists(list, L)'
    <3>1. PICK L : Lists(parent, L)
      BY <1>3, <1>6 DEF ListsInv
    <3>2. /\ IsList(child_heads[parent], child_next, L, n)
          /\ Range(L) = {c \in Finished : Tree[c] = parent}
      BY <3>1 DEF Lists
    <3>3. column \notin Range(L)
      BY <1>3, <3>2
    <3>4. child_next[column] = child_heads[parent]
      BY <1>2, <1>6 DEF ListsInv
    <3>5. /\ IsList(column, child_next, <<column>> \o L, n)
          /\ Range(<<column>> \o L) = {column} \cup Range(L)
      <4> HIDE DEF column, parent, n
      <4> QED
        BY <1>3, <3>2, <3>3, <3>4, ListGrows DEF n
    <3> DEFINE M == <<column>> \o L
    <3>6. Range(M) = {c \in Finished' : Tree[c] = list}
      BY <1>3, <1>4, <2>2, <3>2, <3>5
    <3>7. child_heads'[list] = column
      BY <1>2, <1>13, <2>2
    <3>8. IsList(child_heads'[list], child_next', M, matrix'.rows)
      BY <1>2, <1>5, <3>5, <3>7
    <3>9. \E N : /\ IsList(child_heads'[list], child_next', N, matrix'.rows)
                /\ Range(N) = {c \in Finished' : Tree'[c] = list}
      BY <1>5, <3>6, <3>8
    <3> QED
      BY <3>9 DEF Lists
  <2>3. ASSUME NEW t \in DOMAIN tasks', tasks'[t].next = "publish"
        PROVE  child_next'[tasks'[t].column]
                   = child_heads'[parents'[tasks'[t].column]]
    <3>1. t \in DOMAIN tasks /\ t # s /\ tasks'[t] = tasks[t]
      <4>1. tasks'[s].next # "publish"
        BY <1>2, NextColumnFits
      <4> QED
        BY <1>2, <2>3, <4>1
    <3>2. parents[tasks[t].column] # parent
      BY <1>12, <2>3, <3>1
    <3>3. parents[tasks[t].column] \in 1..n
      BY <2>3, <3>1, LinkingFacts
    <3>4. child_next[tasks[t].column] = child_heads[parents[tasks[t].column]]
      BY <1>6, <2>3, <3>1 DEF ListsInv
    <3> QED
      BY <1>2, <1>13, <3>1, <3>2, <3>3, <3>4
  <2> QED
    BY <1>5, <2>1, <2>2, <2>3 DEF ListsInv
<1> QED
  BY <1>2, <1>5, <1>6, <1>7, <1>10, <1>11, <1>14 DEF ForestInv

-----------------------------------------------------------------------------
(***************************************************************************)
(* Every step keeps the invariant.                                         *)
(***************************************************************************)
\* At the beginning nothing is computed, and the lists are empty.
LEMMA BeginForest ==
    ASSUME IndInv, IndInv', child_next \in Seq(Nat), OrderingSeparates,
           StartAnalysis
    PROVE  ForestInv'
<1> DEFINE n == matrix.rows
<1>1. /\ phase = "editing" /\ ordering.forest.roots # <<>>
      /\ ordering.permutation # <<>> /\ SupernodalControls # {}
      /\ ordering' = ordering /\ matrix' = matrix
      /\ BeginAnalysis(matrix, ordering) /\ phase' = "analyzing"
  BY DEF StartAnalysis
<1>2. problem \in Problems
  BY DEF IndInv, SessionInv, problem
<1>3. CutsIntoSupernodes(ordering, n) /\ n \in Nat
  BY <1>1, <1>2, ProblemFacts DEF IndInv, SessionInv, SameSize
<1>4. Symmetric(matrix)
  BY <1>1 DEF SupernodalControls, Suits, Symmetric
<1>5. Grounds
  BY <1>1, <1>3, <1>4, GroundsHold
     DEF OrderingSeparates, IndInv, SessionInv, Tallies
<1>6. Grounds' /\ Tree' = Tree /\ Rows' = Rows
  BY <1>1, <1>5, GroundsStay
<1>7. /\ DOMAIN tasks' = DOMAIN ordering.sizes
      /\ \A s \in DOMAIN tasks' : /\ tasks'[s].column = ordering.offsets[s] + 1
                                  /\ tasks'[s].next = "compute"
  <2>1. tasks' = <<>> \o [s \in DOMAIN ordering.sizes |->
            [column |-> ordering.offsets[s] + 1, next |-> "compute"]]
    BY <1>1 DEF BeginAnalysis
  <2>2. PICK k \in Nat : DOMAIN ordering.sizes = 1..k
    BY <1>3, SupernodeFacts
  <2>3. tasks' = <<>> \o [s \in 1..k |->
            [column |-> ordering.offsets[s] + 1, next |-> "compute"]]
    BY <2>1, <2>2
  <2> QED
    BY <2>2, <2>3
<1>8. /\ child_heads' = [i \in 1..n |-> None]
      /\ DOMAIN child_locks' = 1..n /\ DOMAIN structures' = 1..n
      /\ stamps' = {}
      /\ child_next' \in Seq(Nat) /\ Len(child_next') = n
      /\ DOMAIN parents' = 1..n /\ DOMAIN degrees' = 1..n
  <2>1. /\ child_heads' = [i \in 1..n |-> None]
        /\ DOMAIN child_locks' = 1..n /\ DOMAIN structures' = 1..n
        /\ stamps' = {}
    BY <1>1, <1>3 DEF BeginAnalysis, Constant
  <2> DEFINE next == [i \in 1..n |->
                 IF i \in DOMAIN child_next THEN child_next[i] ELSE None]
  <2>2. child_next' = <<>> \o next
    BY <1>1 DEF BeginAnalysis, Resized
  <2>3. next \in Seq(Nat) /\ Len(next) = n
    <3>1. \A i \in 1..n :
              (IF i \in DOMAIN child_next THEN child_next[i] ELSE None) \in Nat
      BY DEF None
    <3>2. next \in [1..n -> Nat]
      BY <3>1
    <3> HIDE DEF n, next
    <3> QED
      BY <1>3, <3>2
  <2>4. DOMAIN parents' = 1..n /\ DOMAIN degrees' = 1..n
    BY <1>1, <1>3 DEF BeginAnalysis, Resized
  <2> HIDE DEF next
  <2> QED
    BY <2>1, <2>2, <2>3, <2>4
<1>9. Computed' = {} /\ Finished' = {}
  <2>1. \A s \in DOMAIN tasks' : \A c \in ColumnsOf(ordering, s) :
            ~(c < ordering.offsets[s] + 1)
    BY <1>3, <1>7, ColumnsInside DEF ColumnsOf
  <2> QED
    BY <1>1, <1>7, <2>1 DEF Computed, Finished
<1>10. OrderInv'
  <2>1. \A s \in DOMAIN tasks' : ~Begun(s)' /\ ~IsDone(s)'
    <3>1. \A s \in DOMAIN tasks' : ordering.offsets[s] \in Nat
      BY <1>3, <1>7, ColumnsInside
    <3> QED
      BY <1>1, <1>7, <3>1 DEF Begun, IsDone
  <2> QED
    BY <1>7, <2>1 DEF OrderInv
<1>11. ShapeInv'
  BY <1>1, <1>8 DEF ShapeInv
<1>12. ResultInv'
  BY <1>8, <1>9 DEF ResultInv
<1>13. ListsInv'
  <2>1. ASSUME NEW column \in 1..n PROVE \E L : Lists(column, L)'
    <3>1. child_heads'[column] = None
      BY <1>8, <2>1
    <3>2. /\ <<>> \in Seq(1..n) /\ Len(<<>>) = 0 /\ Range(<<>>) = {}
      BY DEF Range
    <3>3. IsList(child_heads'[column], child_next', <<>>, n)
      BY <1>3, <3>1, <3>2 DEF IsList
    <3> QED
      BY <1>1, <1>9, <3>2, <3>3 DEF Lists
  <2>2. \A s \in DOMAIN tasks' : tasks'[s].next # "publish"
    BY <1>7
  <2> QED
    BY <1>1, <2>1, <2>2 DEF ListsInv
<1> QED
  BY <1>6, <1>8, <1>10, <1>11, <1>12, <1>13 DEF ForestInv

LEMMA RowsAreNatural ==
    ASSUME IndInv
    PROVE  matrix.rows \in Nat
<1>1. problem \in Problems
  BY DEF IndInv, SessionInv, problem
<1> QED
  BY <1>1, ProblemFacts DEF IndInv, SessionInv, SameSize

LEMMA ForestStays ==
    ASSUME ForestInv, UNCHANGED <<phase, matrix, ordering, analysis>>
    PROVE  ForestInv'
<1>1. /\ Grounds' = Grounds /\ Tree' = Tree /\ Rows' = Rows /\ Up' = Up
      /\ matrix' = matrix /\ ordering' = ordering /\ phase' = phase
      /\ tasks' = tasks /\ child_heads' = child_heads
      /\ child_next' = child_next /\ child_locks' = child_locks
      /\ structures' = structures /\ stamps' = stamps
      /\ parents' = parents /\ degrees' = degrees
  BY GroundsStay DEF analysis
<1>2. Computed' = Computed /\ Finished' = Finished
  BY <1>1 DEF Computed, Finished
<1>3. OrderInv' = OrderInv
  BY <1>1 DEF OrderInv, Begun, IsDone
<1>4. ShapeInv' = ShapeInv
  BY <1>1 DEF ShapeInv
<1>5. ResultInv' = ResultInv
  BY <1>1, <1>2 DEF ResultInv
<1>6. ListsInv' = ListsInv
  BY <1>1, <1>2 DEF ListsInv, Lists
<1> QED
  BY <1>1, <1>3, <1>4, <1>5, <1>6 DEF ForestInv

LEMMA ForestStep ==
    ASSUME IndInv, IndInv', ForestInv, OrderingSeparates, [Next]_vars
    PROVE  ForestInv'
<1>1. CASE StartAnalysis
  BY <1>1, BeginForest DEF ForestInv
<1>2. CASE AnalysisStep
  <2>1. /\ phase = "analyzing" /\ UNCHANGED <<phase, matrix, ordering>>
        /\ TasksInv /\ LocksInv /\ matrix.rows \in Nat
    BY <1>2, RowsAreNatural DEF AnalysisStep, IndInv
  <2>2. PICK s \in DOMAIN tasks :
            ComputeColumn(s) \/ LinkColumn(s) \/ PublishColumn(s)
    BY <1>2 DEF AnalysisStep, TaskStep
  <2> QED
    BY <2>1, <2>2, ComputeKeepsForest, LinkKeepsForest, PublishKeepsForest
<1>3. CASE UNCHANGED vars
  BY <1>3, ForestStays DEF vars
<1>4. CASE Next /\ ~StartAnalysis /\ ~AnalysisStep
  <2>1. child_next' = child_next /\ phase' # "analyzing"
    <3>1. CASE EditStep \/ DrawSample
      BY <3>1 DEF EditStep, QueueAddition, QueueRemoval, AddAtOnce,
                  ChangeValue, Flush, Edit, DrawSample, analysis
    <3>2. CASE EndAnalysis \/ SequentialAnalysis
      BY <3>2 DEF EndAnalysis, SequentialAnalysis, AnalyzeSequentially,
                  analysis
    <3>3. CASE \/ Analyzed \/ Factored \/ FactoredWithoutSupernodes \/ Expand
               \/ CloneObject \/ RefactorFromArrays \/ Replace
               \/ RefactorFromMatrix \/ SolveSystem \/ RefineSystem
      BY <3>3 DEF Analyzed, Factored, FactoredWithoutSupernodes, Expand,
                  CloneObject, RefactorFromArrays, Replace,
                  RefactorFromMatrix, SolveSystem, RefineSystem, MaySolveNow,
                  Becomes, Renewed, analysis
    <3>4. CASE NextProblem
      BY <3>4 DEF NextProblem, analysis
    <3> QED
      BY <1>4, <3>1, <3>2, <3>3, <3>4 DEF Next, EditStep
  <2> QED
    BY <2>1 DEF ForestInv
<1> QED
  BY <1>1, <1>2, <1>3, <1>4

LEMMA ForestInvHolds ==
    Spec /\ []OrderingSeparates => []ForestInv
<1>1. Init => ForestInv
  <2>1. <<>> \in Seq(Nat)
    OBVIOUS
  <2> QED
    BY <2>1 DEF Init, NoAnalysis, ForestInv
<1>2. IndInv /\ IndInv' /\ ForestInv /\ OrderingSeparates /\ [Next]_vars
          => ForestInv'
  BY ForestStep
<1> QED
  BY <1>1, <1>2, IndInvHolds, PTL DEF Spec

\* However the tasks of the parallel analysis interleave, the list of a column
\* holds each child that is finished once, and a column merges its list when
\* all of its children are in it.
THEOREM ChildrenListed ==
    ASSUME OrderingsFit
    PROVE  Spec => []ChildrenAreListed
<1>1. IndInv /\ ForestInv => ChildrenAreListed
  <2> SUFFICES ASSUME IndInv, ForestInv, phase = "analyzing",
                      NEW column \in 1..matrix.rows
               PROVE  LET children == {c \in Computed : parents[c] = column}
                      IN  /\ Range(ChildList(column)) = children \cap Finished
                          /\ Len(ChildList(column))
                                 = Cardinality(children \cap Finished)
                          /\ column \in Computed => children \subseteq Finished
    BY DEF ChildrenAreListed
  <2> DEFINE children == {c \in Computed : parents[c] = column}
  <2>1. /\ matrix.rows \in Nat /\ Grounds /\ OrderInv /\ ResultInv /\ TasksInv
    BY RowsAreNatural DEF ForestInv, IndInv
  <2>2. children = {c \in Computed : Tree[c] = column}
    BY <2>1 DEF ResultInv
  <2>3. children \cap Finished = {c \in Finished : Tree[c] = column}
    BY <2>2, FinishedIsComputed
  <2>4. PICK L : /\ ChildList(column) = L
                 /\ Range(L) = {c \in Finished : Tree[c] = column}
                 /\ Len(L) = Cardinality(Range(L))
    BY <2>1, ListHasKids
  <2>5. ASSUME column \in Computed PROVE children \subseteq Finished
    <3>1. Computed \subseteq 1..matrix.rows
      BY DEF Computed
    <3> QED
      BY <2>1, <2>2, <2>5, <3>1, ComputedKidsFinished
  <2> QED
    BY <2>3, <2>4, <2>5
<1> QED
  BY <1>1, IndInvHolds, ForestInvHolds, OrderingsKeepSeparating, PTL

\* What the tasks write, and that in the end all is written.
LEMMA ResultsFollow == IndInv /\ ForestInv => ResultsAreExact
<1> SUFFICES ASSUME IndInv, ForestInv, phase = "analyzing",
                    NEW column \in 1..matrix.rows,
                    column \in Computed \/ AllTasksDone
             PROVE  IsExact(Filled(matrix, ordering), column)
  BY DEF ResultsAreExact
<1>1. /\ OrderInv /\ ResultInv /\ TasksInv
  BY DEF ForestInv, IndInv
<1>2. column \in Computed
  <2> SUFFICES ASSUME AllTasksDone PROVE column \in Computed
    OBVIOUS
  <2>1. PICK s \in DOMAIN tasks : column \in ColumnsOf(ordering, s)
    BY <1>1, EveryColumn
  <2>2. /\ tasks[s].next = "done"
        /\ tasks[s].column = ordering.offsets[s] + ordering.sizes[s]
    BY <1>1 DEF AllTasksDone, IsDone, OrderInv
  <2>3. ordering.offsets[s] \in Nat /\ ordering.sizes[s] \in Nat
    BY <1>1, ColumnsInside DEF TasksInv
  <2>4. column < tasks[s].column \/ column = tasks[s].column
    BY <2>1, <2>2, <2>3 DEF ColumnsOf
  <2> QED
    BY <1>1, <2>1, <2>2, <2>4, HowFar
<1>3. Rows[column] = RowsIn(Filled(matrix, ordering), column)
  BY DEF Rows
<1>4. /\ parents[column] = Tree[column]
      /\ degrees[column] = Cardinality(Rows[column])
      /\ Tree[column] = IF Rows[column] = {} THEN None ELSE Min(Rows[column])
  BY <1>1, <1>2 DEF ResultInv, Tree
<1> QED
  BY <1>3, <1>4 DEF IsExact

-----------------------------------------------------------------------------
(***************************************************************************)
(* Loops over the indices of a list.                                       *)
(***************************************************************************)
\* The list of the indices up to n.
LEMMA IndicesAreTyped ==
    ASSUME NEW n \in Nat
    PROVE  Indices(n) \in Seq(1..n) /\ Len(Indices(n)) = n
BY DEF Indices

\* The indices with p above them, in a list.
LEMMA FilteredFacts ==
    ASSUME NEW n \in Nat, NEW up, NEW p
    PROVE  Filtered(Indices(n), LAMBDA i : up[i] = p)
               \in Seq({i \in 1..n : up[i] = p})
<1> DEFINE E == 1..n
           V == Seq({i \in E : up[i] = p})
           pick(done, x) == IF up[x] = p THEN Append(done, x) ELSE done
           step == [xe \in V \X E |-> pick(xe[1], xe[2])]
           s == Indices(n)
           Body(g) == [k \in 0..Len(s) |-> IF k = 0 THEN <<>>
                                           ELSE pick(g[k - 1], s[k])]
           g == CHOOSE g : g = Body(g)
<1>1. s \in Seq(E) /\ Len(s) = n
  BY IndicesAreTyped
<1>2. <<>> \in V
  OBVIOUS
<1>3. \A x \in V, e \in E :
          /\ <<x, e>> \in V \X E /\ step[<<x, e>>] = pick(x, e)
          /\ pick(x, e) \in V
  OBVIOUS
<1>4. IsStep(step, V, E)
  <2>1. \A xe \in V \X E : pick(xe[1], xe[2]) \in V
    OBVIOUS
  <2> QED
    BY <2>1 DEF IsStep
<1> HIDE DEF step, E, V, s, pick
<1>5. g = Body(g)
  <2>1. PICK f \in [0..Len(s) -> V] : IsLoop(f, s, <<>>, step)
    BY <1>1, <1>2, <1>4, LoopExists
  <2>2. \A k \in 0..Len(s) : k # 0 => f[k - 1] \in V /\ s[k] \in E
    BY <1>1
  <2>3. \A k \in 0..Len(s) :
            (IF k = 0 THEN <<>> ELSE step[<<f[k - 1], s[k]>>])
                = (IF k = 0 THEN <<>> ELSE pick(f[k - 1], s[k]))
    BY <1>3, <2>2
  <2>4. f = Body(f)
    BY <2>1, <2>3 DEF IsLoop
  <2> QED
    BY <2>4
<1>6. Filtered(s, LAMBDA i : up[i] = p) = g[Len(s)]
  BY DEF Filtered, Through, pick
<1> HIDE DEF g
<1>7. Follows(g, s, <<>>, step, V)
  <2>1. \A k \in 1..Len(s) : s[k] \in E /\ k \in 0..Len(s) /\ k # 0
    BY <1>1
  <2>2. 0 \in 0..Len(s)
    BY <1>1
  <2> QED
    BY <1>3, <1>5, <2>1, <2>2 DEF Follows
<1>8. g[Len(s)] \in V
  BY <1>1, <1>2, <1>4, <1>7, LoopIsFound
<1> QED
  BY <1>6, <1>8 DEF V, E, s

-----------------------------------------------------------------------------
(***************************************************************************)
(* Offsets are the sums of the sizes before them.                          *)
(***************************************************************************)
\* Each offset is the sum of the sizes before it.
LEMMA OffsetScanFacts ==
    ASSUME NEW n \in Nat, NEW sizes \in Seq(Nat), Len(sizes) = n
    PROVE  LET o == OffsetScan(sizes)
           IN  /\ o \in Seq(Nat) /\ Len(o) = n + 1 /\ o[1] = 0
               /\ \A k \in 1..n : o[k + 1] = o[k] + sizes[k]
               /\ Last(o) = o[n + 1]
<1> DEFINE D == 0..Len(sizes)
           V == Seq(Nat) \ {<<>>}
           grow(prev, x) == Append(prev, Last(prev) + x)
           step == [xe \in V \X Nat |-> grow(xe[1], xe[2])]
           Body(g) == [k \in D |-> IF k = 0 THEN <<0>>
                                   ELSE grow(g[k - 1], sizes[k])]
           g == CHOOSE g : g = Body(g)
<1>1. <<0>> \in V
  OBVIOUS
<1>2. ASSUME NEW x \in V, NEW e \in Nat
      PROVE  /\ grow(x, e) \in V /\ <<x, e>> \in V \X Nat
             /\ step[<<x, e>>] = grow(x, e)
             /\ Len(grow(x, e)) = Len(x) + 1
             /\ \A k \in 1..Len(x) : grow(x, e)[k] = x[k]
             /\ grow(x, e)[Len(x) + 1] = x[Len(x)] + e
  <2>1. Len(x) \in 1..Len(x) /\ Last(x) = x[Len(x)]
    BY DEF Last
  <2>2. Last(x) + e \in Nat
    BY <2>1
  <2>3. <<x, e>> \in V \X Nat /\ step[<<x, e>>] = grow(x, e)
    OBVIOUS
  <2> HIDE DEF step
  <2>4. /\ Len(grow(x, e)) = Len(x) + 1
        /\ \A k \in 1..Len(x) : grow(x, e)[k] = x[k]
        /\ grow(x, e)[Len(x) + 1] = x[Len(x)] + e
    BY <2>1, <2>2
  <2>5. grow(x, e) \in Seq(Nat) /\ grow(x, e) # <<>>
    BY SMTT(30), <2>2
  <2> QED
    BY <2>3, <2>4, <2>5
<1>3. IsStep(step, V, Nat)
  <2>1. \A xe \in V \X Nat : grow(xe[1], xe[2]) \in V
    BY <1>2
  <2> HIDE DEF V, grow
  <2> QED
    BY <2>1 DEF IsStep
<1> HIDE DEF step, V, grow
<1>4. g = Body(g)
  <2>1. PICK f \in [D -> V] : IsLoop(f, sizes, <<0>>, step)
    BY <1>1, <1>3, LoopExists
  <2>2. \A k \in D : k # 0 => f[k - 1] \in V /\ sizes[k] \in Nat
    OBVIOUS
  <2>3. \A k \in D : (IF k = 0 THEN <<0>> ELSE step[<<f[k - 1], sizes[k]>>])
                          = (IF k = 0 THEN <<0>> ELSE grow(f[k - 1], sizes[k]))
    BY <1>2, <2>2
  <2>4. f = Body(f)
    BY <2>1, <2>3 DEF IsLoop
  <2> QED
    BY <2>4
<1>5. OffsetScan(sizes) = g[n]
  BY DEF OffsetScan, grow
<1> HIDE DEF g
<1> DEFINE Good(k) ==
        /\ g[k] \in V /\ Len(g[k]) = k + 1 /\ g[k][1] = 0
        /\ \A i \in 1..k : g[k][i + 1] = g[k][i] + sizes[i]
<1>6. Good(0)
  <2>1. g[0] = <<0>>
    BY <1>4
  <2> QED
    BY <1>1, <2>1
<1>7. ASSUME NEW k \in 1..n, Good(k - 1) PROVE Good(k)
  <2> DEFINE x == g[k - 1]
             y == g[k]
  <2>1. y = grow(x, sizes[k]) /\ sizes[k] \in Nat
    <3>1. k \in D /\ k # 0 /\ sizes[k] \in Nat
      OBVIOUS
    <3> QED
      BY <1>4, <3>1
  <2>2. x \in V /\ Len(x) = k /\ x[1] = 0
    BY <1>7
  <2>3. \A i \in 1..(k - 1) : x[i + 1] = x[i] + sizes[i]
    BY <1>7
  <2> HIDE DEF x, y
  <2>4. y \in V /\ Len(y) = k + 1 /\ (\A i \in 1..k : y[i] = x[i])
        /\ y[k + 1] = x[k] + sizes[k]
    BY <1>2, <2>1, <2>2
  <2>5. ASSUME NEW i \in 1..k PROVE y[i + 1] = y[i] + sizes[i]
    <3>1. CASE i = k
      BY <2>4, <3>1
    <3>2. CASE i # k
      <4>1. i \in 1..(k - 1) /\ i + 1 \in 1..k
        BY <3>2
      <4> QED
        BY <2>3, <2>4, <4>1
    <3> QED
      BY <3>1, <3>2
  <2> QED
    BY <2>2, <2>4, <2>5 DEF y
<1>8. \A k \in 0..n : Good(k)
  <2> DEFINE Wrong == {k \in 0..n : ~Good(k)}
  <2> SUFFICES ASSUME Wrong # {} PROVE FALSE
    OBVIOUS
  <2>1. PICK k \in Wrong : \A j \in Wrong : k <= j
    <3> Wrong \subseteq Nat
      OBVIOUS
    <3> HIDE DEF Wrong
    <3> QED
      BY LeastElement
  <2>2. k \in 0..n /\ ~Good(k)
    BY <2>1
  <2> HIDE DEF Good
  <2>3. k \in 1..n /\ k - 1 \in 0..n /\ k - 1 < k
    BY <1>6, <2>2
  <2>4. Good(k - 1)
    BY <2>1, <2>3
  <2> QED
    BY <1>7, <2>2, <2>3, <2>4
<1>9. Good(n)
  BY <1>8
<1>10. Last(g[n]) = g[n][n + 1]
  BY <1>9 DEF Last
<1> QED
  BY <1>5, <1>9, <1>10 DEF V

\* So they ascend, and each size lies between its offset and the total.
LEMMA OffsetsNest ==
    ASSUME NEW sizes \in Seq(Nat)
    PROVE  LET o == OffsetScan(sizes)
           IN  /\ Last(o) \in Nat /\ Last(o) = o[Len(sizes) + 1]
               /\ \A s \in DOMAIN sizes :
                      /\ o[s] \in Nat /\ o[s] + sizes[s] <= Last(o)
                      /\ o[s + 1] = o[s] + sizes[s]
                      /\ \A t \in DOMAIN sizes :
                             s < t => o[s] + sizes[s] <= o[t]
<1> DEFINE n == Len(sizes)
           o == OffsetScan(sizes)
<1>1. n \in Nat /\ DOMAIN sizes = 1..n /\ \A s \in 1..n : sizes[s] \in Nat
  OBVIOUS
<1>2. /\ o \in Seq(Nat) /\ Len(o) = n + 1 /\ Last(o) = o[n + 1]
      /\ \A k \in 1..n : o[k + 1] = o[k] + sizes[k]
  BY <1>1, OffsetScanFacts
<1> HIDE DEF n, o
<1>3. \A i \in 1..(n + 1) : o[i] \in Nat
  BY SMTT(30), <1>1, <1>2
<1>4. \A s \in 1..n : \A t \in 1..(n + 1) : s < t => o[s] + sizes[s] <= o[t]
  BY <1>1, <1>2, <1>3, OffsetsAscend
<1>5. \A s \in 1..n : s \in 1..(n + 1) /\ s < n + 1
  BY <1>1
<1>6. n + 1 \in 1..(n + 1)
  BY <1>1
<1>7. ASSUME NEW s \in DOMAIN sizes
      PROVE  /\ o[s] \in Nat /\ o[s] + sizes[s] <= Last(o)
             /\ o[s + 1] = o[s] + sizes[s]
             /\ \A t \in DOMAIN sizes : s < t => o[s] + sizes[s] <= o[t]
  BY <1>1, <1>2, <1>3, <1>4, <1>5, <1>6
<1> QED
  BY <1>2, <1>3, <1>6, <1>7 DEF o, n

-----------------------------------------------------------------------------
(***************************************************************************)
(* The boundaries of a parallel solve.                                     *)
(***************************************************************************)
\* The boundaries with w columns, one below the other as their offsets are, in
\* a buffer of this capacity.
Boundaries(heights, capacity, w) ==
    <<>> \o [s \in DOMAIN heights |->
        [height |-> heights[s], stride |-> Last(OffsetScan(heights)),
         width |-> w,
         at |-> IF capacity = 0 THEN None ELSE OffsetScan(heights)[s] + 1]]
HasColumns(workspace, heights, w) ==
    /\ w \in Nat /\ workspace.views = Boundaries(heights, workspace.capacity, w)
    /\ Last(OffsetScan(heights)) * w <= workspace.capacity
IsWorkspace(workspace, heights) ==
    /\ workspace.capacity \in Nat
    /\ IF workspace.allocated
       THEN \E w : HasColumns(workspace, heights, w)
       ELSE workspace = NoWorkspace

\* What each of the boundaries is.
LEMMA BoundariesFacts ==
    ASSUME NEW heights \in Seq(Nat), NEW capacity, NEW w
    PROVE  LET views == Boundaries(heights, capacity, w)
           IN  /\ DOMAIN views = 1..Len(heights) /\ Len(views) = Len(heights)
               /\ DOMAIN views = DOMAIN heights
               /\ \A s \in DOMAIN heights : views[s] =
                      [height |-> heights[s],
                       stride |-> Last(OffsetScan(heights)), width |-> w,
                       at |-> IF capacity = 0 THEN None
                              ELSE OffsetScan(heights)[s] + 1]
<1> DEFINE view(s) ==
        [height |-> heights[s], stride |-> Last(OffsetScan(heights)),
         width |-> w,
         at |-> IF capacity = 0 THEN None ELSE OffsetScan(heights)[s] + 1]
<1>1. DOMAIN heights = 1..Len(heights) /\ Len(heights) \in Nat
  OBVIOUS
<1> HIDE DEF view
<1>2. [s \in DOMAIN heights |-> view(s)]
          \in Seq({view(s) : s \in DOMAIN heights})
  BY <1>1
<1>3. Boundaries(heights, capacity, w) = [s \in DOMAIN heights |-> view(s)]
  BY <1>2 DEF Boundaries, view
<1> QED
  BY <1>1, <1>3 DEF view

\* Where the columns of a view are is told apart by column and row.
LEMMA PlacesApart ==
    ASSUME NEW total \in Nat, NEW a \in 1..total, NEW b \in 1..total,
           NEW j \in Nat, NEW k \in Nat, a + j * total = b + k * total
    PROVE  a = b /\ j = k
<1>1. ASSUME NEW x \in 1..total, NEW y \in 1..total, NEW l \in Nat,
             NEW m \in Nat, l < m
      PROVE  x + l * total < y + m * total
  <2>1. PICK d \in Nat : m = l + 1 + d
    <3>1. m - l - 1 \in Nat /\ m = l + 1 + (m - l - 1)
      BY <1>1
    <3> QED
      BY <3>1
  <2>2. m * total = l * total + total + d * total
    BY <2>1
  <2>3. d * total \in Nat /\ l * total \in Nat /\ m * total \in Nat
    OBVIOUS
  <2> QED
    BY <2>2, <2>3
<1>2. ~(j < k) /\ ~(k < j)
  BY <1>1
<1>3. j = k
  BY <1>2
<1> QED
  BY <1>3

\* With room for its columns in the buffer, each boundary lies in it and no
\* two of them meet.
LEMMA CellsFit ==
    ASSUME NEW heights \in Seq(Nat), NEW workspace,
           workspace.capacity \in Nat, NEW w, HasColumns(workspace, heights, w)
    PROVE  LET views == workspace.views
           IN  /\ Len(views) = Len(heights)
               /\ \A s \in DOMAIN views :
                      /\ views[s].height = heights[s] /\ views[s].width = w
                      /\ Cells(views[s]) \subseteq 1..workspace.capacity
                      /\ \A t \in DOMAIN views \ {s} :
                             Cells(views[s]) \cap Cells(views[t]) = {}
<1> DEFINE views == workspace.views
           capacity == workspace.capacity
           total == Last(OffsetScan(heights))
           o == OffsetScan(heights)
<1>1. /\ Len(views) = Len(heights) /\ DOMAIN views = DOMAIN heights
      /\ \A s \in DOMAIN heights : views[s] =
             [height |-> heights[s], stride |-> total, width |-> w,
              at |-> IF capacity = 0 THEN None ELSE o[s] + 1]
  BY BoundariesFacts DEF HasColumns
<1>2. /\ w \in Nat /\ total * w <= capacity /\ capacity \in Nat
  BY DEF HasColumns
<1>3. /\ total \in Nat
      /\ \A s \in DOMAIN heights :
             /\ o[s] \in Nat /\ heights[s] \in Nat
             /\ o[s] + heights[s] <= total
             /\ \A t \in DOMAIN heights : s < t => o[s] + heights[s] <= o[t]
  BY OffsetsNest
<1> HIDE DEF views, capacity, total, o
<1>4. ASSUME NEW s \in DOMAIN views, NEW c \in Cells(views[s])
      PROVE  \E i \in 1..heights[s], j \in 1..w :
                 /\ o[s] + i \in 1..total /\ capacity # 0 /\ j - 1 \in Nat
                 /\ c = (o[s] + i) + (j - 1) * total
                 /\ c \in 1..capacity
  <2>1. PICK i \in 1..heights[s], j \in 1..w :
            c = views[s].at + i - 1 + (j - 1) * total
    BY <1>1, <1>4 DEF Cells
  <2>2. /\ i \in Nat \ {0} /\ j \in Nat \ {0} /\ j - 1 \in Nat
        /\ o[s] + i \in 1..total /\ j <= w
    BY <1>1, <1>2, <1>3
  <2>3. (j - 1) * total + total <= total * w
    <3>1. PICK d \in Nat : w = j + d
      <4>1. w - j \in Nat /\ w = j + (w - j)
        BY <1>2, <2>2
      <4> QED
        BY <4>1
    <3>2. PICK l \in Nat : j = l + 1
      BY <2>2
    <3>3. total * w = l * total + total + d * total
      BY <1>3, <3>1, <3>2
    <3>4. (j - 1) * total = l * total
      BY <3>2
    <3>5. d * total \in Nat /\ l * total \in Nat
      BY <1>3
    <3> QED
      BY <1>3, <3>3, <3>4, <3>5
  <2>4. (j - 1) * total \in Nat /\ total * w \in Nat
    BY <1>2, <1>3, <2>2
  <2>5. capacity # 0
    BY <1>2, <1>3, <2>2, <2>3, <2>4
  <2>6. c = (o[s] + i) + (j - 1) * total
    <3>1. views[s].at = o[s] + 1 /\ o[s] \in Nat
      BY <1>1, <1>3, <2>5
    <3> QED
      BY <2>1, <2>2, <2>4, <3>1
  <2>7. c \in 1..capacity
    <3>1. PICK x \in Nat : x = (j - 1) * total
      BY <2>4
    <3>2. PICK y \in Nat : y = total * w
      BY <2>4
    <3>3. x + total <= y /\ y <= capacity /\ c = (o[s] + i) + x
      BY <1>2, <2>3, <2>6, <3>1, <3>2
    <3> QED
      BY SMTT(30), <1>2, <1>3, <2>2, <3>3
  <2> QED
    BY <2>2, <2>5, <2>6, <2>7
<1>5. ASSUME NEW s \in DOMAIN views, NEW t \in DOMAIN views, s < t,
             NEW c \in Cells(views[s]), c \in Cells(views[t])
      PROVE  FALSE
  <2>1. PICK i \in 1..heights[s], j \in 1..w :
            /\ o[s] + i \in 1..total /\ j - 1 \in Nat
            /\ c = (o[s] + i) + (j - 1) * total
    BY <1>4
  <2>2. PICK k \in 1..heights[t], l \in 1..w :
            /\ o[t] + k \in 1..total /\ l - 1 \in Nat
            /\ c = (o[t] + k) + (l - 1) * total
    BY <1>4, <1>5
  <2>3. o[s] + i = o[t] + k
    <3> DEFINE a == o[s] + i
               b == o[t] + k
               x == j - 1
               y == l - 1
    <3>1. a \in 1..total /\ b \in 1..total /\ x \in Nat /\ y \in Nat
      BY <2>1, <2>2
    <3>2. a + x * total = b + y * total
      BY <2>1, <2>2
    <3> HIDE DEF a, b, x, y
    <3>3. a = b
      BY <1>3, <3>1, <3>2, PlacesApart, ZenonT(60)
    <3> QED
      BY <3>3 DEF a, b
  <2>4. o[s] + heights[s] <= o[t] /\ o[s] \in Nat /\ o[t] \in Nat
        /\ heights[s] \in Nat /\ heights[t] \in Nat
    BY <1>1, <1>3, <1>5
  <2> QED
    BY SMTT(30), <2>3, <2>4
<1>6. ASSUME NEW s \in DOMAIN views
      PROVE  /\ views[s].height = heights[s] /\ views[s].width = w
             /\ Cells(views[s]) \subseteq 1..capacity
             /\ \A t \in DOMAIN views \ {s} :
                    Cells(views[s]) \cap Cells(views[t]) = {}
  <2>1. views[s].height = heights[s] /\ views[s].width = w
    BY <1>1
  <2>2. Cells(views[s]) \subseteq 1..capacity
    BY <1>4
  <2>3. ASSUME NEW t \in DOMAIN views \ {s}
        PROVE  Cells(views[s]) \cap Cells(views[t]) = {}
    <3>1. s \in Nat /\ t \in Nat /\ (s < t \/ t < s)
      <4>1. DOMAIN views = 1..Len(heights)
        BY <1>1
      <4> QED
        BY <4>1
    <3> QED
      BY <1>5, <3>1
  <2> QED
    BY <2>1, <2>2, <2>3
<1> QED
  BY <1>1, <1>6 DEF views, capacity

\* A solve with w columns leaves boundaries with w columns.
LEMMA SolveWorkspaceFits ==
    ASSUME NEW f, f.degrees \in Seq(Nat), NEW workspace,
           IsWorkspace(workspace, f.degrees), NEW w \in Nat
    PROVE  LET new == SolveWorkspace(f, workspace, w)
           IN  /\ new.allocated = TRUE /\ new.capacity \in Nat
               /\ HasColumns(new, f.degrees, w)
<1> DEFINE heights == f.degrees
           total == Last(OffsetScan(heights))
           old == IF workspace.allocated THEN workspace.views
                  ELSE Boundaries(heights, 0, 0)
           stride == IF old = <<>> THEN 0 ELSE old[1].stride
           grows == stride * w > workspace.capacity
           placed == <<>> \o [s \in DOMAIN old |->
               [old[s] EXCEPT !.width = w, !.at = OffsetScan(heights)[s] + 1]]
           resized == <<>> \o [s \in DOMAIN old |->
               [old[s] EXCEPT !.width = w]]
           new == SolveWorkspace(f, workspace, w)
<1>1. /\ heights \in Seq(Nat) /\ total \in Nat /\ Len(heights) \in Nat
      /\ DOMAIN heights = 1..Len(heights)
      /\ \A s \in DOMAIN heights : OffsetScan(heights)[s] \in Nat
  BY OffsetsNest
<1>2. workspace.capacity \in Nat
  BY DEF IsWorkspace
<1>3. new = [allocated |-> TRUE,
             capacity |-> IF grows THEN stride * w ELSE workspace.capacity,
             views |-> IF grows THEN placed
                       ELSE IF old # <<>> /\ old[1].width # w
                       THEN resized ELSE old]
  BY DEF SolveWorkspace, Boundaries
<1>4. PICK v \in Nat : /\ old = Boundaries(heights, workspace.capacity, v)
                       /\ total * v <= workspace.capacity
  <2>1. CASE workspace.allocated
    BY <2>1 DEF IsWorkspace, HasColumns
  <2>2. CASE ~workspace.allocated
    <3>1. workspace.capacity = 0
      BY <2>2 DEF IsWorkspace, NoWorkspace
    <3>2. total * 0 <= 0
      BY <1>1
    <3> QED
      BY <2>2, <3>1, <3>2
  <2> QED
    BY <2>1, <2>2
<1>5. /\ DOMAIN old = DOMAIN heights /\ Len(old) = Len(heights)
      /\ DOMAIN old = 1..Len(old)
      /\ \A s \in DOMAIN heights : old[s] =
             [height |-> heights[s], stride |-> total, width |-> v,
              at |-> IF workspace.capacity = 0 THEN None
                     ELSE OffsetScan(heights)[s] + 1]
  BY <1>1, <1>4, BoundariesFacts
<1>6. old = <<>> => heights = <<>> /\ total = 0
  <2> SUFFICES ASSUME old = <<>> PROVE heights = <<>> /\ total = 0
    OBVIOUS
  <2>1. Len(heights) = 0
    BY <1>5
  <2>2. heights = <<>>
    BY <1>1, <2>1
  <2>3. Last(OffsetScan(heights)) = OffsetScan(heights)[1]
        /\ OffsetScan(heights)[1] = 0
    BY <1>1, <2>1, OffsetScanFacts
  <2> QED
    BY <2>2, <2>3
<1>7. old # <<>> => 1 \in DOMAIN heights
  BY <1>1, <1>5
<1> HIDE DEF old
<1>8. stride = total /\ (old # <<>> => old[1].width = v)
  <2>1. CASE old = <<>>
    BY <1>6, <2>1
  <2>2. CASE old # <<>>
    <3>1. old[1] = [height |-> heights[1], stride |-> total, width |-> v,
                    at |-> IF workspace.capacity = 0 THEN None
                           ELSE OffsetScan(heights)[1] + 1]
      BY <1>5, <1>7, <2>2
    <3> HIDE DEF total
    <3>2. old[1].stride = total /\ old[1].width = v
      BY <3>1
    <3> QED
      BY <2>2, <3>2
  <2> QED
    BY <2>1, <2>2
<1>9. placed = Boundaries(heights, total * w, w) \/ total * w = 0
  <2> SUFFICES ASSUME total * w # 0
               PROVE  placed = Boundaries(heights, total * w, w)
    OBVIOUS
  <2>1. \A s \in DOMAIN heights :
            [old[s] EXCEPT !.width = w, !.at = OffsetScan(heights)[s] + 1]
                = [height |-> heights[s], stride |-> total, width |-> w,
                   at |-> IF total * w = 0 THEN None
                          ELSE OffsetScan(heights)[s] + 1]
    <3> HIDE DEF total
    <3> TAKE s \in DOMAIN heights
    <3>1. PICK h, at, to : /\ h = heights[s] /\ to = OffsetScan(heights)[s] + 1
                           /\ old[s] = [height |-> h, stride |-> total,
                                        width |-> v, at |-> at]
      BY <1>5
    <3> DEFINE first == [height |-> h, stride |-> total, width |-> v, at |-> at]
               wide == [height |-> h, stride |-> total, width |-> w, at |-> at]
               last == [height |-> h, stride |-> total, width |-> w, at |-> to]
    <3>2. [first EXCEPT !.width = w, !.at = to]
              = [[first EXCEPT !.width = w] EXCEPT !.at = to]
      BY Zenon
    <3>3. [first EXCEPT !.width = w] = wide /\ [wide EXCEPT !.at = to] = last
      OBVIOUS
    <3> HIDE DEF first, wide
    <3>4. [first EXCEPT !.width = w, !.at = to] = last
      BY <3>2, <3>3
    <3>5. old[s] = first
      BY <3>1 DEF first
    <3> QED
      BY <3>1, <3>4, <3>5
  <2> QED
    BY <1>5, <2>1 DEF Boundaries
<1>10. resized = Boundaries(heights, workspace.capacity, w)
  <2>1. \A s \in DOMAIN heights :
            [old[s] EXCEPT !.width = w]
                = [height |-> heights[s], stride |-> total, width |-> w,
                   at |-> IF workspace.capacity = 0 THEN None
                          ELSE OffsetScan(heights)[s] + 1]
    <3> HIDE DEF total
    <3> TAKE s \in DOMAIN heights
    <3>1. PICK h, at : /\ h = heights[s]
                       /\ at = IF workspace.capacity = 0 THEN None
                               ELSE OffsetScan(heights)[s] + 1
                       /\ old[s] = [height |-> h, stride |-> total,
                                    width |-> v, at |-> at]
      BY <1>5
    <3>2. [[height |-> h, stride |-> total, width |-> v, at |-> at]
              EXCEPT !.width = w]
              = [height |-> h, stride |-> total, width |-> w, at |-> at]
      OBVIOUS
    <3> QED
      BY <3>1, <3>2
  <2> QED
    BY <1>5, <2>1 DEF Boundaries
<1>11. ~(old # <<>> /\ old[1].width # w)
           => old = Boundaries(heights, workspace.capacity, w)
  <2>1. CASE old = <<>>
    <3>1. heights = <<>>
      BY <1>6, <2>1
    <3>2. Boundaries(heights, workspace.capacity, v)
              = Boundaries(heights, workspace.capacity, w)
      BY <3>1 DEF Boundaries
    <3> QED
      BY <1>4, <3>2
  <2>2. CASE old # <<>> /\ old[1].width = w
    <3>1. v = w
      BY <1>8, <2>2
    <3> QED
      BY <1>4, <3>1
  <2> QED
    BY <2>1, <2>2
<1>12. total * w \in Nat
  BY <1>1
<1> HIDE DEF placed, resized, stride, total
<1>13. CASE grows
  <2>1. new.capacity = total * w /\ new.views = placed /\ new.allocated = TRUE
    BY <1>3, <1>8, <1>13
  <2>2. total * w # 0
    BY <1>2, <1>8, <1>12, <1>13
  <2> QED
    BY <1>9, <1>12, <2>1, <2>2 DEF HasColumns, total
<1>14. CASE ~grows
  <2>1. /\ new.capacity = workspace.capacity /\ new.allocated = TRUE
        /\ new.views = Boundaries(heights, workspace.capacity, w)
    BY <1>3, <1>10, <1>11, <1>14
  <2>2. total * w <= workspace.capacity
    BY <1>2, <1>8, <1>12, <1>14
  <2> QED
    BY <1>2, <2>1, <2>2 DEF HasColumns, total
<1> QED
  BY <1>13, <1>14

-----------------------------------------------------------------------------
(***************************************************************************)
(* Forests that an analysis finds.                                         *)
(***************************************************************************)
\* Parents come after their children.
Climbs(up, n) ==
    /\ up \in [1..n -> 0..n]
    /\ \A j \in 1..n : up[j] = None \/ up[j] > j

\* The parents and degrees of the filled matrix are such.
LEMMA ExactForestClimbs ==
    ASSUME IsCoordinateMatrix(matrix), Symmetric(matrix),
           IsOrdering(ordering, matrix.rows),
           phase = "analyzed", ForestIsExact
    PROVE  /\ matrix.rows \in Nat /\ Climbs(parents, matrix.rows)
           /\ degrees \in [1..matrix.rows -> Nat]
<1> DEFINE n == matrix.rows
           CG == CoordinateGraph(matrix)
           own == [j \in 1..n |-> {i \in 1..n :
                      i > j /\ <<i, j>> \in Entered(matrix, ordering)}]
           F == [j \in 1..n |-> RowsIn(Filled(matrix, ordering), j)]
<1>1. n \in Nat
  BY DEF IsCoordinateMatrix
<1>2. \A e \in CG : e[1] \in 1..n /\ e[2] \in 1..n
  <2>1. CG \subseteq (1..matrix.rows) \X (1..matrix.columns)
    <3>1. \A k \in DOMAIN matrix.entries :
              Place(matrix.entries[k]) \in Places(matrix)
      BY MatrixFacts, EntryFacts
    <3> QED
      BY <3>1 DEF CoordinateGraph, Places
  <2>2. \A e \in CG : e = <<e[1], e[2]>> /\ e[1] \in 1..n
    BY <2>1
  <2>3. \A e \in CG : <<e[2], e[1]>> \in CG
    BY DEF Symmetric
  <2> HIDE DEF CG
  <2>4. \A e \in CG : <<e[2], e[1]>>[1] \in 1..n
    BY <2>2, <2>3
  <2> QED
    BY <2>2, <2>4
<1>3. \A i \in 1..n : ToNew(ordering, i) \in 1..n
  BY DEF IsOrdering, Orders, ToNew
<1>4. Entered(matrix, ordering) \subseteq (1..n) \X (1..n)
  BY <1>2, <1>3 DEF Entered
<1>5. IsFill(F, own, n)
  BY <1>1, <1>4, FilledIsFill
<1>6. /\ parents \in [1..n -> 0..n] /\ degrees \in [1..n -> Nat]
      /\ \A j \in 1..n : IsExact(Filled(matrix, ordering), j)
  BY DEF ForestIsExact
<1>7. \A j \in 1..n : F[j] = RowsIn(Filled(matrix, ordering), j)
  OBVIOUS
<1> HIDE DEF F, own, n
<1>8. ASSUME NEW j \in 1..n, parents[j] # None PROVE parents[j] > j
  <2>1. F[j] # {} /\ parents[j] = Min(F[j])
    BY <1>6, <1>7, <1>8 DEF IsExact
  <2>2. F[j] \subseteq 1..n /\ \A i \in F[j] : i > j
    BY <1>5 DEF IsFill
  <2>3. F[j] \subseteq Nat
    BY <2>2
  <2> QED
    BY <2>1, <2>2, <2>3, MinFacts
<1> QED
  BY <1>1, <1>6, <1>8 DEF Climbs, n

\* The supernodes of the columns do not go back.
Ascends(members, n) ==
    /\ members \in Seq(Nat \ {0}) /\ Len(members) = n
    /\ \A i, j \in 1..n : i <= j => members[i] <= members[j]

\* So do those that MemberToIndex gives.
LEMMA MembersAscend ==
    ASSUME NEW n \in Nat, NEW starts
    PROVE  Ascends(MemberToIndex(n, starts), n)
<1> DEFINE E == 1..n
           R == [supernode : Nat \ {0}, members : Seq(Nat \ {0})]
           V == {r \in R : \A i \in 1..Len(r.members) :
                    /\ r.members[i] <= r.supernode
                    /\ \A j \in 1..Len(r.members) :
                           i <= j => r.members[i] <= r.members[j]}
           follow(r, column) ==
               LET supernode == r.supernode
                       + (IF column - 1 = starts[r.supernode + 1] THEN 1 ELSE 0)
               IN  [supernode |-> supernode,
                    members |-> Append(r.members, supernode)]
           first == [supernode |-> 1, members |-> <<>>]
           s == Indices(n)
           D == 0..Len(s)
           step == [xe \in V \X E |-> follow(xe[1], xe[2])]
           Body(g) == [k \in D |-> IF k = 0 THEN first
                                   ELSE follow(g[k - 1], s[k])]
           g == CHOOSE g : g = Body(g)
<1>1. s \in Seq(E) /\ Len(s) = n
  BY IndicesAreTyped
<1>2. first \in V
  OBVIOUS
<1>3. ASSUME NEW r \in V, NEW e \in E
      PROVE  /\ follow(r, e) \in V
             /\ Len(follow(r, e).members) = Len(r.members) + 1
  <2> DEFINE new == r.supernode
                        + (IF e - 1 = starts[r.supernode + 1] THEN 1 ELSE 0)
             old == r.members
             all == Append(old, new)
  <2>1. /\ r.supernode \in Nat \ {0} /\ old \in Seq(Nat \ {0})
        /\ \A i \in 1..Len(old) :
               /\ old[i] <= r.supernode
               /\ \A j \in 1..Len(old) : i <= j => old[i] <= old[j]
    OBVIOUS
  <2>2. new \in Nat \ {0} /\ r.supernode <= new
    BY <2>1
  <2>3. follow(r, e) = [supernode |-> new, members |-> all]
    OBVIOUS
  <2> HIDE DEF new, old
  <2>4. /\ all \in Seq(Nat \ {0}) /\ Len(all) = Len(old) + 1
        /\ Len(old) \in Nat
        /\ \A i \in 1..Len(old) : all[i] = old[i] /\ old[i] \in Nat
        /\ all[Len(old) + 1] = new
    BY <2>1, <2>2
  <2> HIDE DEF all
  <2>5. ASSUME NEW i \in 1..Len(all) PROVE all[i] <= new
    <3>1. i \in 1..Len(old) \/ i = Len(old) + 1
      BY <2>4
    <3>2. CASE i \in 1..Len(old)
      <4>1. /\ all[i] = old[i] /\ old[i] \in Nat /\ old[i] <= r.supernode
            /\ r.supernode \in Nat /\ new \in Nat /\ r.supernode <= new
        BY <2>1, <2>2, <2>4, <3>2
      <4> QED
        BY <4>1
    <3> QED
      BY <2>2, <2>4, <3>1, <3>2
  <2>6. ASSUME NEW i \in 1..Len(all), NEW j \in 1..Len(all), i <= j
        PROVE  all[i] <= all[j]
    <3>1. CASE j = Len(old) + 1
      BY <2>4, <2>5, <3>1
    <3>2. CASE j # Len(old) + 1
      <4>1. i \in 1..Len(old) /\ j \in 1..Len(old)
        BY <2>4, <2>6, <3>2
      <4> QED
        BY <2>1, <2>4, <2>6, <4>1
    <3> QED
      BY <3>1, <3>2
  <2>7. [supernode |-> new, members |-> all] \in V
    BY <2>2, <2>4, <2>5, <2>6
  <2> QED
    BY <2>3, <2>4, <2>7 DEF old
<1>4. \A r \in V, e \in E :
          <<r, e>> \in V \X E /\ step[<<r, e>>] = follow(r, e)
  OBVIOUS
<1>5. IsStep(step, V, E)
  <2>1. \A xe \in V \X E : follow(xe[1], xe[2]) \in V
    BY ZenonT(40), <1>3
  <2> HIDE DEF V, follow, E
  <2> QED
    BY <2>1 DEF IsStep
<1> HIDE DEF step, V, follow, first, E, s
<1>6. g = Body(g)
  <2>1. PICK f \in [D -> V] : IsLoop(f, s, first, step)
    BY <1>1, <1>2, <1>5, LoopExists
  <2>2. \A k \in D : k # 0 => f[k - 1] \in V /\ s[k] \in E
    BY <1>1
  <2>3. \A k \in D : (IF k = 0 THEN first ELSE step[<<f[k - 1], s[k]>>])
                          = (IF k = 0 THEN first ELSE follow(f[k - 1], s[k]))
    BY <1>4, <2>2
  <2>4. f = Body(f)
    BY <2>1, <2>3 DEF IsLoop
  <2> QED
    BY <2>4
<1>7. MemberToIndex(n, starts) = g[n].members
  <2>1. MemberToIndex(n, starts) = g[Len(s)].members
    BY DEF MemberToIndex, Through, follow, first, s
  <2> QED
    BY <1>1, <2>1
<1> HIDE DEF g
<1> DEFINE Good(k) == g[k] \in V /\ Len(g[k].members) = k
<1>8. Good(0)
  <2>1. g[0] = first
    BY <1>1, <1>6
  <2> QED
    BY <1>2, <2>1 DEF first
<1>9. ASSUME NEW k \in 1..n, Good(k - 1) PROVE Good(k)
  <2>1. k \in D /\ k # 0 /\ s[k] \in E
    BY <1>1
  <2>2. g[k] = follow(g[k - 1], s[k])
    BY <1>6, <2>1
  <2> QED
    BY <1>3, <1>9, <2>1, <2>2
<1>10. Good(n)
  <2> HIDE DEF Good
  <2> DEFINE S == {k \in 0..n : Good(k)}
  <2>1. 0 \in S /\ \A k \in 1..n : k - 1 \in S => k \in S
    BY <1>8, <1>9
  <2> HIDE DEF S
  <2>2. 0..n \subseteq S
    BY <2>1, CountsUp
  <2> QED
    BY <2>2 DEF S
<1> QED
  BY <1>7, <1>10 DEF Ascends, V

\* A list of equal elements.
LEMMA ConstantFacts ==
    ASSUME NEW n \in Nat, NEW x
    PROVE  /\ Constant(n, x) = [i \in 1..n |-> x]
           /\ Constant(n, x) \in Seq({x}) /\ Len(Constant(n, x)) = n
BY DEF Constant

\* Supernodes come before their parents, too.
Rises(up, n) ==
    /\ up \in [1..n -> Nat]
    /\ \A c \in 1..n : up[c] = None \/ up[c] > c

\* If columns come before their parents then so do supernodes.
LEMMA SupernodesRise ==
    ASSUME NEW n \in Nat, NEW up, Climbs(up, n),
           NEW members, Ascends(members, n), NEW count \in Nat
    PROVE  Rises(ConvertFromScalarToSupernodalEliminationForest(
                     count, up, members), count)
<1> DEFINE E == 1..n
           V == {u \in [1..count -> Nat] :
                    \A c \in 1..count : u[c] = None \/ u[c] > c}
           follow(u, row) ==
               IF up[row] = None THEN [u EXCEPT ![members[row]] = None]
               ELSE IF members[up[row]] # members[row]
                    THEN [u EXCEPT ![members[row]] = members[up[row]]]
                    ELSE u
           first == Constant(count, None)
           s == Indices(n)
           step == [xe \in V \X E |-> follow(xe[1], xe[2])]
           D == 0..Len(s)
           Body(g) == [k \in D |-> IF k = 0 THEN first
                                   ELSE follow(g[k - 1], s[k])]
           g == CHOOSE g : g = Body(g)
<1>1. s \in Seq(E) /\ Len(s) = n
  BY IndicesAreTyped
<1>2. first \in V
  <2>1. first = [i \in 1..count |-> 0]
    BY ConstantFacts DEF None
  <2> HIDE DEF first
  <2> QED
    BY <2>1 DEF None
<1>3. ASSUME NEW u \in V, NEW e \in E PROVE follow(u, e) \in V
  <2>1. ASSUME NEW x \in Nat, NEW c \in Nat, x = None \/ x > c
        PROVE  [u EXCEPT ![c] = x] \in V
    BY <2>1
  <2>2. members[e] \in Nat
    BY DEF Ascends
  <2>3. CASE up[e] = None
    <3>1. None \in Nat
      BY DEF None
    <3> QED
      BY <2>1, <2>2, <2>3, <3>1
  <2>4. CASE up[e] # None
    <3>1. up[e] \in 1..n /\ e <= up[e]
      BY <2>4 DEF Climbs, None
    <3>2. /\ members[up[e]] \in Nat
          /\ members[e] <= members[up[e]]
      BY <3>1 DEF Ascends
    <3>3. CASE members[up[e]] # members[e]
      <4>1. members[up[e]] > members[e]
        BY <2>2, <3>2, <3>3
      <4>2. [u EXCEPT ![members[e]] = members[up[e]]] \in V
        BY <2>1, <2>2, <3>2, <4>1
      <4> QED
        BY <2>4, <3>3, <4>2
    <3> QED
      BY <2>4, <3>3
  <2> QED
    BY <2>3, <2>4
<1>4. \A u \in V, e \in E :
          <<u, e>> \in V \X E /\ step[<<u, e>>] = follow(u, e)
  OBVIOUS
<1>5. IsStep(step, V, E)
  <2>1. \A xe \in V \X E : follow(xe[1], xe[2]) \in V
    BY ZenonT(40), <1>3
  <2> HIDE DEF V, follow, E
  <2> QED
    BY <2>1 DEF IsStep
<1> HIDE DEF step, V, follow, first, E, s
<1>6. g = Body(g)
  <2>1. PICK f \in [D -> V] : IsLoop(f, s, first, step)
    BY <1>1, <1>2, <1>5, LoopExists
  <2>2. \A k \in D : k # 0 => f[k - 1] \in V /\ s[k] \in E
    BY <1>1
  <2>3. \A k \in D : (IF k = 0 THEN first ELSE step[<<f[k - 1], s[k]>>])
                          = (IF k = 0 THEN first ELSE follow(f[k - 1], s[k]))
    BY <1>4, <2>2
  <2>4. f = Body(f)
    BY <2>1, <2>3 DEF IsLoop
  <2> QED
    BY <2>4
<1>7. ConvertFromScalarToSupernodalEliminationForest(count, up, members)
          = g[Len(s)]
  <2>1. Len(up) = n
    BY DEF Climbs
  <2>2. ConvertFromScalarToSupernodalEliminationForest(count, up, members)
          = Through(Indices(n), first, follow)
    BY <2>1 DEF ConvertFromScalarToSupernodalEliminationForest, follow, first
  <2> QED
    BY <2>2 DEF Through, s
<1> HIDE DEF g
<1>8. Follows(g, s, first, step, V)
  <2>1. \A k \in 1..Len(s) : s[k] \in E /\ k \in D /\ k # 0
    BY <1>1
  <2>2. 0 \in D
    BY <1>1
  <2> QED
    BY <1>4, <1>6, <2>1, <2>2 DEF Follows
<1>9. g[Len(s)] \in V
  BY <1>1, <1>2, <1>5, <1>8, LoopIsFound
<1> QED
  BY <1>7, <1>9 DEF V, Rises

\* Offsets depend on the sizes before them alone.
LEMMA ScansAgree ==
    ASSUME NEW a \in Seq(Nat), NEW b \in Seq(Nat), NEW m \in Nat,
           m <= Len(a), m <= Len(b), \A k \in 1..m : a[k] = b[k]
    PROVE  \A k \in 0..m : OffsetScan(a)[k + 1] = OffsetScan(b)[k + 1]
<1> DEFINE x == OffsetScan(a)
           y == OffsetScan(b)
           S == {k \in 0..m : x[k + 1] = y[k + 1]}
<1>1. x[1] = 0 /\ \A k \in 1..m : x[k + 1] = x[k] + a[k]
  <2>1. \A k \in 1..m : k \in 1..Len(a)
    OBVIOUS
  <2>2. Len(a) \in Nat
    OBVIOUS
  <2> QED
    BY <2>1, <2>2, OffsetScanFacts
<1>2. y[1] = 0 /\ \A k \in 1..m : y[k + 1] = y[k] + b[k]
  <2>1. \A k \in 1..m : k \in 1..Len(b)
    OBVIOUS
  <2>2. Len(b) \in Nat
    OBVIOUS
  <2> QED
    BY <2>1, <2>2, OffsetScanFacts
<1> HIDE DEF x, y
<1>3. 0 \in S
  BY <1>1, <1>2
<1>4. ASSUME NEW k \in 1..m, k - 1 \in S PROVE k \in S
  <2>1. x[k] = y[k]
    <3>1. (k - 1) + 1 = k
      OBVIOUS
    <3> QED
      BY <1>4, <3>1
  <2>2. k \in 0..m /\ a[k] = b[k]
    OBVIOUS
  <2> QED
    BY <1>1, <1>2, <2>1, <2>2
<1> HIDE DEF S
<1>5. 0..m \subseteq S
  BY <1>3, <1>4, CountsUp
<1> QED
  BY <1>5 DEF S, x, y

\* One more column, in a supernode of its own or in the last one.
LEMMA TotalGrows ==
    ASSUME NEW sizes \in Seq(Nat \ {0})
    PROVE  LET one == Append(sizes, 1)
               more == [sizes EXCEPT ![Len(sizes)] = @ + 1]
               total == Last(OffsetScan(sizes))
           IN  /\ one \in Seq(Nat \ {0}) /\ one # <<>>
               /\ Last(OffsetScan(one)) = total + 1
               /\ sizes # <<>> =>
                      /\ more \in Seq(Nat \ {0}) /\ more # <<>>
                      /\ Last(OffsetScan(more)) = total + 1
<1> DEFINE n == Len(sizes)
           one == Append(sizes, 1)
           more == [sizes EXCEPT ![n] = @ + 1]
           total == Last(OffsetScan(sizes))
<1>1. n \in Nat /\ sizes \in Seq(Nat)
  OBVIOUS
<1>2. /\ total = OffsetScan(sizes)[n + 1] /\ total \in Nat
      /\ \A k \in 1..n : OffsetScan(sizes)[k + 1] = OffsetScan(sizes)[k] + sizes[k]
      /\ \A k \in 1..n : OffsetScan(sizes)[k] \in Nat
  <2>1. /\ OffsetScan(sizes) \in Seq(Nat) /\ Len(OffsetScan(sizes)) = n + 1
        /\ total = OffsetScan(sizes)[n + 1]
        /\ \A k \in 1..n :
               OffsetScan(sizes)[k + 1] = OffsetScan(sizes)[k] + sizes[k]
    BY <1>1, OffsetScanFacts
  <2>2. \A k \in 1..(n + 1) : OffsetScan(sizes)[k] \in Nat
    BY <1>1, <2>1
  <2>3. n + 1 \in 1..(n + 1) /\ \A k \in 1..n : k \in 1..(n + 1)
    BY <1>1
  <2> QED
    BY <2>1, <2>2, <2>3
<1>3. /\ one \in Seq(Nat \ {0}) /\ one \in Seq(Nat) /\ Len(one) = n + 1
      /\ one[n + 1] = 1 /\ \A k \in 1..n : one[k] = sizes[k]
  OBVIOUS
<1>4. one # <<>>
  BY <1>1, <1>3
<1> HIDE DEF one
<1>5. Last(OffsetScan(one)) = total + 1
  <2>1. /\ Last(OffsetScan(one)) = OffsetScan(one)[n + 1 + 1]
        /\ OffsetScan(one)[n + 1 + 1] = OffsetScan(one)[n + 1] + one[n + 1]
    BY <1>1, <1>3, OffsetScanFacts
  <2>2. OffsetScan(one)[n + 1] = OffsetScan(sizes)[n + 1]
    <3>1. n <= Len(one) /\ n <= Len(sizes) /\ n \in 0..n
      BY <1>1, <1>3
    <3> HIDE DEF n
    <3> QED
      BY <1>1, <1>3, <3>1, ScansAgree
  <2> QED
    BY <1>2, <1>3, <2>1, <2>2
<1>6. ASSUME sizes # <<>>
      PROVE  /\ more \in Seq(Nat \ {0}) /\ more # <<>>
             /\ Last(OffsetScan(more)) = total + 1
  <2>1. PICK m \in Nat : n = m + 1
    <3>1. n # 0
      BY <1>6
    <3>2. n - 1 \in Nat /\ n = (n - 1) + 1
      BY <1>1, <3>1
    <3> QED
      BY <3>2
  <2>2. /\ more \in Seq(Nat \ {0}) /\ more \in Seq(Nat) /\ Len(more) = n
        /\ more[n] = sizes[n] + 1
        /\ \A k \in 1..m : more[k] = sizes[k]
    BY <1>1, <2>1
  <2>3. more # <<>>
    BY <2>1, <2>2
  <2> HIDE DEF more, n
  <2>4. /\ Last(OffsetScan(more)) = OffsetScan(more)[n + 1]
        /\ OffsetScan(more)[n + 1] = OffsetScan(more)[n] + more[n]
    <3>1. n \in 1..n
      BY <2>1
    <3> QED
      BY <1>1, <2>2, <3>1, OffsetScanFacts
  <2>5. OffsetScan(more)[m + 1] = OffsetScan(sizes)[m + 1]
    <3>1. m <= Len(more) /\ m <= Len(sizes) /\ m \in 0..m
      BY <2>1, <2>2 DEF n
    <3> QED
      BY <1>1, <2>2, <3>1, ScansAgree
  <2>6. /\ OffsetScan(sizes)[n + 1] = OffsetScan(sizes)[n] + sizes[n]
        /\ OffsetScan(sizes)[n] \in Nat /\ sizes[n] \in Nat
    <3>1. n \in 1..n
      BY <2>1
    <3>2. sizes[n] \in Nat
      BY <3>1 DEF n
    <3> QED
      BY <1>2, <3>1, <3>2
  <2>7. Last(OffsetScan(more)) = OffsetScan(sizes)[n] + (sizes[n] + 1)
    BY <2>1, <2>2, <2>4, <2>5
  <2>8. total = OffsetScan(sizes)[n] + sizes[n]
    BY <1>2, <2>6
  <2> HIDE DEF total
  <2>9. Last(OffsetScan(more)) = total + 1
    <3>1. PICK x \in Nat, y \in Nat : x = OffsetScan(sizes)[n] /\ y = sizes[n]
      BY <2>6
    <3>2. Last(OffsetScan(more)) = x + (y + 1)
      BY <2>7, <3>1
    <3>3. total = x + y
      BY <2>8, <3>1
    <3> HIDE DEF total, more, n
    <3> QED
      BY <3>2, <3>3
  <2> QED
    BY SMTT(30), <2>2, <2>3, <2>9
<1> QED
  BY <1>3, <1>4, <1>5, <1>6 DEF one

\* One column at a time joins the fundamental supernode before it or begins one.
Joins(up, deg, j) ==
    /\ up[j - 1] = j
    /\ Cardinality({i \in DOMAIN up : up[i] = j}) = 1
    /\ deg[j] = deg[j - 1] - 1
SizesWith(up, deg, sizes, j) ==
    IF j > 1 /\ Joins(up, deg, j)
    THEN [sizes EXCEPT ![Len(sizes)] = @ + 1]
    ELSE Append(sizes, 1)
AreJoined(g, up, deg, n) ==
    /\ g[0] = <<>> /\ g[n] = FormFundamentalSupernodes(up, deg)
    /\ \A k \in 1..n : g[k] = SizesWith(up, deg, g[k - 1], k)
    /\ \A k \in 0..n :
           /\ g[k] \in Seq(Nat \ {0}) /\ (k > 0 => g[k] # <<>>)
           /\ Last(OffsetScan(g[k])) = k
LEMMA FundamentalsLoop ==
    ASSUME NEW n \in Nat, NEW up, NEW deg, deg \in [1..n -> Nat]
    PROVE  \E g : AreJoined(g, up, deg, n)
<1> DEFINE E == 1..n
           V == Seq(Nat \ {0})
           follow(sizes, j) == SizesWith(up, deg, sizes, j)
           next == [xe \in V \X E |->
                       IF xe[1] = <<>> THEN <<1>> ELSE follow(xe[1], xe[2])]
           s == Indices(n)
           D == 0..Len(s)
           Body(g) == [k \in D |-> IF k = 0 THEN <<>>
                                   ELSE follow(g[k - 1], s[k])]
           g == CHOOSE g : g = Body(g)
<1>1. s \in Seq(E) /\ Len(s) = n /\ \A k \in 1..n : s[k] = k
  BY IndicesAreTyped, IndicesFacts
<1>2. ASSUME NEW sizes \in V, NEW j \in E, j > 1 => sizes # <<>>
      PROVE  /\ follow(sizes, j) \in V /\ follow(sizes, j) # <<>>
             /\ Last(OffsetScan(follow(sizes, j)))
                    = Last(OffsetScan(sizes)) + 1
  BY <1>2, TotalGrows DEF SizesWith
<1>3. \A x \in V, e \in E : <<x, e>> \in V \X E /\ next[<<x, e>>]
          = IF x = <<>> THEN <<1>> ELSE follow(x, e)
  OBVIOUS
<1>4. IsStep(next, V, E)
  <2>1. \A xe \in V \X E :
            (IF xe[1] = <<>> THEN <<1>> ELSE follow(xe[1], xe[2])) \in V
    <3>1. <<1>> \in V
      OBVIOUS
    <3> QED
      BY <1>2, <3>1
  <2> HIDE DEF V, follow, E
  <2> QED
    BY <2>1 DEF IsStep
<1>5. <<>> \in V
  OBVIOUS
<1> HIDE DEF next, V, follow, E, s
<1>6. g = Body(g)
  <2>1. PICK f \in [D -> V] : IsLoop(f, s, <<>>, next)
    BY <1>1, <1>4, <1>5, LoopExists
  <2>2. f[0] = <<>> /\ \A k \in 1..n : f[k] = next[<<f[k - 1], s[k]>>]
    BY <1>1, <2>1 DEF IsLoop
  <2> DEFINE S == {k \in 0..n : k = 0 \/ (f[k] # <<>>
                                 /\ f[k] = follow(f[k - 1], s[k]))}
  <2>3. 0 \in S
    OBVIOUS
  <2>4. ASSUME NEW k \in 1..n, k - 1 \in S PROVE k \in S
    <3>1. /\ f[k - 1] \in V /\ k \in E /\ s[k] = k
          /\ f[k] = next[<<f[k - 1], s[k]>>]
          /\ f[k] = IF f[k - 1] = <<>> THEN <<1>> ELSE follow(f[k - 1], k)
      BY <1>1, <1>3, <2>2 DEF E
    <3>2. CASE k = 1
      <4>1. f[k - 1] = <<>> /\ f[k] = <<1>>
        BY <2>2, <3>1, <3>2
      <4>2. follow(<<>>, k) = <<1>>
        BY <3>2 DEF follow, SizesWith
      <4> QED
        BY SMTT(30), <3>1, <4>1, <4>2
    <3>3. CASE k # 1
      <4>1. f[k - 1] # <<>>
        BY <2>4, <3>3
      <4>2. f[k] = follow(f[k - 1], k)
        BY <3>1, <4>1
      <4> QED
        BY <1>2, <3>1, <4>1, <4>2
    <3> QED
      BY <3>2, <3>3
  <2> HIDE DEF S
  <2>5. 0..n \subseteq S
    BY <2>3, <2>4, CountsUp
  <2>6. \A k \in D : f[k] = IF k = 0 THEN <<>> ELSE follow(f[k - 1], s[k])
    BY <1>1, <2>2, <2>5 DEF S
  <2>7. f = Body(f)
    BY <2>6
  <2> QED
    BY <2>7
<1>7. FormFundamentalSupernodes(up, deg) = g[n]
  <2>1. Len(deg) = n
    OBVIOUS
  <2>2. FormFundamentalSupernodes(up, deg) = g[Len(s)]
    BY <2>1 DEF FormFundamentalSupernodes, Through, follow, SizesWith, Joins, s
  <2> QED
    BY <1>1, <2>2
<1> HIDE DEF g
<1> DEFINE S == {k \in 0..n : /\ g[k] \in V /\ (k > 0 => g[k] # <<>>)
                              /\ Last(OffsetScan(g[k])) = k}
<1>8. 0 \in S
  <2>1. g[0] = <<>>
    BY <1>1, <1>6
  <2>2. <<>> \in Seq(Nat) /\ Len(<<>>) = 0
    OBVIOUS
  <2>3. Last(OffsetScan(<<>>)) = 0
    <3>1. 0 \in Nat /\ 0 + 1 = 1
      OBVIOUS
    <3>2. /\ OffsetScan(<<>>)[1] = 0
          /\ Last(OffsetScan(<<>>)) = OffsetScan(<<>>)[0 + 1]
      BY <2>2, <3>1, OffsetScanFacts
    <3> QED
      BY <3>1, <3>2
  <2> QED
    BY <1>5, <2>1, <2>3
<1>9. ASSUME NEW k \in 1..n, k - 1 \in S PROVE k \in S
  <2>1. k \in D /\ k # 0 /\ s[k] = k /\ k \in E
    BY <1>1 DEF E
  <2>2. g[k] = follow(g[k - 1], k)
    BY <1>6, <2>1
  <2>3. /\ g[k - 1] \in V /\ (k > 1 => g[k - 1] # <<>>)
        /\ Last(OffsetScan(g[k - 1])) = k - 1
    BY <1>9
  <2>4. g[k] \in V /\ g[k] # <<>> /\ Last(OffsetScan(g[k])) = (k - 1) + 1
    BY <1>2, <2>1, <2>2, <2>3
  <2> QED
    BY <2>4
<1> HIDE DEF S
<1>10. 0..n \subseteq S
  BY <1>8, <1>9, CountsUp
<1>11. \A k \in 0..n : /\ g[k] \in Seq(Nat \ {0}) /\ (k > 0 => g[k] # <<>>)
                       /\ Last(OffsetScan(g[k])) = k
  BY <1>10 DEF S, V
<1>12. g[0] = <<>> /\ \A k \in 1..n : g[k] = SizesWith(up, deg, g[k - 1], k)
  <2>1. 0 \in D /\ \A k \in 1..n : k \in D /\ k # 0 /\ s[k] = k
    BY <1>1
  <2>2. \A k \in D : g[k] = IF k = 0 THEN <<>> ELSE follow(g[k - 1], s[k])
    BY <1>6
  <2> HIDE DEF D
  <2> QED
    BY <2>1, <2>2 DEF follow
<1> QED
  BY <1>7, <1>11, <1>12 DEF AreJoined

\* The fundamental supernodes have a column each, or more, and all together.
LEMMA FundamentalsCover ==
    ASSUME NEW n \in Nat, NEW up, NEW deg, deg \in [1..n -> Nat]
    PROVE  LET sizes == FormFundamentalSupernodes(up, deg)
           IN  sizes \in Seq(Nat \ {0}) /\ Last(OffsetScan(sizes)) = n
<1>1. n \in 0..n
  OBVIOUS
<1> QED
  BY SMTT(30), <1>1, FundamentalsLoop DEF AreJoined

\* The ways up end when every step leads to a smaller depth.
Descends(up, depth, n) ==
    /\ up \in [1..n -> 0..n]
    /\ \E K \in Nat : depth \in [1..n -> 0..K]
    /\ \A s \in 1..n : up[s] # None => depth[up[s]] < depth[s]

\* Such a way is a list.
LEMMA PathsEnd ==
    ASSUME NEW n \in Nat, NEW up, NEW depth, Descends(up, depth, n)
    PROVE  \A s \in 0..n : Path(up, s, {None}) \in Seq(1..n)
<1> DEFINE D == 1..n \cup {None}
           V == Seq(1..n)
           Body(f) == [i \in D |-> IF i \in {None} THEN <<>>
                                   ELSE <<i>> \o f[up[i]]]
           G == [f \in [D -> V] |-> Body(f)]
           rank == [i \in D |-> IF i = None THEN 0 ELSE depth[i] + 1]
<1>0. PICK B \in Nat : depth \in [1..n -> 0..B]
  BY DEF Descends
<1> DEFINE K == B + 2
<1>1. K \in Nat /\ rank \in [D -> Nat] /\ \A i \in D : rank[i] < K
  <2>1. ASSUME NEW i \in D
        PROVE  LET r == IF i = None THEN 0 ELSE depth[i] + 1
               IN  r \in Nat /\ r < B + 2
    <3>1. CASE i = None
      BY <3>1
    <3>2. CASE i # None
      <4>1. depth[i] \in 0..B
        BY <1>0, <3>2
      <4> QED
        BY <3>2, <4>1
    <3> QED
      BY <3>1, <3>2
  <2> HIDE DEF D
  <2> QED
    BY <2>1
<1>2. \A i \in 1..n : i # None /\ up[i] \in D /\ rank[up[i]] < rank[i]
  <2> SUFFICES ASSUME NEW i \in 1..n
               PROVE  i # None /\ up[i] \in D /\ rank[up[i]] < rank[i]
    OBVIOUS
  <2>1. i # None /\ up[i] \in D /\ i \in D /\ (up[i] # None => up[i] \in 1..n)
    BY DEF Descends, None
  <2>2. rank[i] = depth[i] + 1 /\ depth[i] \in Nat
    BY <1>0, <2>1
  <2>3. CASE up[i] = None
    <3>1. rank[up[i]] = 0
      BY <2>1, <2>3
    <3> QED
      BY <2>1, <2>2, <3>1
  <2>4. CASE up[i] # None
    <3>1. rank[up[i]] = depth[up[i]] + 1 /\ depth[up[i]] \in Nat
      BY <1>0, <2>1, <2>4
    <3>2. depth[up[i]] < depth[i]
      BY <2>4 DEF Descends
    <3> QED
      BY <2>1, <2>2, <3>1, <3>2
  <2> QED
    BY <2>3, <2>4
<1>3. G \in [[D -> V] -> [D -> V]]
  <2>1. ASSUME NEW f \in [D -> V], NEW i \in 1..n
        PROVE  <<i>> \o f[up[i]] \in Seq(1..n)
    <3>1. f[up[i]] \in Seq(1..n)
      BY <1>2
    <3> QED
      BY <3>1
  <2>2. <<>> \in Seq(1..n)
    OBVIOUS
  <2>3. ASSUME NEW f \in [D -> V] PROVE Body(f) \in [D -> V]
    <3>1. \A i \in D : (IF i \in {None} THEN <<>> ELSE <<i>> \o f[up[i]]) \in V
      BY <2>1, <2>2
    <3> HIDE DEF V, D
    <3> QED
      BY <3>1
  <2> HIDE DEF V, D, Body
  <2> QED
    BY <2>3
<1>4. ASSUME NEW f \in [D -> V], NEW g \in [D -> V], NEW i \in D,
             \A j \in D : rank[j] < rank[i] => f[j] = g[j]
      PROVE  G[f][i] = G[g][i]
  <2>1. i # None => f[up[i]] = g[up[i]]
    BY <1>2, <1>4
  <2> QED
    BY <2>1
<1>5. PICK f \in [D -> V] : f = Body(f)
  <2>1. <<>> \in V
    OBVIOUS
  <2>2. Determined(D, V, rank, K, G)
    <3> HIDE DEF G, D, rank, K, V
    <3> QED
      BY <1>1, <1>3, <1>4 DEF Determined
  <2>3. \E f \in [D -> V] : f = G[f]
    <3> HIDE DEF G, D, rank, K, V
    <3> QED
      BY SMTT(30), <2>1, <2>2, RecursionExists
  <2> QED
    BY <2>3
<1> DEFINE path == CHOOSE g : g = Body(g)
<1>6. path = Body(path)
  BY <1>5
<1>7. \A i : Path(up, i, {None}) = path[i]
  <2>1. DOMAIN up = 1..n
    BY DEF Descends
  <2> QED
    BY <2>1 DEF Path
<1> HIDE DEF path
<1>8. \A s \in D : path[s] = f[s]
  <2> DEFINE Wrong == {s \in D : path[s] # f[s]}
             Ranks == {rank[s] : s \in Wrong}
  <2> SUFFICES ASSUME Wrong # {} PROVE FALSE
    OBVIOUS
  <2>1. PICK s \in Wrong : \A t \in Wrong : rank[s] <= rank[t]
    <3>1. Ranks \subseteq Nat /\ Ranks # {}
      BY ZenonT(40), <1>1
    <3>2. PICK r \in Ranks : \A t \in Ranks : r <= t
      <4> HIDE DEF Ranks
      <4> QED
        BY <3>1, LeastElement
    <3> HIDE DEF rank, Wrong
    <3> QED
      BY <3>2
  <2>2. s \in D /\ path[s] # f[s]
    BY <2>1
  <2>3. s # None
    BY <1>5, <1>6, <2>2
  <2>4. s \in 1..n /\ up[s] \in D /\ rank[up[s]] < rank[s]
    BY <1>2, <2>2, <2>3
  <2>5. path[up[s]] = f[up[s]]
    <3>1. rank[up[s]] \in Nat /\ rank[s] \in Nat
      BY <1>1, <2>2, <2>4
    <3> HIDE DEF rank, D
    <3>2. ~(rank[s] <= rank[up[s]])
      BY <2>4, <3>1
    <3> QED
      BY <2>1, <2>4, <3>2
  <2>6. path[s] = <<s>> \o path[up[s]] /\ f[s] = <<s>> \o f[up[s]]
    BY <1>5, <1>6, <2>2, <2>3
  <2> QED
    BY <2>2, <2>5, <2>6
<1>9. \A s \in 0..n : s \in D
  BY DEF None
<1> HIDE DEF D, Body
<1> QED
  BY <1>5, <1>7, <1>8, <1>9

-----------------------------------------------------------------------------
(***************************************************************************)
(* Merges of supernodes.                                                   *)
(***************************************************************************)
\* The states of the merges: sizes and zeros, in front of which supernode each
\* one is put, and the leftmost one that has been merged into each.
MergeStates(n) ==
    [sizes : [1..n -> Nat], zeros : [1..n -> Int],
     mergeParents : [1..n -> 0..n], lastMerged : [1..n -> 0..n]]

\* Each supernode has a top, itself until it is merged, and the leftmost one of
\* what is merged into a top leads to it.
HaveTops(s, top, depth, n) ==
    /\ top \in [1..n -> 1..n]
    /\ Descends(s.mergeParents, depth, n)
    /\ \A x \in 1..n :
           /\ s.mergeParents[top[x]] = None
           /\ s.mergeParents[x] = None => top[x] = x
           /\ s.mergeParents[x] # None => top[x] = top[s.mergeParents[x]]
           /\ s.mergeParents[x] = None /\ s.lastMerged[x] # None
                  => top[s.lastMerged[x]] = x

\* What is merged when the supernodes up to p have got their merges.
IsMerged(s, up, p, n) ==
    /\ s \in MergeStates(n)
    /\ \E top, depth : HaveTops(s, top, depth, n)
    /\ \A x \in 1..n : s.mergeParents[x] # None => up[x] \in 1..p

\* The child that is merged next is a child that is not merged yet.
CanMerge(best, s, up, p, n) ==
    /\ best.child \in 1..n /\ up[best.child] = p /\ best.zeros \in Int
    /\ s.mergeParents[best.child] = None

\* One merge of two supernodes leaves a state of this kind.
LEMMA MergeIsTyped ==
    ASSUME NEW n \in Nat, NEW up, NEW p \in 1..n, NEW s \in MergeStates(n),
           NEW best, CanMerge(best, s, up, p, n)
    PROVE  /\ MergeChild(p, best, s) \in MergeStates(n)
           /\ LET leftmost == IF s.lastMerged[p] = None
                              THEN p ELSE s.lastMerged[p]
                  c == best.child
              IN  /\ leftmost \in 1..n
                  /\ MergeChild(p, best, s).mergeParents
                         = [s.mergeParents EXCEPT ![c] = leftmost]
                  /\ MergeChild(p, best, s).lastMerged
                         = [s.lastMerged EXCEPT ![p] =
                               IF s.lastMerged[c] = None
                               THEN c ELSE s.lastMerged[c]]
<1> DEFINE c == best.child
           leftmost == IF s.lastMerged[p] = None THEN p ELSE s.lastMerged[p]
           lowest == IF s.lastMerged[c] = None THEN c ELSE s.lastMerged[c]
           sizes == [s.sizes EXCEPT ![p] = @ + s.sizes[c], ![c] = 0]
           zeros == [s.zeros EXCEPT ![p] = best.zeros]
           ups == [s.mergeParents EXCEPT ![c] = leftmost]
           lasts == [s.lastMerged EXCEPT ![p] = lowest]
<1>1. /\ s.sizes \in [1..n -> Nat] /\ s.zeros \in [1..n -> Int]
      /\ s.mergeParents \in [1..n -> 0..n] /\ s.lastMerged \in [1..n -> 0..n]
      /\ c \in 1..n /\ best.zeros \in Int
  BY DEF MergeStates, CanMerge
<1>2. MergeChild(p, best, s) = [sizes |-> sizes, zeros |-> zeros,
                                mergeParents |-> ups, lastMerged |-> lasts]
  BY DEF MergeChild
<1> HIDE DEF c
<1>3. leftmost \in 1..n /\ lowest \in 1..n
  BY <1>1 DEF None
<1>4. sizes \in [1..n -> Nat]
  <2>1. [s.sizes EXCEPT ![p] = @ + s.sizes[c]] \in [1..n -> Nat]
    <3>1. s.sizes[p] + s.sizes[c] \in Nat
      <4>1. s.sizes[p] \in Nat /\ s.sizes[c] \in Nat
        BY <1>1
      <4> QED
        BY <4>1
    <3> DEFINE sum == s.sizes[p] + s.sizes[c]
    <3>2. [s.sizes EXCEPT ![p] = @ + s.sizes[c]] = [s.sizes EXCEPT ![p] = sum]
      OBVIOUS
    <3> HIDE DEF sum
    <3>3. [s.sizes EXCEPT ![p] = sum] \in [1..n -> Nat]
      BY <1>1, <3>1 DEF sum
    <3> QED
      BY <3>2, <3>3
  <2> DEFINE more == [s.sizes EXCEPT ![p] = @ + s.sizes[c]]
  <2>2. sizes = [more EXCEPT ![c] = 0]
    BY Zenon
  <2> HIDE DEF more
  <2> QED
    BY <1>1, <2>1, <2>2 DEF more
<1> HIDE DEF leftmost, lowest
<1>5. zeros \in [1..n -> Int] /\ ups \in [1..n -> 0..n]
      /\ lasts \in [1..n -> 0..n]
  <2>1. zeros \in [1..n -> Int]
    BY <1>1
  <2>2. ups \in [1..n -> 0..n]
    BY <1>1, <1>3
  <2>3. lasts \in [1..n -> 0..n]
    BY <1>1, <1>3
  <2> QED
    BY <2>1, <2>2, <2>3
<1> HIDE DEF sizes, zeros, ups, lasts
<1>6. [sizes |-> sizes, zeros |-> zeros, mergeParents |-> ups,
       lastMerged |-> lasts] \in MergeStates(n)
  BY <1>4, <1>5 DEF MergeStates
<1>7. MergeChild(p, best, s).mergeParents = ups
      /\ MergeChild(p, best, s).lastMerged = lasts
  BY <1>2
<1> QED
  BY <1>2, <1>3, <1>6, <1>7 DEF ups, lasts, c, leftmost, lowest

\* It keeps what the ways up look like.
LEMMA MergeFits ==
    ASSUME NEW n \in Nat, NEW up, Rises(up, n), NEW p \in 1..n, NEW s,
           IsMerged(s, up, p, n), NEW best, CanMerge(best, s, up, p, n)
    PROVE  IsMerged(MergeChild(p, best, s), up, p, n)
<1> DEFINE c == best.child
           mp == s.mergeParents
           lm == s.lastMerged
           leftmost == IF lm[p] = None THEN p ELSE lm[p]
           new == MergeChild(p, best, s)
           lowest == IF lm[c] = None THEN c ELSE lm[c]
<1>1. PICK top, depth : HaveTops(s, top, depth, n)
  BY DEF IsMerged
<1>2. /\ s \in MergeStates(n) /\ c \in 1..n /\ up[c] = p /\ mp[c] = None
      /\ \A x \in 1..n : mp[x] # None => up[x] \in 1..p
  BY DEF IsMerged, CanMerge
<1>3. /\ mp \in [1..n -> 0..n] /\ lm \in [1..n -> 0..n]
  BY <1>2 DEF MergeStates
<1>4. /\ new \in MergeStates(n) /\ leftmost \in 1..n
      /\ new.mergeParents = [mp EXCEPT ![c] = leftmost]
      /\ new.lastMerged = [lm EXCEPT ![p] = lowest]
  <2>1. s \in MergeStates(n)
    BY <1>2
  <2>2. /\ MergeChild(p, best, s) \in MergeStates(n)
        /\ (IF s.lastMerged[p] = None THEN p ELSE s.lastMerged[p]) \in 1..n
        /\ MergeChild(p, best, s).mergeParents
               = [s.mergeParents EXCEPT ![best.child] =
                     IF s.lastMerged[p] = None THEN p ELSE s.lastMerged[p]]
        /\ MergeChild(p, best, s).lastMerged
               = [s.lastMerged EXCEPT ![p] =
                     IF s.lastMerged[best.child] = None
                     THEN best.child ELSE s.lastMerged[best.child]]
    BY ONLY <2>1, n \in Nat, p \in 1..n, CanMerge(best, s, up, p, n),
            MergeIsTyped
  <2> QED
    BY <2>2
<1>5. /\ top \in [1..n -> 1..n] /\ Descends(mp, depth, n)
      /\ \A x \in 1..n :
             /\ mp[top[x]] = None
             /\ mp[x] = None => top[x] = x
             /\ mp[x] # None => top[x] = top[mp[x]]
             /\ mp[x] = None /\ lm[x] # None => top[lm[x]] = x
  BY <1>1 DEF HaveTops
<1>6. c # p /\ c \in Nat /\ p \in Nat /\ p # None
  BY <1>2 DEF Rises, None
<1>7. mp[p] = None
  <2> SUFFICES ASSUME mp[p] # None PROVE FALSE
    OBVIOUS
  <2>1. up[p] \in 1..p /\ (up[p] = None \/ up[p] > p)
    BY <1>2 DEF Rises
  <2> QED
    BY <2>1 DEF None
<1> DEFINE below(x) == top[x] = c
           topNew == [x \in 1..n |-> IF top[x] = c THEN p ELSE top[x]]
           depthNew == [x \in 1..n |-> IF top[x] = c
                            THEN depth[x] + depth[leftmost] + 1 ELSE depth[x]]
           up2 == [mp EXCEPT ![c] = leftmost]
<1>8. top[c] = c /\ top[p] = p /\ top[leftmost] = p /\ lowest \in 1..n
      /\ top[lowest] = c
  <2>1. top[c] = c /\ top[p] = p
    BY <1>2, <1>5, <1>7
  <2>2. top[leftmost] = p
    <3>1. CASE lm[p] = None
      BY <2>1, <3>1
    <3>2. CASE lm[p] # None
      BY <1>5, <1>7, <3>2
    <3> QED
      BY <3>1, <3>2
  <2>3. lowest \in 1..n /\ top[lowest] = c
    <3>1. CASE lm[c] = None
      BY <1>2, <2>1, <3>1
    <3>2. CASE lm[c] # None
      <4>1. lm[c] \in 1..n
        BY <1>2, <1>3, <3>2 DEF None
      <4> QED
        BY <1>2, <1>5, <3>2, <4>1
    <3> QED
      BY <3>1, <3>2
  <2> QED
    BY <2>1, <2>2, <2>3
<1>9. PICK K \in Nat : depth \in [1..n -> 0..K]
  BY <1>5 DEF Descends
<1> HIDE DEF c, leftmost, lowest, mp, lm, new
<1>10. /\ up2 \in [1..n -> 0..n] /\ up2[c] = leftmost
       /\ \A x \in 1..n : x # c => up2[x] = mp[x]
  BY <1>2, <1>3, <1>4
<1>11. \A x \in 1..n : mp[x] # None => mp[x] \in 1..n /\ x # c
  BY <1>2, <1>3 DEF None
<1>12. depthNew \in [1..n -> 0..(K + K + 1)]
  <2>1. ASSUME NEW x \in 1..n
        PROVE  (IF top[x] = c THEN depth[x] + depth[leftmost] + 1
                ELSE depth[x]) \in 0..(K + K + 1)
    <3>1. depth[x] \in 0..K /\ depth[leftmost] \in 0..K
      BY <1>4, <1>9
    <3> QED
      BY <3>1
  <2> QED
    BY <2>1
<1>13. ASSUME NEW x \in 1..n, up2[x] # None
       PROVE  depthNew[up2[x]] < depthNew[x]
  <2>1. CASE x = c
    <3>1. /\ depthNew[x] = depth[c] + depth[leftmost] + 1
          /\ depthNew[leftmost] = depth[leftmost]
      BY <1>2, <1>4, <1>6, <1>8, <2>1
    <3>2. depth[c] \in Nat /\ depth[leftmost] \in Nat
      BY <1>2, <1>4, <1>9
    <3> QED
      BY <1>10, <2>1, <3>1, <3>2
  <2>2. CASE x # c
    <3>1. up2[x] = mp[x] /\ mp[x] \in 1..n /\ top[x] = top[mp[x]]
          /\ depth[mp[x]] < depth[x]
      BY <1>5, <1>10, <1>11, <1>13, <2>2 DEF Descends
    <3>2. depth[x] \in Nat /\ depth[mp[x]] \in Nat /\ depth[leftmost] \in Nat
      BY <1>4, <1>9, <3>1
    <3>3. CASE top[x] = c
      <4>1. /\ depthNew[x] = depth[x] + depth[leftmost] + 1
            /\ depthNew[mp[x]] = depth[mp[x]] + depth[leftmost] + 1
        BY <3>1, <3>3
      <4> QED
        BY <3>1, <3>2, <4>1
    <3>4. CASE top[x] # c
      <4>1. depthNew[x] = depth[x] /\ depthNew[mp[x]] = depth[mp[x]]
        BY <3>1, <3>4
      <4> QED
        BY <3>1, <3>2, <4>1
    <3> QED
      BY <3>3, <3>4
  <2> QED
    BY <2>1, <2>2
<1>14. Descends(up2, depthNew, n)
  <2>1. K + K + 1 \in Nat
    OBVIOUS
  <2> HIDE DEF depthNew, up2
  <2> QED
    BY <1>10, <1>12, <1>13, <2>1 DEF Descends
<1>15. topNew \in [1..n -> 1..n]
  BY <1>5
<1>16. ASSUME NEW x \in 1..n
       PROVE  /\ up2[topNew[x]] = None
              /\ up2[x] = None => topNew[x] = x
              /\ up2[x] # None => topNew[x] = topNew[up2[x]]
              /\ up2[x] = None /\ new.lastMerged[x] # None
                     => topNew[new.lastMerged[x]] = x
  <2>1. up2[topNew[x]] = None
    BY <1>5, <1>6, <1>7, <1>10
  <2>2. ASSUME up2[x] = None PROVE topNew[x] = x /\ x # c /\ mp[x] = None
    <3>1. leftmost # None
      BY <1>4 DEF None
    <3>2. x # c /\ mp[x] = None
      BY <1>10, <2>2, <3>1
    <3> QED
      BY <1>5, <3>2
  <2>3. ASSUME up2[x] # None PROVE topNew[x] = topNew[up2[x]]
    <3>1. CASE x = c
      BY <1>4, <1>6, <1>8, <1>10, <3>1
    <3>2. CASE x # c
      <4>1. up2[x] = mp[x] /\ mp[x] \in 1..n /\ top[x] = top[mp[x]]
        BY <1>5, <1>10, <1>11, <2>3, <3>2
      <4> QED
        BY <4>1
    <3> QED
      BY <3>1, <3>2
  <2>4. ASSUME up2[x] = None, new.lastMerged[x] # None
        PROVE  topNew[new.lastMerged[x]] = x
    <3>1. CASE x = p
      <4>1. new.lastMerged[x] = lowest
        BY <1>3, <1>4, <3>1
      <4> QED
        BY <1>8, <3>1, <4>1
    <3>2. CASE x # p
      <4>1. new.lastMerged[x] = lm[x] /\ lm[x] \in 1..n
        BY <1>3, <1>4, <2>4, <3>2 DEF None
      <4>2. top[lm[x]] = x /\ x # c
        BY <1>5, <2>2, <2>4, <4>1
      <4> QED
        BY <4>1, <4>2
    <3> QED
      BY <3>1, <3>2
  <2> QED
    BY <2>1, <2>2, <2>3, <2>4
<1>17. HaveTops(new, topNew, depthNew, n)
  <2>1. new.mergeParents = up2
    BY <1>4
  <2> HIDE DEF topNew, depthNew, up2
  <2> QED
    BY <1>14, <1>15, <1>16, <2>1 DEF HaveTops
<1>18. ASSUME NEW x \in 1..n, new.mergeParents[x] # None
       PROVE  up[x] \in 1..p
  BY <1>2, <1>4, <1>6, <1>10, <1>18
<1> QED
  BY <1>4, <1>17, <1>18 DEF IsMerged, new

\* A merge does not add a negative number of zeros.
LEMMA ZerosAreCounted ==
    ASSUME NEW a \in Nat, NEW b \in Nat, NEW c \in Nat, NEW d \in Nat,
           NEW zeros \in Int, NEW control
    PROVE  MergableSupernode(a, b, c, d, zeros, control).zeros \in Int
<1>1. (c + d - b) * a \in Int
  OBVIOUS
<1>2. MergableSupernode(a, b, c, d, zeros, control).zeros
          = zeros + (c + d - b) * a
  BY DEF MergableSupernode
<1> QED
  BY <1>1, <1>2

LEMMA ReverseIsListed ==
    ASSUME NEW A, NEW r \in Seq(A)
    PROVE  Reverse(r) \in Seq(A)
<1>1. \A i \in 1..Len(r) : Len(r) - i + 1 \in 1..Len(r)
  OBVIOUS
<1>2. \A i \in 1..Len(r) : r[Len(r) - i + 1] \in A
  BY <1>1
<1>3. Reverse(r) = [i \in 1..Len(r) |-> r[Len(r) - i + 1]]
  BY DEF Reverse
<1> QED
  BY <1>2, <1>3

\* What BestMergableChild finds, if it finds any, can be merged.
LEMMA BestCanMerge ==
    ASSUME NEW n \in Nat, NEW up, NEW p \in 1..n, NEW o,
           o.forest.children[p] \in Seq({c \in 1..n : up[c] = p}),
           NEW deg \in [1..n -> Nat], NEW control, NEW s \in MergeStates(n)
    PROVE  LET best == BestMergableChild(p, o, deg, control, s)
           IN  best.child = None \/ CanMerge(best, s, up, p, n)
<1> DEFINE E == {c \in 1..n : up[c] = p}
           leftmost == IF s.lastMerged[p] = None
                       THEN p ELSE s.lastMerged[p]
           adjacent(c) == o.offsets[c] + o.sizes[c] = o.offsets[leftmost]
           status(c) == MergableSupernode(s.sizes[c], deg[c],
                            s.sizes[p], deg[p],
                            s.zeros[c] + s.zeros[p], control)
           newZeros(c) == status(c).zeros - (s.zeros[c] + s.zeros[p])
           wins(best, c) ==
               /\ s.mergeParents[c] = None
               /\ control.preserveOrdering => adjacent(c)
               /\ s.sizes[c] >= best.size
               /\ status(c).mergable
               /\ s.sizes[c] > best.size \/ newZeros(c) < best.newZeros
           found(c) == [child |-> c, size |-> s.sizes[c],
                        newZeros |-> newZeros(c), zeros |-> status(c).zeros]
           follow(best, c) == IF wins(best, c) THEN found(c) ELSE best
           V == {best \in [child : 0..n, size : Nat, newZeros : Int,
                           zeros : Int] :
                    best.child # None =>
                        up[best.child] = p /\ s.mergeParents[best.child] = None}
           first == [child |-> None, size |-> 0, newZeros |-> 0, zeros |-> 0]
           q == Reverse(o.forest.children[p])
           D == 0..Len(q)
           step == [xe \in V \X E |-> follow(xe[1], xe[2])]
           Body(g) == [k \in D |-> IF k = 0 THEN first
                                   ELSE follow(g[k - 1], q[k])]
           g == CHOOSE g : g = Body(g)
<1>1. q \in Seq(E)
  BY ReverseIsListed
<1>2. first \in V
  BY DEF None
<1>3. ASSUME NEW best \in V, NEW c \in E PROVE follow(best, c) \in V
  <2>1. /\ c \in 1..n /\ s.sizes[c] \in Nat /\ s.sizes[p] \in Nat
        /\ s.zeros[c] \in Int /\ s.zeros[p] \in Int
        /\ deg[c] \in Nat /\ deg[p] \in Nat
    BY DEF MergeStates
  <2>2. s.zeros[c] + s.zeros[p] \in Int
    BY <2>1
  <2>3. status(c).zeros \in Int
    BY <2>1, <2>2, ZerosAreCounted
  <2> HIDE DEF status
  <2>4. newZeros(c) \in Int
    BY <2>2, <2>3
  <2>5. wins(best, c) => s.mergeParents[c] = None
    OBVIOUS
  <2> HIDE DEF wins, newZeros
  <2>6. s.mergeParents[c] = None => found(c) \in V
    BY SMTT(30), <2>1, <2>3, <2>4
  <2> HIDE DEF found, V
  <2> QED
    BY <2>5, <2>6
<1>4. \A best \in V, c \in E :
          <<best, c>> \in V \X E /\ step[<<best, c>>] = follow(best, c)
  <2> HIDE DEF V, E, follow
  <2> QED
    OBVIOUS
<1>5. IsStep(step, V, E)
  <2>1. \A xe \in V \X E : follow(xe[1], xe[2]) \in V
    BY <1>3
  <2> HIDE DEF V, follow, E
  <2> QED
    BY <2>1 DEF IsStep
<1> HIDE DEF step, V, follow, first, E, q
<1>6. g = Body(g)
  <2>1. PICK f \in [D -> V] : IsLoop(f, q, first, step)
    BY <1>1, <1>2, <1>5, LoopExists
  <2>2. \A k \in D : k # 0 => f[k - 1] \in V /\ q[k] \in E
    <3>1. Len(q) \in Nat
      BY <1>1
    <3>2. \A k \in D : k # 0 => k \in 1..Len(q) /\ k - 1 \in D
      BY <3>1
    <3>3. \A k \in 1..Len(q) : q[k] \in E
      BY <1>1
    <3> HIDE DEF D
    <3>4. \A k \in D : f[k] \in V
      BY <2>1
    <3> QED
      BY <3>2, <3>3, <3>4
  <2>3. \A k \in D : (IF k = 0 THEN first ELSE step[<<f[k - 1], q[k]>>])
                          = (IF k = 0 THEN first ELSE follow(f[k - 1], q[k]))
    BY <1>4, <2>2
  <2>4. f = Body(f)
    BY <2>1, <2>3 DEF IsLoop
  <2> QED
    BY <2>4
<1>7. BestMergableChild(p, o, deg, control, s) = g[Len(q)]
  <2>1. BestMergableChild(p, o, deg, control, s) = Through(q, first, follow)
    BY DEF BestMergableChild, follow, wins, found, newZeros, status, adjacent,
           leftmost, first, q
  <2> QED
    BY <2>1 DEF Through
<1> HIDE DEF g
<1>8. Follows(g, q, first, step, V)
  <2>1. \A k \in 1..Len(q) : q[k] \in E /\ k \in D /\ k # 0
    BY <1>1
  <2>2. 0 \in D
    BY <1>1
  <2> QED
    BY <1>4, <1>6, <2>1, <2>2 DEF Follows
<1>9. g[Len(q)] \in V
  BY <1>1, <1>2, <1>5, <1>8, LoopIsFound
<1>10. ASSUME NEW best \in V
       PROVE  best.child = None \/ CanMerge(best, s, up, p, n)
  BY <1>10 DEF V, CanMerge, None
<1> QED
  BY <1>7, <1>9, <1>10

\* What each merge keeps, all merges of a parent keep.
LEMMA MergesOfParentKeep ==
    ASSUME NEW n \in Nat, NEW up, NEW p \in 1..n, NEW o,
           o.forest.children[p] \in Seq({c \in 1..n : up[c] = p}),
           NEW deg \in [1..n -> Nat], NEW control,
           NEW V, V \subseteq MergeStates(n),
           \A s \in V : \A best :
               CanMerge(best, s, up, p, n) => MergeChild(p, best, s) \in V,
           NEW start \in V
    PROVE  MergeChildren(p, o, deg, control, start) \in V
<1> DEFINE E == {c \in 1..n : up[c] = p}
           best(s) == BestMergableChild(p, o, deg, control, s)
           follow(s, attempt) ==
               IF best(s).child = None THEN s ELSE MergeChild(p, best(s), s)
           q == o.forest.children[p]
           D == 0..Len(q)
           step == [xe \in V \X E |-> follow(xe[1], xe[2])]
           Body(g) == [k \in D |-> IF k = 0 THEN start
                                   ELSE follow(g[k - 1], q[k])]
           g == CHOOSE g : g = Body(g)
<1>1. q \in Seq(E)
  OBVIOUS
<1>2. ASSUME NEW s \in V, NEW c PROVE follow(s, c) \in V
  <2>1. best(s).child = None \/ CanMerge(best(s), s, up, p, n)
    BY BestCanMerge
  <2> HIDE DEF best
  <2> QED
    BY <2>1
<1>3. \A s \in V, c \in E :
          <<s, c>> \in V \X E /\ step[<<s, c>>] = follow(s, c)
  <2> HIDE DEF E, follow
  <2> QED
    OBVIOUS
<1>4. IsStep(step, V, E)
  <2>1. \A xe \in V \X E : follow(xe[1], xe[2]) \in V
    BY <1>2
  <2> HIDE DEF follow, E
  <2> QED
    BY <2>1 DEF IsStep
<1> HIDE DEF step, follow, E, q
<1>5. g = Body(g)
  <2>1. PICK f \in [D -> V] : IsLoop(f, q, start, step)
    BY <1>1, <1>4, LoopExists
  <2>2. \A k \in D : k # 0 => f[k - 1] \in V /\ q[k] \in E
    <3>1. Len(q) \in Nat
      BY <1>1
    <3>2. \A k \in D : k # 0 => k \in 1..Len(q) /\ k - 1 \in D
      BY <3>1
    <3>3. \A k \in 1..Len(q) : q[k] \in E
      BY <1>1
    <3> HIDE DEF D
    <3>4. \A k \in D : f[k] \in V
      BY <2>1
    <3> QED
      BY <3>2, <3>3, <3>4
  <2>3. \A k \in D : (IF k = 0 THEN start ELSE step[<<f[k - 1], q[k]>>])
                          = (IF k = 0 THEN start ELSE follow(f[k - 1], q[k]))
    BY <1>3, <2>2
  <2>4. f = Body(f)
    BY <2>1, <2>3 DEF IsLoop
  <2> QED
    BY <2>4
<1>6. MergeChildren(p, o, deg, control, start) = g[Len(q)]
  <2>1. MergeChildren(p, o, deg, control, start) = Through(q, start, follow)
    BY DEF MergeChildren, follow, best, q
  <2> QED
    BY <2>1 DEF Through
<1> HIDE DEF g
<1>7. Follows(g, q, start, step, V)
  <2>1. \A k \in 1..Len(q) : q[k] \in E /\ k \in D /\ k # 0
    BY <1>1
  <2>2. 0 \in D
    BY <1>1
  <2> QED
    BY <1>3, <1>5, <2>1, <2>2 DEF Follows
<1>8. g[Len(q)] \in V
  BY <1>1, <1>4, <1>7, LoopIsFound
<1> QED
  BY <1>6, <1>8

\* So all merges keep it, each parent's after those of the ones before.
LEMMA MergesFit ==
    ASSUME NEW n \in Nat, NEW up, Rises(up, n), NEW o,
           o.sizes \in [1..n -> Nat], Len(o.sizes) = n,
           \A p \in 1..n :
               o.forest.children[p] \in Seq({c \in 1..n : up[c] = p}),
           NEW deg \in [1..n -> Nat], NEW control
    PROVE  IsMerged(Merges(o, deg, control), up, n, n)
<1> DEFINE E == 1..n
           V == MergeStates(n)
           follow(s, p) == MergeChildren(p, o, deg, control, s)
           none == Constant(n, None)
           first == [sizes |-> o.sizes, zeros |-> Constant(n, 0),
                     lastMerged |-> none, mergeParents |-> none]
           q == Indices(n)
           D == 0..Len(q)
           step == [xe \in V \X E |-> follow(xe[1], xe[2])]
           Body(g) == [k \in D |-> IF k = 0 THEN first
                                   ELSE follow(g[k - 1], q[k])]
           g == CHOOSE g : g = Body(g)
<1>1. q \in Seq(E) /\ Len(q) = n /\ \A k \in 1..n : q[k] = k
  BY IndicesAreTyped, IndicesFacts
<1>2. none = [x \in 1..n |-> None] /\ Constant(n, 0) = [x \in 1..n |-> 0]
  BY ConstantFacts
<1>3. IsMerged(first, up, 0, n)
  <2> DEFINE top == [x \in 1..n |-> x]
             depth == [x \in 1..n |-> 0]
  <2>1. first \in MergeStates(n)
    BY <1>2 DEF MergeStates, None
  <2>2. \A x \in 1..n : first.mergeParents[x] = None
    BY <1>2
  <2>3. Descends(first.mergeParents, depth, n)
    <3>1. first.mergeParents \in [1..n -> 0..n]
      BY <2>1 DEF MergeStates
    <3>2. 0 \in Nat /\ depth \in [1..n -> 0..0]
      OBVIOUS
    <3> HIDE DEF first, depth
    <3> QED
      BY <2>2, <3>1, <3>2 DEF Descends
  <2>4. \A x \in 1..n : first.lastMerged[x] = None
    BY <1>2
  <2>5. top \in [1..n -> 1..n] /\ \A x \in 1..n : top[x] = x
    OBVIOUS
  <2> HIDE DEF first, top, depth
  <2>6. HaveTops(first, top, depth, n)
    BY <2>2, <2>3, <2>4, <2>5 DEF HaveTops
  <2> QED
    BY <2>1, <2>2, <2>6 DEF IsMerged
<1>4. first \in V
  BY <1>3 DEF IsMerged
<1>5. ASSUME NEW s \in V, NEW p \in E PROVE follow(s, p) \in V
  <2>1. \A t \in V : \A best :
            CanMerge(best, t, up, p, n) => MergeChild(p, best, t) \in V
    BY MergeIsTyped
  <2> QED
    BY <2>1, MergesOfParentKeep
<1>6. ASSUME NEW p \in E, NEW s, IsMerged(s, up, p - 1, n)
      PROVE  IsMerged(follow(s, p), up, p, n)
  <2> DEFINE W == {t \in MergeStates(n) : IsMerged(t, up, p, n)}
  <2>1. IsMerged(s, up, p, n)
    <3>1. \A x : x \in 1..(p - 1) => x \in 1..p
      OBVIOUS
    <3> QED
      BY <1>6, <3>1 DEF IsMerged
  <2>2. s \in W
    BY <2>1 DEF IsMerged
  <2>3. W \subseteq MergeStates(n)
    OBVIOUS
  <2>4. \A t \in W : \A best :
            CanMerge(best, t, up, p, n) => MergeChild(p, best, t) \in W
    BY MergeFits, MergeIsTyped
  <2> HIDE DEF W
  <2>5. follow(s, p) \in W
    BY <2>2, <2>3, <2>4, MergesOfParentKeep
  <2> QED
    BY <2>5 DEF W
<1>7. \A s \in V, p \in E :
          <<s, p>> \in V \X E /\ step[<<s, p>>] = follow(s, p)
  <2> HIDE DEF V, E, follow
  <2> QED
    OBVIOUS
<1>8. IsStep(step, V, E)
  <2>1. \A xe \in V \X E : follow(xe[1], xe[2]) \in V
    BY <1>5
  <2> HIDE DEF V, follow, E
  <2> QED
    BY <2>1 DEF IsStep
<1> HIDE DEF step, V, follow, first, E, q, none
<1>9. g = Body(g)
  <2>1. PICK f \in [D -> V] : IsLoop(f, q, first, step)
    BY <1>1, <1>4, <1>8, LoopExists
  <2>2. \A k \in D : k # 0 => f[k - 1] \in V /\ q[k] \in E
    BY <1>1
  <2>3. \A k \in D : (IF k = 0 THEN first ELSE step[<<f[k - 1], q[k]>>])
                          = (IF k = 0 THEN first ELSE follow(f[k - 1], q[k]))
    BY <1>7, <2>2
  <2>4. f = Body(f)
    BY <2>1, <2>3 DEF IsLoop
  <2> QED
    BY <2>4
<1>10. Merges(o, deg, control) = g[n]
  <2>1. Merges(o, deg, control) = Through(q, first, follow)
    BY DEF Merges, follow, first, none, q
  <2> QED
    BY <1>1, <2>1 DEF Through
<1> HIDE DEF g
<1> DEFINE S == {k \in 0..n : IsMerged(g[k], up, k, n)}
<1>11. 0 \in S
  <2>1. g[0] = first
    BY <1>1, <1>9
  <2> QED
    BY <1>3, <2>1
<1>12. ASSUME NEW k \in 1..n, k - 1 \in S PROVE k \in S
  <2>1. k \in D /\ k # 0 /\ q[k] = k /\ k \in E
    BY <1>1 DEF E
  <2>2. g[k] = follow(g[k - 1], k)
    BY <1>9, <2>1
  <2>3. IsMerged(g[k - 1], up, k - 1, n)
    BY <1>12
  <2> QED
    BY <1>6, <2>1, <2>2, <2>3
<1> HIDE DEF S
<1>13. 0..n \subseteq S
  BY <1>11, <1>12, CountsUp
<1> QED
  BY <1>10, <1>13 DEF S

-----------------------------------------------------------------------------
(***************************************************************************)
(* Supernodes that are formed.                                             *)
(***************************************************************************)
\* The columns of the supernodes of a sequence, one supernode after the other.
Listed(o, q) ==
    Through(q, <<>>, LAMBDA done, t :
        done \o [j \in 1..o.sizes[t] |-> o.offsets[t] + j])

\* Their columns are natural numbers.
LEMMA ColumnsAreListed ==
    ASSUME NEW n \in Nat, NEW o, o.sizes \in [1..n -> Nat],
           \A t \in 1..n : o.offsets[t] \in Nat, NEW q \in Seq(1..n)
    PROVE  Listed(o, q) \in Seq(Nat)
<1> DEFINE E == 1..n
           V == Seq(Nat)
           columns(t) == [j \in 1..o.sizes[t] |-> o.offsets[t] + j]
           follow(done, t) == done \o columns(t)
           D == 0..Len(q)
           step == [xe \in V \X E |-> follow(xe[1], xe[2])]
           Body(g) == [k \in D |-> IF k = 0 THEN <<>>
                                   ELSE follow(g[k - 1], q[k])]
           g == CHOOSE g : g = Body(g)
<1>1. q \in Seq(E) /\ Len(q) \in Nat
  OBVIOUS
<1>2. ASSUME NEW done \in V, NEW t \in E PROVE follow(done, t) \in V
  <2>1. o.sizes[t] \in Nat /\ o.offsets[t] \in Nat
    OBVIOUS
  <2>2. columns(t) \in Seq(Nat)
    <3>1. \A j \in 1..o.sizes[t] : o.offsets[t] + j \in Nat
      BY <2>1
    <3> DEFINE f == columns(t)
    <3>2. f = [j \in 1..o.sizes[t] |-> f[j]]
      OBVIOUS
    <3>3. \A j \in 1..o.sizes[t] : f[j] \in Nat
      BY <3>1
    <3> HIDE DEF f
    <3>4. f \in Seq(Nat)
      BY <2>1, <3>2, <3>3, WrittenDown
    <3> QED
      BY <3>4 DEF f
  <2> HIDE DEF columns
  <2> QED
    BY <2>2
<1>3. \A done \in V, t \in E :
          <<done, t>> \in V \X E /\ step[<<done, t>>] = follow(done, t)
  <2> HIDE DEF V, E, follow
  <2> QED
    OBVIOUS
<1>4. IsStep(step, V, E)
  <2>1. \A xe \in V \X E : follow(xe[1], xe[2]) \in V
    BY <1>2
  <2> HIDE DEF V, follow, E
  <2> QED
    BY <2>1 DEF IsStep
<1>5. <<>> \in V
  OBVIOUS
<1> HIDE DEF step, V, follow, E
<1>6. g = Body(g)
  <2>1. PICK f \in [D -> V] : IsLoop(f, q, <<>>, step)
    BY <1>1, <1>4, <1>5, LoopExists
  <2>2. \A k \in D : k # 0 => f[k - 1] \in V /\ q[k] \in E
    <3>1. \A k \in D : k # 0 => k \in 1..Len(q) /\ k - 1 \in D
      BY <1>1
    <3>2. \A k \in 1..Len(q) : q[k] \in E
      BY <1>1
    <3> HIDE DEF D
    <3>3. \A k \in D : f[k] \in V
      BY <2>1
    <3> QED
      BY <3>1, <3>2, <3>3
  <2>3. \A k \in D : (IF k = 0 THEN <<>> ELSE step[<<f[k - 1], q[k]>>])
                          = (IF k = 0 THEN <<>> ELSE follow(f[k - 1], q[k]))
    BY <1>3, <2>2
  <2>4. f = Body(f)
    BY <2>1, <2>3 DEF IsLoop
  <2> QED
    BY <2>4
<1>7. Listed(o, q) = g[Len(q)]
  BY DEF Listed, Through, follow, columns
<1> HIDE DEF g
<1>8. Follows(g, q, <<>>, step, V)
  <2>1. \A k \in 1..Len(q) : q[k] \in E /\ k \in D /\ k # 0
    BY <1>1
  <2>2. 0 \in D
    BY <1>1
  <2> QED
    BY <1>3, <1>6, <2>1, <2>2 DEF Follows
<1>9. g[Len(q)] \in V
  BY <1>1, <1>4, <1>5, <1>8, LoopIsFound
<1> QED
  BY <1>7, <1>9 DEF V, follow

\* Each supernode has a size and a degree.
HasSupernodes(f) ==
    /\ f.degrees \in Seq(Nat)
    /\ "sizes" \in DOMAIN f.ordering /\ f.ordering.sizes \in Seq(Nat)
    /\ Len(f.ordering.sizes) = Len(f.degrees)

\* Relaxed supernodes have them.
LEMMA RelaxedHasSupernodes ==
    ASSUME NEW n \in Nat, NEW up, Rises(up, n), NEW o,
           o.sizes \in Seq(Nat), Len(o.sizes) = n,
           \A t \in 1..n : o.offsets[t] \in Nat,
           o.forest = FillFromParents(up),
           NEW deg \in Seq(Nat), Len(deg) = n, NEW control
    PROVE  HasSupernodes(RelaxSupernodes(o, deg, control))
<1> DEFINE merged == Merges(o, deg, control)
           mp == merged.mergeParents
           relaxed == RelaxedParentsAndDegrees(o.forest.parents, deg, mp)
           kept == Filtered(Indices(n), LAMBDA i : mp[i] = None)
           top == {i \in 1..n : mp[i] = None}
           start(s) == IF merged.lastMerged[s] = None
                       THEN s ELSE merged.lastMerged[s]
           columns(s) == Listed(o, Path(mp, start(s), {None}))
           packed == RelaxationSizesOffsetsAndInversePermutation(
                         o, merged, relaxed.kept)
<1>1. up = [i \in 1..n |-> up[i]] /\ DOMAIN up = 1..n /\ Len(up) = n
  <2>1. up = [i \in 1..n |-> up[i]] /\ DOMAIN up = 1..n
    BY DEF Rises
  <2> QED
    BY <2>1, WrittenDown
<1>2. /\ o.forest.parents = up
      /\ \A p \in 1..n : o.forest.children[p] \in Seq({c \in 1..n : up[c] = p})
  <2> DEFINE child(p) == Filtered(Indices(n), LAMBDA i : up[i] = p)
             f == [p \in 1..n |-> child(p)]
  <2>1. o.forest.children = <<>> \o f /\ o.forest.parents = up
    BY <1>1 DEF FillFromParents
  <2>2. \A p \in 1..n : child(p) \in Seq({c \in 1..n : up[c] = p})
    BY FilteredFacts
  <2> HIDE DEF child
  <2>3. \A p \in 1..n : f[p] = child(p)
    OBVIOUS
  <2>4. f = [p \in 1..n |-> f[p]]
    OBVIOUS
  <2> HIDE DEF f
  <2>5. <<>> \o f = f
    BY <2>4, WrittenDown
  <2> QED
    BY <2>1, <2>2, <2>3, <2>5
<1>3. IsMerged(merged, up, n, n)
  <2>1. o.sizes \in [1..n -> Nat] /\ deg \in [1..n -> Nat]
    OBVIOUS
  <2> QED
    BY <1>2, <2>1, MergesFit
<1>4. merged \in MergeStates(n) /\ \E depth : Descends(mp, depth, n)
  BY <1>3 DEF IsMerged, HaveTops
<1> HIDE DEF merged
<1>5. mp \in [1..n -> 0..n] /\ merged.lastMerged \in [1..n -> 0..n]
  BY <1>4 DEF MergeStates
<1>6. kept \in Seq(top)
  BY ZenonT(40), FilteredFacts
<1>7. relaxed.kept = kept
  BY <1>1, <1>2 DEF RelaxedParentsAndDegrees
<1>8. o.sizes \in [1..n -> Nat] /\ deg \in [1..n -> Nat]
  OBVIOUS
<1>9. DOMAIN kept = 1..Len(kept) /\ Len(kept) \in Nat
      /\ \A k \in 1..Len(kept) : kept[k] \in top
  <2> HIDE DEF kept, top
  <2> QED
    BY <1>6
<1>10. top \subseteq 1..n
  OBVIOUS
<1>11. /\ relaxed.degrees = [k \in DOMAIN kept |-> deg[kept[k]]]
      /\ relaxed.degrees \in Seq(Nat) /\ Len(relaxed.degrees) = Len(kept)
  <2> DEFINE f == [k \in DOMAIN kept |-> deg[kept[k]]]
  <2>1. relaxed.degrees = <<>> \o f
    BY <1>1, <1>2 DEF RelaxedParentsAndDegrees
  <2>2. DOMAIN kept = 1..Len(kept) /\ Len(kept) \in Nat
        /\ \A k \in 1..Len(kept) : kept[k] \in 1..n
    BY <1>9, <1>10
  <2>3. \A k \in 1..Len(kept) : f[k] \in Nat
    <3> HIDE DEF kept
    <3> QED
      BY <1>8, <2>2
  <2>4. f = [k \in 1..Len(kept) |-> f[k]]
    BY <2>2
  <2> HIDE DEF f
  <2>5. <<>> \o f = f /\ f \in Seq(Nat) /\ Len(f) = Len(kept)
    BY <2>2, <2>3, <2>4, WrittenDown
  <2> QED
    BY <2>1, <2>5 DEF f
<1>12. \A s \in top : columns(s) \in Seq(Nat)
  <2> SUFFICES ASSUME NEW s \in top PROVE columns(s) \in Seq(Nat)
    OBVIOUS
  <2>1. start(s) \in 0..n
    BY <1>5
  <2>2. Path(mp, start(s), {None}) \in Seq(1..n)
    BY <1>4, <2>1, PathsEnd
  <2> QED
    BY <1>8, <2>2, ColumnsAreListed
<1>13. packed.sizes \in Seq(Nat) /\ Len(packed.sizes) = Len(kept)
  <2> DEFINE f == [k \in DOMAIN kept |-> Len(columns(kept[k]))]
  <2>1. packed.sizes = <<>> \o f
    BY <1>7 DEF RelaxationSizesOffsetsAndInversePermutation, Listed
  <2>2. DOMAIN kept = 1..Len(kept) /\ Len(kept) \in Nat
        /\ \A k \in 1..Len(kept) : kept[k] \in top
    BY <1>9
  <2>3. \A k \in 1..Len(kept) : f[k] \in Nat
    <3>1. \A k \in 1..Len(kept) : columns(kept[k]) \in Seq(Nat)
      BY <1>12, <2>2
    <3> HIDE DEF columns
    <3> QED
      BY <2>2, <3>1
  <2>4. f = [k \in 1..Len(kept) |-> f[k]]
    BY <2>2
  <2> HIDE DEF f
  <2>5. <<>> \o f = f /\ f \in Seq(Nat) /\ Len(f) = Len(kept)
    BY <2>2, <2>3, <2>4, WrittenDown
  <2> QED
    BY <2>1, <2>5
<1>14. LET form == RelaxSupernodes(o, deg, control)
       IN  /\ form.ordering.sizes = packed.sizes
           /\ "sizes" \in DOMAIN form.ordering
           /\ form.degrees = relaxed.degrees
  BY DEF RelaxSupernodes, AfterMerges, RelaxedForm, merged
<1> QED
  BY <1>11, <1>13, <1>14 DEF HasSupernodes

\* Supernodes have them however they are formed.
LEMMA FormHasSupernodes ==
    ASSUME NEW n \in Nat, NEW scalar, Climbs(scalar.parents, n),
           scalar.degrees \in [1..n -> Nat],
           NEW o, IsOrdering(o, n), NEW control
    PROVE  HasSupernodes(FormSupernodes(o, scalar, control))
<1> DEFINE up == scalar.parents
           deg == scalar.degrees
           sizes == FormFundamentalSupernodes(up, deg)
           offsets == OffsetScan(sizes)
           count == Len(sizes)
           members == MemberToIndex(Len(up), offsets)
           ups == ConvertFromScalarToSupernodalEliminationForest(
                      count, up, members)
           fundamental == [o EXCEPT !.sizes = sizes, !.offsets = offsets,
                                    !.forest = FillFromParents(ups)]
           degs == <<>> \o [s \in DOMAIN sizes |-> deg[offsets[s] + sizes[s]]]
           form == FormSupernodes(o, scalar, control)
<1>1. /\ sizes \in Seq(Nat \ {0}) /\ sizes \in Seq(Nat) /\ count \in Nat
      /\ DOMAIN sizes = 1..count /\ Last(offsets) = n
      /\ \A s \in 1..count : sizes[s] \in Nat \ {0}
  <2>1. sizes \in Seq(Nat \ {0}) /\ Last(offsets) = n
    BY FundamentalsCover
  <2> HIDE DEF sizes
  <2> QED
    BY <2>1
<1> HIDE DEF sizes
<1>2. \A s \in 1..count : offsets[s] \in Nat /\ offsets[s] + sizes[s] <= n
  BY <1>1, OffsetsNest
<1> HIDE DEF offsets
<1>3. Len(up) = n
  <2>1. up = [i \in 1..n |-> up[i]]
    BY DEF Climbs
  <2> QED
    BY <2>1, WrittenDown
<1>4. Rises(ups, count)
  <2>1. Ascends(members, n)
    BY <1>3, MembersAscend
  <2> HIDE DEF members
  <2> QED
    BY <1>1, <2>1, SupernodesRise
<1> HIDE DEF ups
<1>5. degs \in Seq(Nat) /\ Len(degs) = count
  <2> DEFINE f == [s \in DOMAIN sizes |-> deg[offsets[s] + sizes[s]]]
  <2>1. \A s \in 1..count : f[s] \in Nat
    <3>1. \A s \in 1..count : offsets[s] + sizes[s] \in 1..n
      BY <1>1, <1>2
    <3> QED
      BY <1>1, <3>1
  <2>2. f = [s \in 1..count |-> f[s]]
    BY <1>1
  <2>3. degs = <<>> \o f
    OBVIOUS
  <2> HIDE DEF f
  <2>4. <<>> \o f = f /\ f \in Seq(Nat) /\ Len(f) = count
    <3> HIDE DEF count
    <3> QED
      BY <1>1, <2>1, <2>2, WrittenDown
  <2> HIDE DEF degs
  <2> QED
    BY <2>3, <2>4
<1>6. /\ fundamental.sizes = sizes /\ fundamental.offsets = offsets
      /\ fundamental.forest = FillFromParents(ups)
      /\ "sizes" \in DOMAIN fundamental
  <2> DEFINE forest == FillFromParents(ups)
  <2>1. o \in [permutation : Orders(n), inverse : Orders(n),
               sizes : Seq(Nat), offsets : Seq(Nat), forest : {o.forest}]
    BY DEF IsOrdering
  <2>2. DOMAIN o = {"permutation", "inverse", "sizes", "offsets", "forest"}
    BY <2>1
  <2> HIDE DEF forest
  <2>3. fundamental = [o EXCEPT !.sizes = sizes, !.offsets = offsets,
                                !.forest = forest]
    BY DEF forest
  <2> QED
    BY <2>2, <2>3 DEF forest
<1> HIDE DEF fundamental, degs
<1>7. form = IF control.relax
             THEN RelaxSupernodes(fundamental, degs, control)
             ELSE [ordering |-> fundamental, degrees |-> degs,
                   members |-> members]
  BY DEF FormSupernodes, fundamental, degs, ups, offsets, sizes
<1> HIDE DEF form, members
<1>8. CASE control.relax
  <2>1. HasSupernodes(RelaxSupernodes(fundamental, degs, control))
    BY <1>1, <1>2, <1>4, <1>5, <1>6, RelaxedHasSupernodes
  <2> QED
    BY <1>7, <1>8, <2>1 DEF form
<1>9. CASE ~control.relax
  <2>1. form.degrees = degs /\ form.ordering = fundamental
    BY <1>7, <1>9
  <2> QED
    BY <1>1, <1>5, <1>6, <2>1 DEF HasSupernodes, form
<1> QED
  BY <1>8, <1>9

-----------------------------------------------------------------------------
(***************************************************************************)
(* The buffer of values.                                                   *)
(***************************************************************************)
\* The number of values depends on the degrees and the sizes alone.
ValuesOf(deg, sizes) ==
    Through(Indices(Len(deg)), 0, LAMBDA n, s :
        n + sizes[s] * (sizes[s] + deg[s]))

\* It is a natural number.
LEMMA ValuesAreCounted ==
    ASSUME NEW deg \in Seq(Nat), NEW sizes \in Seq(Nat),
           Len(sizes) = Len(deg)
    PROVE  ValuesOf(deg, sizes) \in Nat
<1> DEFINE E == 1..Len(deg)
           V == Nat
           add(n, s) == n + sizes[s] * (sizes[s] + deg[s])
           q == Indices(Len(deg))
           D == 0..Len(q)
           step == [xe \in V \X E |-> add(xe[1], xe[2])]
           Body(g) == [k \in D |-> IF k = 0 THEN 0 ELSE add(g[k - 1], q[k])]
           g == CHOOSE g : g = Body(g)
<1>1. q \in Seq(E) /\ Len(q) \in Nat
  <2>1. Len(deg) \in Nat
    OBVIOUS
  <2> QED
    BY <2>1, IndicesAreTyped
<1>2. ASSUME NEW n \in V, NEW s \in E PROVE add(n, s) \in V
  <2>1. sizes[s] \in Nat /\ deg[s] \in Nat
    OBVIOUS
  <2>2. sizes[s] * (sizes[s] + deg[s]) \in Nat
    BY <2>1
  <2> QED
    BY <2>2
<1>3. \A n \in V, s \in E :
          <<n, s>> \in V \X E /\ step[<<n, s>>] = add(n, s)
  <2> HIDE DEF V, E, add
  <2> QED
    OBVIOUS
<1>4. IsStep(step, V, E)
  <2>1. \A xe \in V \X E : add(xe[1], xe[2]) \in V
    BY <1>2
  <2> HIDE DEF V, add, E
  <2> QED
    BY <2>1 DEF IsStep
<1>5. 0 \in V
  OBVIOUS
<1> HIDE DEF step, V, add, E, q
<1>6. g = Body(g)
  <2>1. PICK f \in [D -> V] : IsLoop(f, q, 0, step)
    BY <1>1, <1>4, <1>5, LoopExists
  <2>2. \A k \in D : k # 0 => f[k - 1] \in V /\ q[k] \in E
    <3>1. \A k \in D : k # 0 => k \in 1..Len(q) /\ k - 1 \in D
      BY <1>1
    <3>2. \A k \in 1..Len(q) : q[k] \in E
      BY <1>1
    <3> HIDE DEF D
    <3>3. \A k \in D : f[k] \in V
      BY <2>1
    <3> QED
      BY <3>1, <3>2, <3>3
  <2>3. \A k \in D : (IF k = 0 THEN 0 ELSE step[<<f[k - 1], q[k]>>])
                          = (IF k = 0 THEN 0 ELSE add(f[k - 1], q[k]))
    BY <1>3, <2>2
  <2>4. f = Body(f)
    BY <2>1, <2>3 DEF IsLoop
  <2> QED
    BY <2>4
<1>7. ValuesOf(deg, sizes) = g[Len(q)]
  BY DEF ValuesOf, Through, add, q
<1> HIDE DEF g
<1>8. Follows(g, q, 0, step, V)
  <2>1. \A k \in 1..Len(q) : q[k] \in E /\ k \in D /\ k # 0
    BY <1>1
  <2>2. 0 \in D
    BY <1>1
  <2> QED
    BY <1>3, <1>6, <2>1, <2>2 DEF Follows
<1>9. g[Len(q)] \in V
  BY <1>1, <1>4, <1>5, <1>8, LoopIsFound
<1> QED
  BY <1>7, <1>9 DEF V

\* This is what the front end asks for.
LEMMA FactorValuesFacts ==
    ASSUME NEW f, HasSupernodes(f)
    PROVE  /\ FactorValues(f) = ValuesOf(f.degrees, f.ordering.sizes)
           /\ FactorValues(f) \in Nat
<1>1. FactorValues(f) = ValuesOf(f.degrees, f.ordering.sizes)
  BY DEF FactorValues, ValuesOf
<1>2. ValuesOf(f.degrees, f.ordering.sizes) \in Nat
  BY ValuesAreCounted DEF HasSupernodes
<1> QED
  BY <1>1, <1>2

\* A buffer that has grown has room for what it was asked for.
LEMMA BufferGrows ==
    ASSUME NEW capacity \in Nat, NEW needed \in Nat
    PROVE  /\ GrownBuffer(capacity, needed) \in Nat
           /\ GrownBuffer(capacity, needed) >= needed
<1>1. needed \div 8 \in Nat
  OBVIOUS
<1> HIDE DEF GrownBuffer
<1> QED
  BY <1>1 DEF GrownBuffer

\* A supernodal factor is there as soon as there is anything, with its
\* supernodes, and the buffer has room for it.
IsSetUp(f) ==
    /\ "ordering" \in DOMAIN f /\ "degrees" \in DOMAIN f
    /\ HasSupernodes(f)
HasRoom(l) ==
    /\ {"status", "isSupernodal", "factor", "values"} \subseteq DOMAIN l
    /\ l.values \in Nat /\ l.isSupernodal \in BOOLEAN
    /\ l.status = "symbolic" => l.isSupernodal
    /\ l.isSupernodal =>
           IsSetUp(l.factor) /\ l.values >= FactorValues(l.factor)

\* What keeps the degrees and the ordering keeps the room.
LEMMA SameRoom ==
    ASSUME NEW f, IsSetUp(f), NEW g, "ordering" \in DOMAIN g,
           "degrees" \in DOMAIN g, g.ordering = f.ordering,
           g.degrees = f.degrees
    PROVE  IsSetUp(g) /\ FactorValues(g) = FactorValues(f)
<1>1. HasSupernodes(g) /\ IsSetUp(g)
  BY DEF IsSetUp, HasSupernodes
<1> QED
  BY <1>1, FactorValuesFacts DEF IsSetUp

\* The object that a program starts with.
LEMMA EmptyHasRoom == HasRoom(NoLDL)
BY DEF HasRoom, NoLDL

\* A numeric factorization changes neither the room nor what is needed.
LEMMA ResultHasRoom ==
    ASSUME NEW l, HasRoom(l), NEW scaling, NEW result
    PROVE  LET r == WithResult(l, scaling, result)
           IN  /\ HasRoom(r) /\ r.isSupernodal = l.isSupernodal
               /\ l.isSupernodal => r.factor.degrees = l.factor.degrees
<1> DEFINE written == WithNumbers(l.factor, result.factor)
           factor == IF l.isSupernodal THEN written ELSE result.factor
           again == RescaledRegularization(result.regularization, scaling)
           x == [l EXCEPT !.factor = factor, !.scaling = scaling,
                          !.pivots = result.pivots,
                          !.regularization = again]
           r == WithResult(l, scaling, result)
<1>1. l.isSupernodal => /\ IsSetUp(written)
                        /\ FactorValues(written) = FactorValues(l.factor)
                        /\ written.degrees = l.factor.degrees
  <2> SUFFICES ASSUME l.isSupernodal
               PROVE  /\ IsSetUp(written)
                      /\ FactorValues(written) = FactorValues(l.factor)
                      /\ written.degrees = l.factor.degrees
    OBVIOUS
  <2>1. IsSetUp(l.factor) /\ "ordering" \in DOMAIN l.factor
        /\ "degrees" \in DOMAIN l.factor
    BY DEF HasRoom, IsSetUp
  <2>2. /\ DOMAIN written = DOMAIN l.factor
        /\ written.ordering = l.factor.ordering
        /\ written.degrees = l.factor.degrees
    BY <2>1 DEF WithNumbers
  <2> HIDE DEF written
  <2> QED
    BY <2>1, <2>2, SameRoom
<1>2. r = Judged(x)
  BY DEF WithResult
<1> HIDE DEF written
<1>3. /\ DOMAIN x = DOMAIN l /\ x.values = l.values
      /\ x.isSupernodal = l.isSupernodal /\ x.factor = factor
  <2> HIDE DEF factor, again
  <2> QED
    BY DEF HasRoom
<1> HIDE DEF x
<1>4. /\ DOMAIN r = DOMAIN l /\ r.values = l.values
      /\ r.isSupernodal = l.isSupernodal /\ r.factor = factor
      /\ r.status \in {"factored", "failed"}
  BY <1>2, <1>3 DEF Judged, HasRoom
<1> HIDE DEF r
<1>5. HasRoom(r)
  BY <1>1, <1>4 DEF HasRoom
<1> QED
  BY <1>1, <1>4, <1>5 DEF r

\* An analysis makes room in the buffer that it takes over.
LEMMA AnalyzedHasRoom ==
    ASSUME NEW l, HasRoom(l), NEW m, NEW n \in Nat, NEW o, IsOrdering(o, n),
           NEW scalar, Climbs(scalar.parents, n),
           scalar.degrees \in [1..n -> Nat], NEW control, NEW deferred
    PROVE  LET r == AnalyzePattern(l, m, o, scalar, control, deferred)
           IN  HasRoom(r) /\ r.isSupernodal = TRUE
<1> DEFINE form == FormSupernodes(o, scalar, control)
           factor == InitializeFactors(m, form, control.parallel)
           needed == FactorValues(factor)
           values == GrownBuffer(Inherited(l, deferred), needed)
           effective == EffectiveControl(control)
           r == AnalyzePattern(l, m, o, scalar, control, deferred)
<1>1. HasSupernodes(form)
  BY FormHasSupernodes
<1> HIDE DEF form
<1>2. /\ "ordering" \in DOMAIN factor /\ "degrees" \in DOMAIN factor
      /\ factor.ordering = form.ordering /\ factor.degrees = form.degrees
  BY DEF InitializeFactors
<1>3. IsSetUp(factor)
  <2> HIDE DEF factor
  <2> QED
    BY <1>1, <1>2 DEF IsSetUp, HasSupernodes
<1> HIDE DEF factor
<1>4. needed \in Nat
  BY <1>3, FactorValuesFacts DEF IsSetUp
<1> HIDE DEF needed
<1>5. values \in Nat /\ values >= needed
  <2>1. Inherited(l, deferred) \in Nat
    BY DEF Inherited, HasRoom
  <2> QED
    BY <1>4, <2>1, BufferGrows
<1>6. r = [NoLDL EXCEPT !.status = "symbolic", !.isSupernodal = TRUE,
                        !.factor = factor, !.control = effective,
                        !.values = values]
  BY DEF AnalyzePattern, WithSymbolicFactor, factor, form, needed
<1> HIDE DEF values, effective
<1>7. /\ {"status", "isSupernodal", "factor", "values"} \subseteq DOMAIN r
      /\ r.status = "symbolic" /\ r.isSupernodal = TRUE
      /\ r.factor = factor /\ r.values = values
  BY <1>6 DEF NoLDL
<1> HIDE DEF r
<1> QED
  BY <1>3, <1>5, <1>7 DEF HasRoom, needed, r

\* A factorization without supernodes needs no buffer.
LEMMA ScalarHasRoom ==
    ASSUME NEW m, NEW o, NEW control
    PROVE  HasRoom(FactorScalar(m, o, control))
<1>1. HasRoom([NoLDL EXCEPT !.control = control])
  BY DEF HasRoom, NoLDL
<1> QED
  BY <1>1, ResultHasRoom DEF FactorScalar

\* Refactorizations go on with the buffer, from a matrix ...
LEMMA RefactoredHasRoom ==
    ASSUME NEW l, HasRoom(l), NEW m
    PROVE  LET r == RefactorWithFixedSparsityPattern(l, m)
           IN  /\ HasRoom(r) /\ r.isSupernodal = l.isSupernodal
               /\ l.isSupernodal => r.factor.degrees = l.factor.degrees
BY ResultHasRoom DEF RefactorWithFixedSparsityPattern

\* ... and from arrays.
LEMMA BlocksHaveRoom ==
    ASSUME NEW l, HasRoom(l), NEW input
    PROVE  LET r == RefactorBlocks(l, input)
           IN  /\ HasRoom(r) /\ r.isSupernodal = l.isSupernodal
               /\ l.isSupernodal => r.factor.degrees = l.factor.degrees
<1> DEFINE x == [l EXCEPT !.input = input]
<1>1. /\ HasRoom(x) /\ x.isSupernodal = l.isSupernodal
      /\ x.factor = l.factor
  BY DEF HasRoom
<1> HIDE DEF x
<1>2. PICK scaling, result : RefactorBlocks(l, input)
                                 = WithResult(x, scaling, result)
  BY DEF RefactorBlocks, x
<1> QED
  BY <1>1, <1>2, ResultHasRoom

\* An expansion to blocks gets a buffer of its own.
LEMMA ExpandedHasRoom ==
    ASSUME NEW l, HasRoom(l), l.status = "symbolic", NEW size \in Nat
    PROVE  HasRoom(ExpandedLDL(l, size))
<1> DEFINE f == l.factor
           o == f.ordering
           scaled(s) == <<>> \o [k \in DOMAIN s |-> size * s[k]]
           factor == ExpandSymbolicFactorizationToScalar(f, size)
           needed == FactorValues(factor)
           r == ExpandedLDL(l, size)
<1>1. IsSetUp(f) /\ l.isSupernodal = TRUE
  BY DEF HasRoom
<1>2. ASSUME NEW s \in Seq(Nat)
      PROVE  scaled(s) \in Seq(Nat) /\ Len(scaled(s)) = Len(s)
  <2> DEFINE g == [k \in DOMAIN s |-> size * s[k]]
  <2>1. Len(s) \in Nat /\ DOMAIN s = 1..Len(s)
        /\ \A k \in 1..Len(s) : s[k] \in Nat
    OBVIOUS
  <2>2. \A k \in 1..Len(s) : g[k] \in Nat
    BY <2>1
  <2>3. g = [k \in 1..Len(s) |-> g[k]]
    BY <2>1
  <2> HIDE DEF g
  <2>4. <<>> \o g = g /\ g \in Seq(Nat) /\ Len(g) = Len(s)
    BY <2>1, <2>2, <2>3, WrittenDown
  <2> QED
    BY <2>4 DEF g
<1>3. /\ scaled(o.sizes) \in Seq(Nat) /\ scaled(f.degrees) \in Seq(Nat)
      /\ Len(scaled(o.sizes)) = Len(scaled(f.degrees))
  BY <1>1, <1>2 DEF IsSetUp, HasSupernodes
<1>4. /\ "ordering" \in DOMAIN factor /\ "degrees" \in DOMAIN factor
      /\ factor.degrees = scaled(f.degrees)
      /\ "sizes" \in DOMAIN factor.ordering
      /\ factor.ordering.sizes = scaled(o.sizes)
  <2>1. "sizes" \in DOMAIN o
    BY <1>1 DEF IsSetUp, HasSupernodes
  <2> DEFINE sizes == scaled(o.sizes)
             offsets == scaled(o.offsets)
             permutation == UpgradePermutation(o.permutation, size)
             inverse == UpgradePermutation(o.inverse, size)
             new == [o EXCEPT !.sizes = sizes, !.offsets = offsets,
                              !.permutation = permutation,
                              !.inverse = inverse]
  <2>2. /\ "ordering" \in DOMAIN factor /\ "degrees" \in DOMAIN factor
        /\ factor.degrees = scaled(f.degrees) /\ factor.ordering = new
    BY DEF ExpandSymbolicFactorizationToScalar
  <2>3. "sizes" \in DOMAIN new /\ new.sizes = sizes
    <3> HIDE DEF sizes, offsets, permutation, inverse
    <3> QED
      BY <2>1
  <2> HIDE DEF new, factor, scaled
  <2> QED
    BY <2>2, <2>3
<1> HIDE DEF factor, scaled
<1>5. IsSetUp(factor)
  BY <1>3, <1>4 DEF IsSetUp, HasSupernodes
<1>6. needed \in Nat
  BY <1>5, FactorValuesFacts DEF IsSetUp
<1> HIDE DEF needed
<1>7. r = [l EXCEPT !.status = "symbolic", !.factor = factor,
                    !.values = needed, !.input = <<>>]
  BY DEF ExpandedLDL, factor, needed
<1>8. /\ DOMAIN r = DOMAIN l /\ r.status = "symbolic"
      /\ r.isSupernodal = TRUE /\ r.factor = factor /\ r.values = needed
  BY <1>1, <1>7 DEF HasRoom
<1> HIDE DEF r
<1>9. IsSetUp(r.factor) /\ FactorValues(r.factor) = needed
  BY <1>5, <1>8 DEF needed
<1>10. {"status", "isSupernodal", "factor", "values"} \subseteq DOMAIN r
  BY <1>8 DEF HasRoom
<1>11. r.values \in Nat /\ r.values >= FactorValues(r.factor)
  BY <1>6, <1>8, <1>9
<1>12. HasRoom(r)
  BY <1>8, <1>9, <1>10, <1>11, Zenon DEF HasRoom
<1> QED
  BY <1>12 DEF r

\* A clone has as much room as its original.
LEMMA CloneHasRoom ==
    ASSUME NEW l, HasRoom(l), l.isSupernodal
    PROVE  HasRoom(Clone(l))
<1> DEFINE f == l.factor
           factor == CloneFactor(f)
           r == Clone(l)
<1>1. IsSetUp(f)
  BY DEF HasRoom
<1>2. /\ DOMAIN factor = DOMAIN f /\ factor.ordering = f.ordering
      /\ factor.degrees = f.degrees
  BY <1>1 DEF CloneFactor, IsSetUp
<1> HIDE DEF factor
<1>3. IsSetUp(factor) /\ FactorValues(factor) = FactorValues(f)
  BY <1>1, <1>2, SameRoom DEF IsSetUp
<1>4. r = [l EXCEPT !.factor = factor, !.input = <<>>]
  BY DEF Clone, factor
<1>5. /\ DOMAIN r = DOMAIN l /\ r.status = l.status
      /\ r.isSupernodal = l.isSupernodal /\ r.values = l.values
      /\ r.factor = factor
  BY <1>4 DEF HasRoom
<1> HIDE DEF r
<1>6. HasRoom(r)
  BY <1>3, <1>5 DEF HasRoom
<1> QED
  BY <1>6 DEF r

-----------------------------------------------------------------------------
(***************************************************************************)
(* The sessions of a program.                                              *)
(***************************************************************************)
\* The buffer of values has room for the factor; the boundaries are those of
\* this factor, with as many columns as some solve had; and those of the last
\* solve, if that was a parallel one.
WorkspaceInv ==
    /\ HasRoom(ldl)
    /\ IF ldl.isSupernodal THEN IsWorkspace(boundaries, ldl.factor.degrees)
       ELSE boundaries = NoWorkspace
    /\ outcome.kind # "threw"
    /\ outcome.kind = "solved" /\ outcome.parallel =>
           /\ ldl.isSupernodal /\ boundaries.allocated
           /\ HasColumns(boundaries, ldl.factor.degrees, Width(outcome.b))

\* No boundaries have been placed for a new factorization.
LEMMA NothingIsPlaced ==
    ASSUME NEW deg
    PROVE  IsWorkspace(NoWorkspace, deg)
BY DEF IsWorkspace, NoWorkspace

\* What the session gives to its calls.
LEMMA ProblemShape ==
    ASSUME IndInv
    PROVE  /\ IsCoordinateMatrix(matrix) /\ matrix.rows \in Nat
           /\ IsOrdering(ordering, matrix.rows) /\ problem.blockSize \in Nat
           /\ \A b \in problem.rhs : Width(b) \in Nat
<1>1. /\ problem \in Problems /\ ordering = problem.ordering
      /\ matrix.rows = problem.matrix.rows /\ IsCoordinateMatrix(matrix)
  <2>1. session \in Seq(Problems) /\ session # <<>>
    BY DEF IndInv, SessionInv
  <2> QED
    BY <2>1 DEF IndInv, SessionInv, problem, SameSize, Tallies
<1> HIDE DEF problem
<1>2. /\ IsOrdering(problem.ordering, problem.matrix.rows)
      /\ problem.blockSize \in Nat
      /\ \A b \in problem.rhs : Width(b) \in Nat
  BY <1>1, SessionsAssumption DEF Problems
<1> QED
  BY <1>1, <1>2, RowsAreNatural

\* What an analysis leaves is enough for the factor.
LEMMA AnalyzedFits ==
    ASSUME IndInv, ForestIsExact, phase = "analyzed", HasRoom(ldl),
           SupernodalControls # {}, NEW control, NEW deferred
    PROVE  LET r == AnalyzePattern(ldl, matrix, ordering, Forest, control,
                                   deferred)
           IN  HasRoom(r) /\ r.isSupernodal = TRUE
<1>1. Symmetric(matrix)
  BY DEF SupernodalControls, Suits, Symmetric
<1>2. /\ matrix.rows \in Nat /\ Climbs(parents, matrix.rows)
      /\ degrees \in [1..matrix.rows -> Nat]
  BY <1>1, ProblemShape, ExactForestClimbs
<1>3. Forest.parents = parents /\ Forest.degrees = degrees
  BY DEF Forest
<1> QED
  BY <1>2, <1>3, ProblemShape, AnalyzedHasRoom

\* A new factorization starts without boundaries.
LEMMA BecomesFits ==
    ASSUME NEW l, HasRoom(l), NEW a, Becomes(l, a)
    PROVE  WorkspaceInv'
<1>1. /\ ldl' = l /\ boundaries' = NoWorkspace /\ outcome'.kind = "none"
  BY DEF Becomes, NoOutcome
<1>2. IsWorkspace(boundaries', ldl'.factor.degrees)
  BY <1>1, NothingIsPlaced
<1> QED
  BY <1>1, <1>2 DEF WorkspaceInv

\* A refactorization keeps them, and the degrees they were placed for.
LEMMA RenewedFits ==
    ASSUME WorkspaceInv, NEW l, HasRoom(l),
           l.isSupernodal = ldl.isSupernodal,
           l.isSupernodal => l.factor.degrees = ldl.factor.degrees,
           NEW a, Renewed(l, a)
    PROVE  WorkspaceInv'
<1>1. /\ ldl' = l /\ boundaries' = boundaries /\ outcome'.kind = "none"
  BY DEF Renewed, NoOutcome
<1> QED
  BY <1>1 DEF WorkspaceInv

\* A parallel solve places them for its right-hand sides.
LEMMA SolvedFits ==
    ASSUME IndInv, WorkspaceInv, SolveSystem
    PROVE  WorkspaceInv'
<1>1. PICK b \in problem.rhs,
           parallel \in IF ldl.isSupernodal THEN BOOLEAN ELSE {FALSE} :
        /\ ldl' = ldl
        /\ IF parallel /\ WorkspaceThrows(ldl.factor, boundaries)
           THEN outcome' = [kind |-> "threw"]
           ELSE /\ \E x : outcome' = [kind |-> "solved", b |-> b,
                                      parallel |-> parallel, solution |-> x]
                /\ boundaries' =
                     IF parallel
                     THEN SolveWorkspace(ldl.factor, boundaries, Width(b))
                     ELSE boundaries
  BY DEF SolveSystem
<1>2. Width(b) \in Nat
  BY ProblemShape
<1>3. CASE parallel
  <2>1. /\ ldl.isSupernodal /\ ldl.factor.degrees \in Seq(Nat)
        /\ IsWorkspace(boundaries, ldl.factor.degrees)
    BY <1>3 DEF WorkspaceInv, HasRoom, IsSetUp, HasSupernodes
  <2>2. ~WorkspaceThrows(ldl.factor, boundaries)
    <3> SUFFICES ASSUME boundaries.allocated
                 PROVE  Len(boundaries.views) = Len(ldl.factor.degrees)
      BY DEF WorkspaceThrows
    <3>1. PICK w : HasColumns(boundaries, ldl.factor.degrees, w)
      BY <2>1 DEF IsWorkspace
    <3> QED
      BY <2>1, <3>1, BoundariesFacts DEF HasColumns
  <2> DEFINE new == SolveWorkspace(ldl.factor, boundaries, Width(b))
  <2>3. /\ new.allocated = TRUE /\ new.capacity \in Nat
        /\ HasColumns(new, ldl.factor.degrees, Width(b))
    BY <1>2, <2>1, SolveWorkspaceFits
  <2>4. /\ boundaries' = new
        /\ \E x : outcome' = [kind |-> "solved", b |-> b,
                              parallel |-> parallel, solution |-> x]
    BY <1>1, <1>3, <2>2, Zenon
  <2> HIDE DEF new
  <2>5. IsWorkspace(new, ldl.factor.degrees)
    BY <2>3 DEF IsWorkspace
  <2>6. /\ outcome'.kind = "solved" /\ outcome'.parallel = parallel
        /\ outcome'.b = b
    BY <2>4
  <2> QED
    BY <1>1, <2>1, <2>3, <2>4, <2>5, <2>6 DEF WorkspaceInv
<1>4. CASE ~parallel
  <2>1. /\ boundaries' = boundaries /\ outcome'.kind = "solved"
        /\ outcome'.parallel = parallel
    BY <1>1, <1>4
  <2> QED
    BY <1>1, <1>4, <2>1 DEF WorkspaceInv
<1> QED
  BY <1>3, <1>4

\* No call disturbs this.
LEMMA WorkspaceStep ==
    ASSUME IndInv, ForestIsExact, WorkspaceInv, [Next]_vars
    PROVE  WorkspaceInv'
<1>1. CASE EditStep \/ StartAnalysis \/ AnalysisStep \/ EndAnalysis
           \/ SequentialAnalysis \/ UNCHANGED vars
  <2>1. UNCHANGED <<ldl, boundaries, outcome>>
    BY <1>1 DEF EditStep, QueueAddition, QueueRemoval, AddAtOnce, ChangeValue,
                Flush, Edit, StartAnalysis, AnalysisStep, EndAnalysis,
                SequentialAnalysis, solving, vars
  <2> QED
    BY <2>1 DEF WorkspaceInv
<1>2. CASE DrawSample \/ Replace \/ NextProblem \/ RefineSystem
  <2>1. /\ ldl' = ldl /\ boundaries' = boundaries
        /\ outcome'.kind \in {"none", "sampled", "refined"}
    BY <1>2 DEF DrawSample, Replace, NextProblem, RefineSystem, NoOutcome
  <2> QED
    BY <2>1 DEF WorkspaceInv
<1>3. HasRoom(ldl)
  BY DEF WorkspaceInv
<1>4. CASE Analyzed \/ Factored
  <2>1. phase = "analyzed" /\ SupernodalControls # {}
    BY <1>4 DEF Analyzed, Factored
  <2>2. \E l, a : HasRoom(l) /\ Becomes(l, a)
    BY <1>3, <1>4, <2>1, AnalyzedFits, ResultHasRoom
       DEF Analyzed, Factored, FactorSupernodal, FactorAnalyzed
  <2> QED
    BY <2>2, BecomesFits
<1>5. CASE FactoredWithoutSupernodes \/ Expand \/ CloneObject
  <2>1. problem.blockSize \in Nat
    BY ProblemShape
  <2>2. \E l, a : HasRoom(l) /\ Becomes(l, a)
    BY <1>3, <1>5, <2>1, ScalarHasRoom, ExpandedHasRoom, CloneHasRoom
       DEF FactoredWithoutSupernodes, Expand, CloneObject, MayClone
  <2> QED
    BY <2>2, BecomesFits
<1>6. CASE RefactorFromArrays \/ RefactorFromMatrix
  <2>1. \E l, a : /\ HasRoom(l) /\ Renewed(l, a)
                  /\ l.isSupernodal = ldl.isSupernodal
                  /\ l.isSupernodal => l.factor.degrees = ldl.factor.degrees
    BY <1>3, <1>6, RefactoredHasRoom, BlocksHaveRoom
       DEF RefactorFromArrays, RefactorFromMatrix
  <2> QED
    BY <2>1, RenewedFits
<1>7. CASE SolveSystem
  BY <1>7, SolvedFits
<1> QED
  BY <1>1, <1>2, <1>4, <1>5, <1>6, <1>7 DEF Next, EditStep
=============================================================================
