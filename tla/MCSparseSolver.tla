---------------------------- MODULE MCSparseSolver ----------------------------
(***************************************************************************)
(* Programs for TLC: small matrices over the field of order 49 and what is *)
(* done with them.                                                         *)
(***************************************************************************)
EXTENDS SparseProperties, NestedDissection

MCPrime == 7

\* The Hermitian matrix that has this diagonal and these entries <<i, j, x>>
\* below it after the permutation p.
Placed(p, d, below) ==
    LET n == Len(d)
        at(i) == CHOOSE k \in 1..n : p[k] = i
        entries == [i \in 1..n |-> Entry(at(i), at(i), FromReal(d[i]))]
            \o [k \in DOMAIN below |->
                   Entry(at(below[k][1]), at(below[k][2]), below[k][3])]
            \o [k \in DOMAIN below |->
                   Entry(at(below[k][2]), at(below[k][1]),
                         Conjugate(below[k][3]))]
    IN  AddEntries(Resize(EmptyMatrix, n, n), entries)
Reals(below) ==
    <<>> \o [k \in DOMAIN below |->
                <<below[k][1], below[k][2], FromReal(below[k][3])>>]

Natural == [permutation |-> <<>>, inverse |-> <<>>, sizes |-> <<>>,
            offsets |-> <<>>, forest |-> FillFromParents(<<>>)]
\* An ordering with supernodes of these sizes and their parents.
Manual(p, sizes, up) ==
    [permutation |-> p, inverse |-> InvertPermutation(p), sizes |-> sizes,
     offsets |-> OffsetScan(sizes), forest |-> FillFromParents(up)]

Rhs(n, w) == Matrix(n, w, LAMBDA i, j : FromReal(i + j * j))
ComplexRhs(n, w) == Matrix(n, w, LAMBDA i, j : <<i % 7, (i + 3 * j) % 7>>)

-----------------------------------------------------------------------------
MCPolicies ==
    LET generic == [real |-> FALSE, chunked |-> TRUE, fusedForward |-> -1,
                    fusedBackward |-> -1, fusedDegree |-> -1, triangle |-> 24,
                    forward |-> 24, backwardSize |-> 18, backwardDegree |-> 100,
                    entries |-> 0, workers |-> 2, rows |-> 1, alignment |-> 1,
                    forwardWork |-> 3, forwardMaxDepth |-> 1]
    IN  {generic,
         [generic EXCEPT !.fusedForward = 1, !.forward = 1,
                         !.backwardDegree = 1, !.entries = 1, !.triangle = 1,
                         !.forwardMaxDepth = 0]}

MCRefinements ==
    {[tolerance |-> <<0, 1>>, max_iters |-> 2, regularized |-> FALSE,
      scaled |-> FALSE],
     [tolerance |-> <<1, 2>>, max_iters |-> 0, regularized |-> TRUE,
      scaled |-> TRUE]}

\* Thresholds of the regularization, for matrices of up to six rows.
Params == [offset |-> 0, inverse |-> <<>>, positive |-> 2, negative |-> 1,
           signatures |-> [i \in 1..6 |-> TRUE], draws |-> [i \in 1..6 |-> TRUE]]

Scalar0 ==
    [isSupernodal |-> FALSE, equilibrate |-> FALSE, type |-> Cholesky,
     algorithm |-> "upLooking", pivoting |-> FALSE, blas |-> 2,
     regularize |-> FALSE, params |-> Params, record |-> FALSE,
     parallel |-> FALSE, tile |-> 1, relax |-> TRUE, blockSize |-> 1,
     cutoffs |-> <<[size |-> 3, zeros |-> 1, entries |-> 2]>>,
     preserveOrdering |-> FALSE]
Supernodal0 ==
    [Scalar0 EXCEPT !.isSupernodal = TRUE, !.algorithm = "rightLooking"]

ScalarChoices ==
    {Scalar0,
     [Scalar0 EXCEPT !.type = LDLAdjoint, !.algorithm = "leftLooking"],
     [Scalar0 EXCEPT !.equilibrate = TRUE],
     [Scalar0 EXCEPT !.regularize = TRUE, !.equilibrate = TRUE],
     [Scalar0 EXCEPT !.regularize = TRUE, !.algorithm = "leftLooking"]}
SymmetricChoices ==
    {[Scalar0 EXCEPT !.type = LDLTranspose, !.algorithm = a] :
         a \in {"upLooking", "leftLooking"}}
    \cup {[Supernodal0 EXCEPT !.type = LDLTranspose]}
SupernodalChoices ==
    {Supernodal0,
     [Supernodal0 EXCEPT !.type = LDLAdjoint, !.relax = FALSE],
     [Supernodal0 EXCEPT !.type = LDLAdjoint, !.pivoting = TRUE],
     [Supernodal0 EXCEPT !.regularize = TRUE, !.equilibrate = TRUE],
     [Supernodal0 EXCEPT !.type = LDLAdjoint, !.regularize = TRUE,
                         !.parallel = TRUE]}
Strict == [Supernodal0 EXCEPT !.relax = FALSE]
RefactorChoices ==
    {Strict, [Strict EXCEPT !.parallel = TRUE],
     [Strict EXCEPT !.algorithm = "leftLooking", !.record = TRUE],
     [Supernodal0 EXCEPT !.algorithm = "leftLooking"]}

-----------------------------------------------------------------------------
Problem0 ==
    [matrix |-> EmptyMatrix, ordering |-> Natural, entries |-> {}, budget |-> 0,
     controls |-> {}, inputs |-> {}, blockSize |-> 1, replacement |-> <<>>,
     rhs |-> {}, deferred |-> {FALSE}, clone |-> FALSE, samplers |-> {},
     draws |-> {}]

\* Editing alone, in a matrix that is not square.
Edits == [Problem0 EXCEPT
    !.matrix = AddEntry(Resize(EmptyMatrix, 2, 3), Entry(1, 3, One)),
    !.entries = {Entry(1, 3, MinusOne), Entry(1, 1, One), Entry(2, 2, <<2, 1>>)},
    !.budget = 3]

\* A matrix of two rows that is edited before it is factored.
Small == [Problem0 EXCEPT
    !.matrix = Placed(<<1, 2>>, <<1, 2>>, <<>>),
    !.entries = {Entry(1, 2, One), Entry(2, 1, One)},
    !.budget = 2,
    !.controls = {Supernodal0, Scalar0},
    !.rhs = {Rhs(2, 2)}]

\* Three leaves meet in one list of children.
StarOrder == Manual(<<3, 5, 1, 4, 2>>, <<1, 1, 1, 2>>, <<4, 4, 4, 0>>)
Star(below, d) == Placed(StarOrder.permutation, d, below)
RealStar == Star(Reals(<<<<4, 1, 6>>, <<4, 2, 6>>, <<4, 3, 6>>, <<5, 3, 3>>>>),
                 <<2, 4, 1, 2, 4>>)
ComplexStar == Star(<<<<4, 1, <<6, 1>>>>, <<4, 2, <<3, 2>>>>,
                      <<4, 3, <<5, 3>>>>, <<5, 3, <<5, 3>>>>>>,
                    <<4, 4, 4, 2, 4>>)
Stars == [Problem0 EXCEPT
    !.matrix = ComplexStar, !.ordering = StarOrder,
    !.controls = SupernodalChoices \cup ScalarChoices,
    !.replacement = <<Entry(3, 3, FromReal(2))>>,
    !.rhs = {ComplexRhs(5, 1), ComplexRhs(5, 2)}]
\* The second replacement throws, for want of an entry.
Symmetric == [Problem0 EXCEPT
    !.matrix = RealStar, !.ordering = StarOrder,
    !.controls = SymmetricChoices,
    !.replacement = <<Entry(1, 1, <<3, 2>>), Entry(1, 3, One), Entry(2, 2, One)>>,
    !.rhs = {ComplexRhs(5, 1)}]

\* Two levels of supernodes, with fill.
TwoOrder(p) == Manual(p, <<1, 1, 1, 1, 2>>, <<3, 3, 5, 5, 0>>)
Two(p) == Placed(p, <<1, 4, 4, 1, 2, 4>>,
    Reals(<<<<3, 1, 4>>, <<5, 1, 6>>, <<3, 2, 5>>, <<6, 2, 3>>, <<5, 4, 5>>,
            <<6, 5, 4>>>>))
FirstOrder == Manual(<<2, 1, 3, 4, 5>>, <<1, 1, 3>>, <<3, 3, 0>>)
First == [Problem0 EXCEPT
    !.matrix = Placed(FirstOrder.permutation, <<1, 1, 1, 2, 1>>,
                      Reals(<<<<3, 1, 3>>, <<5, 1, 2>>, <<3, 2, 1>>>>)),
    !.ordering = FirstOrder,
    !.controls = {Supernodal0}, !.deferred = BOOLEAN]
Second(p) == [Problem0 EXCEPT
    !.matrix = Two(p), !.ordering = TwoOrder(p),
    !.controls = RefactorChoices,
    !.inputs = {[A |-> DenseMatrix(Two(p)), B |-> <<>>, sigma |-> Zero],
                [A |-> DenseMatrix(Two(p)), B |-> <<>>, sigma |-> FromReal(3)]},
    !.rhs = {Rhs(6, 1), Rhs(6, 2)}]

\* The pattern of blocks of two rows, and what is in them.
Blocks ==
    LET p == <<2, 1, 3>>
        upgraded == UpgradePermutation(p, 2)
        a(d, below) == DenseMatrix(Placed(upgraded, d, Reals(below)))
    IN  [Problem0 EXCEPT
            !.matrix = Placed(p, <<1, 1, 1>>,
                              Reals(<<<<3, 1, 1>>, <<3, 2, 1>>>>)),
            !.ordering = Manual(p, <<1, 1, 1>>, <<3, 3, 0>>),
            !.controls = RefactorChoices,
            !.blockSize = 2, !.clone = TRUE,
            !.inputs = {
                [A |-> a(<<1, 4, 1, 2, 2, 2>>,
                         <<<<5, 1, 4>>, <<6, 1, 6>>, <<5, 2, 5>>, <<6, 2, 1>>,
                           <<5, 3, 5>>, <<6, 3, 2>>, <<5, 4, 2>>, <<6, 4, 6>>,
                           <<2, 1, 3>>, <<4, 3, 1>>, <<6, 5, 3>>>>),
                 B |-> <<>>, sigma |-> Zero],
                [A |-> a(<<1, 2, 1, 2, 2, 4>>,
                         <<<<5, 1, 1>>, <<6, 1, 3>>, <<5, 2, 3>>, <<6, 2, 2>>,
                           <<5, 3, 4>>, <<6, 3, 5>>, <<5, 4, 3>>, <<6, 4, 2>>,
                           <<2, 1, 1>>, <<4, 3, 6>>, <<6, 5, 5>>>>),
                 B |-> Matrix(6, 6, LAMBDA i, j :
                           IF i = j THEN FromReal(2) ELSE Zero),
                 sigma |-> One]},
            !.rhs = {Rhs(6, 1), Rhs(6, 2)}]

\* Grids of this many elements, with entries between nearest neighbours,
\* across the corners too.
GridMatrix(elements, d) ==
    LET points == [k \in DOMAIN elements |-> elements[k] + 1]
        all == [k \in DOMAIN elements |-> <<0, points[k]>>]
        n == Len(Vertices(all, all))
        at(v, k) == ((v - 1) \div Stride(all, k)) % points[k]
        near(v, w) == \A k \in DOMAIN elements : at(v, k) - at(w, k) \in -1..1
        place(i) == <<(i - 1) \div n + 1, ((i - 1) % n) + 1>>
        value(p) == IF p[1] = p[2] THEN d[1 + (p[1] % Len(d))] ELSE 6
        entries == SelectSeq(Indices(n * n),
                       LAMBDA i : near(place(i)[1], place(i)[2]))
    IN  UpdateRowEntryOffsets([Resize(EmptyMatrix, n, n) EXCEPT
            !.entries = <<>> \o [k \in DOMAIN entries |->
                Entry(place(entries[k])[1], place(entries[k])[2],
                      FromReal(value(place(entries[k]))))]])
Grid(elements) == [Problem0 EXCEPT
    !.matrix = GridMatrix(elements, <<1, 2>>),
    !.ordering = UnitReachNestedDissection(elements)]
Grids ==
    {<<4, 0>>, <<0, 4>>, <<10, 0>>, <<0, 11>>, <<5, 2>>, <<4, 4>>, <<3, 5>>,
     <<4, 1, 0>>, <<1, 1, 5>>, <<1, 10, 0>>, <<2, 0, 2>>}
SolvedGrid == [Grid(<<4, 1>>) EXCEPT
    !.controls = {[Strict EXCEPT !.type = LDLAdjoint],
                  [Supernodal0 EXCEPT !.type = LDLAdjoint],
                  [Scalar0 EXCEPT !.type = LDLAdjoint]},
    !.rhs = {Rhs(10, 1)}]

\* Samplers with and without supernodes, which are relaxed or not.
Sampled(m, o, draws) == [Problem0 EXCEPT
    !.matrix = m, !.ordering = o,
    !.samplers = {Scalar0} \cup
        {[Supernodal0 EXCEPT !.algorithm = a, !.relax = r, !.blas = b] :
            a \in {"leftLooking", "rightLooking"}, r \in BOOLEAN, b \in {1, 2}},
    !.draws = draws]
Samplings ==
    {Sampled(ComplexStar, StarOrder, {[i \in 1..5 |-> i \in kept] :
         kept \in {{}, {1, 3}, {2, 3, 4}, {4, 5}, 1..5}}),
     Sampled(Two(<<4, 1, 5, 2, 6, 3>>), TwoOrder(<<4, 1, 5, 2, 6, 3>>),
             {[i \in 1..6 |-> i \in kept] :
                 kept \in {{2}, {1, 2, 5}, {3, 4, 6}, {1, 3, 5, 6}}})}

\* Two right-hand sides for a matrix that is equilibrated.
ColumnSessions ==
    {<<[Small EXCEPT !.budget = 0,
                     !.controls = {[Supernodal0 EXCEPT !.equilibrate = TRUE],
                                   [Scalar0 EXCEPT !.equilibrate = TRUE]}]>>}

\* A matrix that is given after arrays.
RefactorSessions ==
    {<<[Second(<<4, 1, 5, 2, 6, 3>>) EXCEPT
            !.controls = {[Strict EXCEPT !.algorithm = "leftLooking"]}]>>}

\* One sample of a kernel of two rows that trade places.
SampleSessions ==
    {<<Sampled(Placed(<<2, 1>>, <<4, 2>>, Reals(<<<<2, 1, 1>>>>)),
               Manual(<<2, 1>>, <<1, 1>>, <<2, 0>>), [1..2 -> BOOLEAN])>>}

MCSessions ==
    {<<Edits>>, <<Small>>, <<Stars>>, <<Symmetric>>, <<Blocks>>,
     <<First, Second(<<4, 1, 5, 2, 6, 3>>)>>, <<SolvedGrid>>}
    \cup {<<Grid(elements)>> : elements \in Grids}
    \cup {<<sampling>> : sampling \in Samplings}
=============================================================================
